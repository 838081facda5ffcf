----------------------------- MODULE RoomProofs -----------------------------
(***************************************************************************)
(* Theorems about Room, for any users, seats, workers and bounds: the list *)
(* of players keeps its types and its shape, and Room implements           *)
(* RoomTable, where the list is a table and each change made under the     *)
(* room's lock is one step of it.                                          *)
(***************************************************************************)
EXTENDS Room, SequenceTheorems, FiniteSetTheorems, TLAPS

-----------------------------------------------------------------------------
(* What the list operations do to the players. *)

\* A function on 1..n with values in S is a sequence of n elements of S.
LEMMA FunctionIsSeq ==
  ASSUME NEW S, NEW n \in Nat, NEW f \in [1 .. n -> S]
  PROVE  f \in Seq(S) /\ Len(f) = n /\ DOMAIN f = 1 .. n
BY SeqDef, LenProperties

\* Removing one element of a sequence leaves a sequence of the others.
LEMMA WithoutType ==
  ASSUME NEW S, NEW s \in Seq(S), NEW i \in DOMAIN s
  PROVE  /\ Without(s, i) \in Seq(S)
         /\ DOMAIN Without(s, i) = 1 .. Len(s) - 1
         /\ \A j \in 1 .. Len(s) - 1 :
              Without(s, i)[j] = s[IF j < i THEN j ELSE j + 1]
<1>1. Len(s) \in Nat /\ DOMAIN s = 1 .. Len(s) /\ s \in [1 .. Len(s) -> S]
  BY LenProperties
<1> DEFINE n == Len(s) - 1
<1>2. n \in Nat
  BY <1>1
<1>3. [j \in 1 .. n |-> IF j < i THEN s[j] ELSE s[j + 1]] \in [1 .. n -> S]
  BY <1>1, <1>2
<1>4. Without(s, i) \in [1 .. n -> S]
  BY <1>3 DEF Without
<1> QED
  BY <1>2, <1>4, FunctionIsSeq DEF Without

\* Rewriting one element of a sequence leaves a sequence.
LEMMA ExceptType ==
  ASSUME NEW S, NEW s \in Seq(S), NEW i \in DOMAIN s, NEW e \in S
  PROVE  [s EXCEPT ![i] = e] \in Seq(S)
BY ExceptSeq, LenProperties

\* What every element of a list of players is.
LEMMA PlayersType ==
  ASSUME NEW s \in Seq(Player)
  PROVE  /\ Len(s) \in Nat /\ DOMAIN s = 1 .. Len(s)
         /\ \A i \in DOMAIN s : /\ s[i] \in Player
                                /\ s[i].user \in Users
                                /\ s[i].seat \in Seats
                                /\ s[i].ready \in BOOLEAN
<1>1. /\ Len(s) \in Nat /\ DOMAIN s = 1 .. Len(s)
      /\ \A i \in DOMAIN s : s[i] \in Player
  BY LenProperties
<1> QED
  BY <1>1 DEF Player

-----------------------------------------------------------------------------
(* Type correctness. *)

LEMMA NoCallType == NoCall \in Call
BY CreatorAssumption DEF Call, NoCall, Ops, Seats, None

LEMMA TypeInit == Init => TypeOK
<1> SUFFICES ASSUME Init PROVE TypeOK
  OBVIOUS
<1>1. <<>> \in Seq(Player) /\ <<>> \in Seq(SUBSET Seats)
  BY EmptySeq
<1> QED
  BY <1>1, NoCallType DEF Init, TypeOK, Points

\* A handler that returns leaves its request well-typed.
LEMMA DoneType ==
  ASSUME TypeOK, NEW r \in Reqs, Done(r)
  PROVE  pc' \in [Reqs -> Points] /\ call' \in [Reqs -> Call] /\ snap' \in [Reqs -> Nat]
BY NoCallType DEF Done, TypeOK, Points

LEMMA RefusedType ==
  ASSUME TypeOK, NEW r \in Reqs, Refused(r)
  PROVE  TypeOK'
BY DoneType DEF Refused, TypeOK, room, hist

\* A successful change leaves everything well-typed if it leaves the players
\* and the status so.
LEMMA ChangedType ==
  ASSUME TypeOK, NEW r \in Reqs, Changed(r), players' \in Seq(Player),
         status' \in {"absent", "waiting", "playing"}
  PROVE  TypeOK'
<1>1. window' \in [Reqs -> Seq(SUBSET Seats)]
  <2> SUFFICES ASSUME NEW q \in Reqs
               PROVE  [i \in DOMAIN window[q] |->
                         window[q][i] \cup (IF i \in DOMAIN players'
                                              THEN {players'[i].seat} ELSE {})]
                      \in Seq(SUBSET Seats)
    BY DEF Changed, Widened
  <2>1. /\ Len(window[q]) \in Nat /\ DOMAIN window[q] = 1 .. Len(window[q])
        /\ \A i \in DOMAIN window[q] : window[q][i] \in SUBSET Seats
    BY LenProperties DEF TypeOK
  <2>2. \A i \in DOMAIN players' : players'[i].seat \in Seats
    BY PlayersType
  <2>4. \A i \in DOMAIN window[q] :
          window[q][i] \cup (IF i \in DOMAIN players' THEN {players'[i].seat} ELSE {})
          \in SUBSET Seats
    BY <2>1, <2>2
  <2>3. [i \in DOMAIN window[q] |->
           window[q][i] \cup (IF i \in DOMAIN players' THEN {players'[i].seat} ELSE {})]
        \in [1 .. Len(window[q]) -> SUBSET Seats]
    BY <2>1, <2>4
  <2> QED
    BY <2>1, <2>3, FunctionIsSeq
<1>2. ver' \in Nat /\ stale' \in BOOLEAN
  <2>1. ver' = ver + 1 /\ stale' = FALSE
    BY Zenon DEF Changed
  <2>2. ver' \in Nat
    BY <2>1 DEF TypeOK
  <2>3. stale' \in BOOLEAN
    BY <2>1, Zenon
  <2> QED
    BY <2>2, <2>3
<1>5. /\ silent' \in BOOLEAN /\ crossed' \in BOOLEAN
      /\ told' \subseteq Users /\ shown' \subseteq Users /\ lost' \subseteq Users
  BY Zenon DEF Changed
<1>3. pc' \in [Reqs -> Points] /\ call' \in [Reqs -> Call] /\ snap' \in [Reqs -> Nat]
  <2>1. CASE call[r].op = "CREATE"
    BY <2>1, DoneType DEF Changed
  <2>2. CASE call[r].op # "CREATE"
    BY <2>2 DEF Changed, TypeOK, Points
  <2> QED
    BY <2>1, <2>2
<1>4. UNCHANGED <<listed, rcpt, evictor>>
  BY DEF Changed
<1> QED
  BY <1>1, <1>2, <1>3, <1>4, <1>5 DEF TypeOK

LEMMA TypeNext == TypeOK /\ [Next]_vars => TypeOK'
<1> SUFFICES ASSUME TypeOK, [Next]_vars PROVE TypeOK'
  OBVIOUS
<1> USE DEF room, reqs, hist
<1>1. ASSUME NEW r \in Reqs, Arrive(r) PROVE TypeOK'
  <2>1. CASE CreateRoom(r)
    <3>1. call' \in [Reqs -> Call] /\ pc' \in [Reqs -> Points]
      BY <2>1, NoCallType DEF CreateRoom, GetOrCreate, TypeOK, Points
    <3> QED
      BY <2>1, <3>1 DEF CreateRoom, GetOrCreate, TypeOK
  <2>2. ASSUME NEW o \in Ops, NEW u \in Users, NEW s \in Seats, Accept(r, o, u, s)
        PROVE  TypeOK'
    <3>1. [op |-> o, user |-> u, seat |-> s] \in Call
      BY DEF Call
    <3>2. call' \in [Reqs -> Call] /\ pc' \in [Reqs -> Points]
      BY <2>2, <3>1 DEF Accept, TypeOK, Points
    <3> QED
      BY <2>2, <3>2 DEF Accept, TypeOK
  <2>3. None \in Seats /\ TargetSeats \subseteq Seats
    BY DEF Seats
  <2> QED
    BY <1>1, <2>1, <2>2, <2>3
    DEF Arrive, JoinRoom, LeaveRoom, ReadyRoom, ChangeSeat, StartGame, Ops
<1>2. ASSUME NEW r \in Reqs, ScanBegin(r) PROVE TypeOK'
  <2>1. Len(players) \in Nat /\ DOMAIN players = 1 .. Len(players)
        /\ \A i \in DOMAIN players : players[i] \in Player
    BY LenProperties DEF TypeOK
  <2>2. [i \in DOMAIN players |-> {players[i].seat}] \in [1 .. Len(players) -> SUBSET Seats]
    BY <2>1 DEF Player
  <2>3. [i \in DOMAIN players |-> {players[i].seat}] \in Seq(SUBSET Seats)
    BY <2>1, <2>2, FunctionIsSeq
  <2>4. window' \in [Reqs -> Seq(SUBSET Seats)] /\ pc' \in [Reqs -> Points]
    BY <1>2, <2>3 DEF ScanBegin, TypeOK, Points
  <2> QED
    BY <1>2, <2>4 DEF ScanBegin, TypeOK
<1>3. ASSUME NEW r \in Reqs, ScanEnd(r) PROVE TypeOK'
  <2>1. PICK occ \in SUBSET Seats : AllocateSeat(r, occ)
    BY <1>3 DEF ScanEnd
  <2>2. /\ pc' \in [Reqs -> Points] /\ call' \in [Reqs -> Call]
        /\ snap' \in [Reqs -> Nat]
    <3>1. CASE Done(r)
      BY <3>1, DoneType
    <3>2. CASE \E s \in TableSeats \ occ :
                 /\ call' = [call EXCEPT ![r].seat = s]
                 /\ pc' = [pc EXCEPT ![r] = "apply"]
                 /\ UNCHANGED snap
      <4>1. PICK s \in Seats : call' = [call EXCEPT ![r].seat = s]
        BY <3>2 DEF Seats
      <4>2. call[r] \in Call
        BY DEF TypeOK
      <4>3. [call[r] EXCEPT !.seat = s] \in Call
        BY <4>2 DEF Call
      <4> QED
        BY <3>2, <4>1, <4>3 DEF TypeOK, Points
    <3> QED
      BY <2>1, <3>1, <3>2 DEF AllocateSeat
  <2>3. window' \in [Reqs -> Seq(SUBSET Seats)]
    BY <1>3, EmptySeq DEF ScanEnd, TypeOK
  <2> QED
    BY <1>3, <2>2, <2>3 DEF ScanEnd, TypeOK
<1>4. ASSUME NEW r \in Reqs, Apply(r) PROVE TypeOK'
  <2>1. CASE Join(r)
    <3>1. [user |-> call[r].user, seat |-> call[r].seat, ready |-> FALSE] \in Player
      BY DEF Call, Player, TypeOK
    <3>2. Append(players, [user |-> call[r].user, seat |-> call[r].seat,
                           ready |-> FALSE]) \in Seq(Player)
      BY <3>1 DEF TypeOK
    <3>3. CASE Refused(r)
      BY <3>3, RefusedType
    <3>4. CASE ~Refused(r)
      BY <2>1, <3>2, <3>4, ChangedType DEF Join, TypeOK
    <3> QED
      BY <3>3, <3>4
  <2>2. CASE Leave(r)
    BY <2>2, SMTT(30), RefusedType, ChangedType, WithoutType DEF Leave, TypeOK
  <2>3. CASE Ready(r)
    <3>1. \A i \in DOMAIN players : [players EXCEPT ![i].ready = ~@] \in Seq(Player)
      <4> TAKE i \in DOMAIN players
      <4>1. players[i] \in Player
        BY LenProperties DEF TypeOK
      <4>2. [players[i] EXCEPT !.ready = ~@] \in Player
        BY <4>1 DEF Player
      <4> QED
        BY <4>2, ExceptType DEF TypeOK
    <3> QED
      BY <2>3, <3>1, RefusedType, ChangedType DEF Ready, TypeOK
  <2>4. CASE Move(r)
    <3>1. \A i \in DOMAIN players : [players EXCEPT ![i].seat = call[r].seat] \in Seq(Player)
      <4> TAKE i \in DOMAIN players
      <4>1. players[i] \in Player /\ call[r].seat \in Seats
        BY LenProperties DEF TypeOK, Call
      <4>2. [players[i] EXCEPT !.seat = call[r].seat] \in Player
        BY <4>1 DEF Player
      <4> QED
        BY <4>2, ExceptType DEF TypeOK
    <3> QED
      BY <2>4, <3>1, RefusedType, ChangedType DEF Move, TypeOK
  <2>5. CASE Start(r)
    BY <2>5, RefusedType, ChangedType DEF Start, TypeOK
  <2> QED
    BY <1>4, <2>1, <2>2, <2>3, <2>4, <2>5 DEF Apply
<1>5. ASSUME NEW r \in Reqs, CopyRoomInfo(r) PROVE TypeOK'
  BY <1>5 DEF CopyRoomInfo, TypeOK, Points
<1>6. ASSUME NEW r \in Reqs, BroadcastToRoom(r) PROVE TypeOK'
  <2>1. Members \in SUBSET Users
    BY PlayersType DEF Members, TypeOK
  <2>2. /\ pc' \in [Reqs -> Points] /\ call' \in [Reqs -> Call]
        /\ snap' \in [Reqs -> Nat] /\ rcpt' \in [Reqs -> SUBSET Users]
    <3>1. CASE listed /\ Members # {}
      BY <1>6, <2>1, <3>1 DEF BroadcastToRoom, TypeOK, Points
    <3>2. CASE ~(listed /\ Members # {})
      BY <1>6, <3>2, DoneType DEF BroadcastToRoom, TypeOK
    <3> QED
      BY <3>1, <3>2
  <2> QED
    BY <1>6, <2>2 DEF BroadcastToRoom, TypeOK
<1>7. ASSUME NEW r \in Reqs, SendRoomPush(r) PROVE TypeOK'
  <2>1. PICK u \in rcpt[r] :
          /\ rcpt' = [rcpt EXCEPT ![r] = @ \ {u}]
          /\ IF rcpt[r] = {u} THEN Done(r) ELSE UNCHANGED <<pc, call, snap>>
          /\ Push(u, snap[r])
    BY <1>7 DEF SendRoomPush
  <2>2. pc' \in [Reqs -> Points] /\ call' \in [Reqs -> Call] /\ snap' \in [Reqs -> Nat]
    BY <2>1, DoneType DEF TypeOK
  <2>3. /\ rcpt' \in [Reqs -> SUBSET Users]
        /\ told' \subseteq Users /\ shown' \subseteq Users /\ lost' \subseteq Users
    BY <2>1 DEF TypeOK, Push
  <2> QED
    BY <1>7, <2>2, <2>3 DEF SendRoomPush, TypeOK
<1>8. CASE GoStale \/ Evict
  BY <1>8 DEF GoStale, Evict, EvictScan, EvictRemove, TypeOK
<1>9. CASE UNCHANGED vars
  BY <1>9 DEF vars, TypeOK
<1> QED
  BY <1>1, <1>2, <1>3, <1>4, <1>5, <1>6, <1>7, <1>8, <1>9 DEF Next, Serve

\* Every variable keeps its type, whatever the requests do.
THEOREM RoomTyped == Spec => []TypeOK
BY TypeInit, TypeNext, PTL DEF Spec

-----------------------------------------------------------------------------
(* No user is at the table twice and no seat is shared. *)

Distinct == MembersDistinct /\ SeatsDistinct

\* Only the changes made under the room's lock touch the players.
LEMMA PlayersChange ==
  ASSUME [Next]_vars
  PROVE  UNCHANGED players \/ \E r \in Reqs : Apply(r)
BY DEF Next, vars, room, reqs, hist, Arrive, Serve, CreateRoom, JoinRoom, LeaveRoom,
       ReadyRoom, ChangeSeat, StartGame, Accept, ScanBegin, ScanEnd, CopyRoomInfo,
       BroadcastToRoom, SendRoomPush, GoStale, Evict, EvictScan, EvictRemove

LEMMA DistinctNext == TypeOK /\ Distinct /\ [Next]_vars => Distinct'
<1> SUFFICES ASSUME TypeOK, Distinct, [Next]_vars PROVE Distinct'
  OBVIOUS
<1> USE DEF Distinct, MembersDistinct, SeatsDistinct
<1>1. /\ Len(players) \in Nat /\ DOMAIN players = 1 .. Len(players)
      /\ \A i \in DOMAIN players : players[i] \in Player
  BY PlayersType DEF TypeOK
<1>2. CASE UNCHANGED players
  BY <1>2
<1>3. ASSUME NEW r \in Reqs, Join(r) PROVE Distinct'
  <2> DEFINE p == [user |-> call[r].user, seat |-> call[r].seat, ready |-> FALSE]
  <2>1. CASE UNCHANGED players
    BY <2>1
  <2>2. CASE MayJoin(call[r].user, call[r].seat) /\ players' = Append(players, p)
    <3>1. /\ DOMAIN players' = 1 .. Len(players) + 1
          /\ players'[Len(players) + 1] = p
          /\ \A i \in 1 .. Len(players) : players'[i] = players[i]
      BY <1>1, <2>2 DEF TypeOK
    <3>2. \A i \in 1 .. Len(players) :
            /\ players[i].user # p.user
            /\ p.seat # None => players[i].seat # p.seat
      BY <1>1, <2>2 DEF MayJoin, Members, Taken
    <3> HIDE DEF p
    <3> QED
      BY <1>1, <3>1, <3>2
  <2> QED
    BY <1>3, <2>1, <2>2 DEF Join, Refused, room
<1>4. ASSUME NEW r \in Reqs, Leave(r) PROVE Distinct'
  <2>1. CASE UNCHANGED players
    BY <2>1
  <2>2. ASSUME NEW i \in DOMAIN players, players' = Without(players, i)
        PROVE  Distinct'
    <3>1. /\ DOMAIN players' = 1 .. Len(players) - 1
          /\ \A j \in 1 .. Len(players) - 1 :
               players'[j] = players[IF j < i THEN j ELSE j + 1]
      BY <2>2, WithoutType DEF TypeOK
    <3> DEFINE old(j) == IF j < i THEN j ELSE j + 1
    <3>2. \A j, k \in DOMAIN players' :
            old(j) \in DOMAIN players /\ (old(j) = old(k) => j = k)
      BY <1>1, <3>1
    <3>3. \A j \in DOMAIN players' : players'[j] = players[old(j)]
      BY <3>1
    <3> HIDE DEF old
    <3> QED
      BY <3>2, <3>3
  <2> QED
    BY <1>4, <2>1, <2>2 DEF Leave, Refused, room
<1>5. ASSUME NEW r \in Reqs, Ready(r) PROVE Distinct'
  <2>1. CASE UNCHANGED players
    BY <2>1
  <2>2. ASSUME NEW i \in DOMAIN players, players' = [players EXCEPT ![i].ready = ~@]
        PROVE  Distinct'
    <3>1. /\ DOMAIN players' = DOMAIN players
          /\ \A j \in DOMAIN players : /\ players'[j].user = players[j].user
                                       /\ players'[j].seat = players[j].seat
      BY <1>1, <2>2 DEF Player
    <3> QED
      BY <3>1
  <2> QED
    BY <1>5, <2>1, <2>2 DEF Ready, Refused, room
<1>6. ASSUME NEW r \in Reqs, Move(r) PROVE Distinct'
  <2>1. CASE UNCHANGED players
    BY <2>1
  <2>2. ASSUME NEW i \in DOMAIN players, MayMove(i, call[r].seat),
               players' = [players EXCEPT ![i].seat = call[r].seat]
        PROVE  Distinct'
    <3>1. /\ DOMAIN players' = DOMAIN players
          /\ players'[i].seat = call[r].seat
          /\ \A j \in DOMAIN players : /\ players'[j].user = players[j].user
                                       /\ j # i => players'[j].seat = players[j].seat
      BY <1>1, <2>2 DEF Player
    <3>2. call[r].seat # None => \A j \in DOMAIN players : players[j].seat # call[r].seat
      BY <2>2 DEF MayMove, Taken
    <3> QED
      BY <3>1, <3>2
  <2> QED
    BY <1>6, <2>1, <2>2 DEF Move, Refused, room
<1>7. ASSUME NEW r \in Reqs, Start(r) PROVE Distinct'
  BY <1>2, <1>7 DEF Start, Refused, room
<1> QED
  BY <1>2, <1>3, <1>4, <1>5, <1>6, <1>7, PlayersChange DEF Apply

\* Whatever seats the unlocked scans hand out, no user is in the room twice.
THEOREM RoomMembersDistinct == Spec => []MembersDistinct
<1>1. Init => Distinct
  BY DEF Init, Distinct, MembersDistinct, SeatsDistinct
<1> QED
  BY <1>1, TypeInit, TypeNext, DistinctNext, PTL DEF Spec, Distinct

\* Whatever seats the unlocked scans hand out, no two players share one.
THEOREM RoomSeatsDistinct == Spec => []SeatsDistinct
<1>1. Init => Distinct
  BY DEF Init, Distinct, MembersDistinct, SeatsDistinct
<1> QED
  BY <1>1, TypeInit, TypeNext, DistinctNext, PTL DEF Spec, Distinct

-----------------------------------------------------------------------------
(* The newest version of the room is pushed to every member.                 *)
(*                                                                           *)
(* LatestIsPushed speaks of moments without requests and is not inductive.   *)
(* Announced is: while requests run, a member to whom the newest version has *)
(* not been pushed is owed it by a request that has not copied the room yet, *)
(* or has copied that version and not yet read its recipients, or has the    *)
(* member among its recipients; and as long as the newest change overlaps no *)
(* other broadcast, every copy under way is of the newest version.           *)

Owed(u) ==
  \E r \in Reqs :
    \/ pc[r] = "copy"
    \/ pc[r] = "members" /\ snap[r] = ver
    \/ pc[r] = "push" /\ snap[r] = ver /\ u \in rcpt[r]

NoRoomYet == status = "absent" => ~listed /\ players = <<>> /\ \A r \in Reqs : pc[r] = "idle"
NobodyMissed ==
  listed /\ ver > 0 /\ ~silent => \A u \in Members : u \in told \/ Owed(u)
NothingCrosses ==
  ~crossed => /\ \A r \in Reqs : pc[r] \in {"members", "push"} => snap[r] = ver
              /\ told \subseteq shown \cup lost

Announced == NoRoomYet /\ NobodyMissed /\ NothingCrosses

\* A request that is not about to broadcast owes nobody anything.
LEMMA OwedKept ==
  ASSUME NEW r \in Reqs, TypeOK, pc[r] \notin {"copy", "members", "push"},
         \A q \in Reqs \ {r} : pc'[q] = pc[q] /\ snap'[q] = snap[q],
         UNCHANGED <<ver, rcpt>>,
         NEW u \in Users, Owed(u)
  PROVE  Owed(u)'
BY DEF Owed

LEMMA DoneElse ==
  ASSUME NEW r \in Reqs, TypeOK, Done(r)
  PROVE  /\ \A q \in Reqs \ {r} : pc'[q] = pc[q] /\ snap'[q] = snap[q]
         /\ pc'[r] = "idle" /\ snap'[r] = 0
BY DEF Done, TypeOK

LEMMA AnnouncedInit == Init => Announced
BY DEF Init, Announced, NoRoomYet, NobodyMissed, NothingCrosses

\* A step that leaves the room, its version and what was pushed alone, and moves
\* only a request that owes nothing, keeps the invariant.
LEMMA AnnouncedQuiet ==
  ASSUME TypeOK, Announced, NEW r \in Reqs, status # "absent",
         pc[r] \notin {"copy", "members", "push"},
         pc'[r] \notin {"copy", "members", "push"},
         \A q \in Reqs \ {r} : pc'[q] = pc[q] /\ snap'[q] = snap[q],
         UNCHANGED <<listed, players, status, rcpt, hist>>
  PROVE  Announced'
<1>1. NoRoomYet'
  BY DEF NoRoomYet
<1>2. NobodyMissed'
  <2>1. Members \subseteq Users /\ Members' = Members
    BY PlayersType DEF Members, TypeOK
  <2> QED
    BY <2>1, OwedKept DEF Announced, NobodyMissed, hist
<1>3. NothingCrosses'
  BY DEF Announced, NothingCrosses, hist
<1> QED
  BY <1>1, <1>2, <1>3 DEF Announced

\* A change makes its request owe everybody the new version (CREATE's Join is
\* the silent one).
LEMMA AnnouncedChange ==
  ASSUME TypeOK, Announced, NEW r \in Reqs, pc[r] = "apply", Changed(r),
         status' # "absent"
  PROVE  Announced'
<1>1. NoRoomYet'
  BY DEF NoRoomYet
<1>2. NobodyMissed'
  <2>1. CASE call[r].op = "CREATE"
    BY <2>1 DEF Changed, NobodyMissed
  <2>2. CASE call[r].op # "CREATE"
    <3>1. pc'[r] = "copy"
      BY <2>2 DEF Changed, TypeOK
    <3> QED
      BY <3>1 DEF NobodyMissed, Owed
  <2> QED
    BY <2>1, <2>2
<1>3. NothingCrosses'
  <2> SUFFICES ASSUME ~crossed'
               PROVE  /\ \A q \in Reqs : pc'[q] \notin {"members", "push"}
                      /\ told' = {}
    BY DEF NothingCrosses
  <2>1. Broadcasting = {} /\ told' = {}
    BY DEF Changed
  <2>2. \A q \in Reqs : pc[q] \notin {"members", "push"}
    BY <2>1 DEF Broadcasting
  <2>3. pc'[r] \in {"idle", "copy"} /\ \A q \in Reqs \ {r} : pc'[q] = pc[q]
    <3>1. CASE call[r].op = "CREATE"
      BY <3>1, DoneElse DEF Changed
    <3>2. CASE call[r].op # "CREATE"
      BY <3>2 DEF Changed, TypeOK
    <3> QED
      BY <3>1, <3>2
  <2> QED
    BY <2>1, <2>2, <2>3
<1> QED
  BY <1>1, <1>2, <1>3 DEF Announced

LEMMA AnnouncedNext == TypeOK /\ Announced /\ [Next]_vars => Announced'
<1> SUFFICES ASSUME TypeOK, Announced, [Next]_vars PROVE Announced'
  OBVIOUS
<1> USE DEF room, reqs, hist
<1>1. NoRoomYet /\ NobodyMissed /\ NothingCrosses
  BY DEF Announced
<1>2. \A r \in Reqs : pc[r] # "idle" => status # "absent"
  BY <1>1 DEF NoRoomYet
<1>3. ASSUME NEW r \in Reqs, CreateRoom(r) PROVE Announced'
  <2>1. Members' = {}
    BY <1>1, <1>3 DEF CreateRoom, GetOrCreate, NoRoomYet, Members
  <2> QED
    BY <1>1, <1>3, <2>1 DEF CreateRoom, GetOrCreate, Announced, NoRoomYet, NobodyMissed,
       NothingCrosses
<1>4. ASSUME NEW r \in Reqs, NEW o, NEW u, NEW s, Accept(r, o, u, s) PROVE Announced'
  <2>1. status # "absent" /\ pc[r] = "idle" /\ snap' = snap
    BY <1>1, <1>4 DEF Accept, NoRoomYet
  <2>2. /\ \A q \in Reqs \ {r} : pc'[q] = pc[q]
        /\ pc'[r] \in {"lookup", "apply"}
    BY <1>4 DEF Accept, TypeOK
  <2> QED
    BY <1>4, <2>1, <2>2, AnnouncedQuiet DEF Accept
<1>5. ASSUME NEW r \in Reqs, Arrive(r) PROVE Announced'
  BY <1>3, <1>4, <1>5 DEF Arrive, JoinRoom, LeaveRoom, ReadyRoom, ChangeSeat, StartGame
<1>6. ASSUME NEW r \in Reqs, ScanBegin(r) PROVE Announced'
  <2>1. /\ pc[r] = "lookup" /\ pc'[r] = "scan" /\ snap' = snap
        /\ \A q \in Reqs \ {r} : pc'[q] = pc[q]
    BY <1>6 DEF ScanBegin, TypeOK
  <2> QED
    BY <1>2, <1>6, <2>1, AnnouncedQuiet DEF ScanBegin
<1>7. ASSUME NEW r \in Reqs, ScanEnd(r) PROVE Announced'
  <2>1. PICK occ \in SUBSET Seats : AllocateSeat(r, occ)
    BY <1>7 DEF ScanEnd
  <2>2. pc[r] = "scan" /\ UNCHANGED <<listed, players, status, rcpt, hist>>
    BY <1>7 DEF ScanEnd
  <2>3. CASE Done(r)
    BY <1>2, <2>2, <2>3, DoneElse, AnnouncedQuiet
  <2>4. CASE ~Done(r)
    <3>1. /\ snap' = snap /\ pc'[r] = "apply"
          /\ \A q \in Reqs \ {r} : pc'[q] = pc[q]
      BY <2>1, <2>4 DEF AllocateSeat, TypeOK
    <3> QED
      BY <1>2, <2>2, <3>1, AnnouncedQuiet
  <2> QED
    BY <2>3, <2>4
<1>8. ASSUME NEW r \in Reqs, Apply(r) PROVE Announced'
  <2>1. pc[r] = "apply" /\ status # "absent"
    BY <1>2, <1>8 DEF Apply, Join, Leave, Ready, Move, Start, At
  <2>2. CASE Refused(r)
    BY <2>1, <2>2, DoneElse, AnnouncedQuiet DEF Refused
  <2>3. CASE Changed(r) /\ status' # "absent"
    BY <2>1, <2>3, AnnouncedChange
  <2> QED
    BY <1>8, <2>1, <2>2, <2>3 DEF Apply, Join, Leave, Ready, Move, Start
<1>9. ASSUME NEW r \in Reqs, CopyRoomInfo(r) PROVE Announced'
  <2>1. /\ pc[r] = "copy" /\ pc'[r] = "members" /\ snap'[r] = ver
        /\ \A q \in Reqs \ {r} : pc'[q] = pc[q] /\ snap'[q] = snap[q]
        /\ UNCHANGED <<listed, players, status, rcpt, hist>>
    BY <1>9 DEF CopyRoomInfo, TypeOK
  <2>2. NoRoomYet'
    BY <1>2, <2>1 DEF NoRoomYet
  <2>3. NothingCrosses'
    BY <1>1, <2>1 DEF NothingCrosses
  <2>4. \A u : Owed(u)'
    BY <2>1 DEF Owed
  <2> QED
    BY <2>2, <2>3, <2>4 DEF Announced, NobodyMissed
<1>10. ASSUME NEW r \in Reqs, BroadcastToRoom(r) PROVE Announced'
  <2>1. /\ pc[r] = "members" /\ UNCHANGED <<listed, players, status, hist>>
    BY <1>10 DEF BroadcastToRoom, TypeOK
  <2>2. NoRoomYet'
    BY <1>2, <2>1 DEF NoRoomYet
  <2>3. CASE listed /\ Members # {}
    <3>1. /\ pc'[r] = "push" /\ rcpt'[r] = Members /\ snap' = snap
          /\ \A q \in Reqs \ {r} : pc'[q] = pc[q] /\ rcpt'[q] = rcpt[q]
      BY <1>10, <2>3 DEF BroadcastToRoom, TypeOK
    <3>2. \A u \in Members : Owed(u) => Owed(u)'
      BY <2>1, <3>1 DEF Owed
    <3>3. NothingCrosses'
      BY <1>1, <2>1, <3>1 DEF NothingCrosses
    <3>4. Members' = Members
      BY <2>1 DEF Members
    <3> QED
      BY <1>1, <2>1, <2>2, <3>2, <3>3, <3>4 DEF Announced, NobodyMissed
  <2>4. CASE ~(listed /\ Members # {})
    <3>1. Done(r)
      BY <1>10, <2>4 DEF BroadcastToRoom
    <3>2. NothingCrosses'
      BY <1>1, <2>1, <3>1, DoneElse DEF NothingCrosses
    <3>3. ~listed' \/ Members' = {}
      BY <2>1, <2>4 DEF Members
    <3> QED
      BY <2>2, <3>2, <3>3 DEF Announced, NobodyMissed
  <2> QED
    BY <2>3, <2>4
<1>11. ASSUME NEW r \in Reqs, SendRoomPush(r) PROVE Announced'
  <2>1. /\ pc[r] = "push"
        /\ UNCHANGED <<listed, players, status, ver, silent, crossed>>
    BY <1>11 DEF SendRoomPush
  <2>2. PICK u \in rcpt[r] :
          /\ rcpt' = [rcpt EXCEPT ![r] = @ \ {u}]
          /\ IF rcpt[r] = {u} THEN Done(r) ELSE UNCHANGED <<pc, call, snap>>
          /\ Push(u, snap[r])
    BY <1>11 DEF SendRoomPush
  <2>3. NoRoomYet'
    BY <1>2, <2>1 DEF NoRoomYet
  <2>4. /\ \A q \in Reqs \ {r} : /\ pc'[q] = pc[q] /\ snap'[q] = snap[q]
                                 /\ rcpt'[q] = rcpt[q]
        /\ rcpt'[r] = rcpt[r] \ {u}
        /\ rcpt[r] = {u} => pc'[r] = "idle"
        /\ rcpt[r] # {u} => pc'[r] = "push" /\ snap'[r] = snap[r]
    BY <2>1, <2>2, DoneElse DEF TypeOK
  <2>5. told \subseteq told' /\ (snap[r] = ver => u \in told')
    BY <2>2 DEF Push
  <2>6. NobodyMissed'
    <3>1. Members' = Members
      BY <2>1 DEF Members
    <3>2. ASSUME NEW v, Owed(v), v \notin told' PROVE Owed(v)'
      <4>1. PICK q \in Reqs : \/ pc[q] = "copy"
                              \/ pc[q] = "members" /\ snap[q] = ver
                              \/ pc[q] = "push" /\ snap[q] = ver /\ v \in rcpt[q]
        BY <3>2 DEF Owed
      <4>2. CASE q # r
        BY <2>1, <2>4, <4>1, <4>2 DEF Owed
      <4>3. CASE q = r
        <5>1. snap[r] = ver /\ v \in rcpt[r]
          BY <2>1, <4>1, <4>3
        <5>2. v # u
          BY <2>5, <3>2, <5>1
        <5> QED
          BY <2>1, <2>4, <5>1, <5>2 DEF Owed
      <4> QED
        BY <4>2, <4>3
    <3> QED
      BY <1>1, <2>1, <2>5, <3>1, <3>2 DEF NobodyMissed
  <2>7. NothingCrosses'
    <3> SUFFICES ASSUME ~crossed
                 PROVE  /\ \A q \in Reqs : pc'[q] \in {"members", "push"} => snap'[q] = ver
                        /\ told' \subseteq shown' \cup lost'
      BY <2>1 DEF NothingCrosses
    <3>1. /\ \A q \in Reqs : pc[q] \in {"members", "push"} => snap[q] = ver
          /\ told \subseteq shown \cup lost
      BY <1>1 DEF NothingCrosses
    <3>2. snap[r] = ver
      BY <2>1, <3>1
    <3> QED
      BY <2>1, <2>2, <2>4, <3>1, <3>2 DEF Push
  <2> QED
    BY <2>3, <2>6, <2>7 DEF Announced
<1>12. CASE GoStale \/ EvictScan \/ UNCHANGED vars
  <2>1. UNCHANGED <<listed, players, status, reqs, hist>>
    BY <1>12 DEF GoStale, EvictScan, vars
  <2> QED
    BY <1>1, <2>1
    DEF Announced, NoRoomYet, NobodyMissed, NothingCrosses, Owed, Members
<1>13. CASE EvictRemove
  BY <1>1, <1>13
  DEF EvictRemove, Announced, NoRoomYet, NobodyMissed, NothingCrosses, Owed, Members
<1> QED
  BY <1>5, <1>6, <1>7, <1>8, <1>9, <1>10, <1>11, <1>12, <1>13 DEF Next, Serve, Evict

\* However requests overlap and whichever pushes fail, once no request runs the
\* newest version has been pushed to every member of the room, and a member
\* whose push got through shows it unless two broadcasts overlapped.
THEOREM RoomLatestIsPushed == Spec => []LatestIsPushed
<1>1. Announced => LatestIsPushed
  BY DEF Announced, NobodyMissed, NothingCrosses, Owed, LatestIsPushed, Busy
<1> QED
  BY <1>1, TypeInit, TypeNext, AnnouncedInit, AnnouncedNext, PTL DEF Spec

-----------------------------------------------------------------------------
(* What a start requires and what it freezes.                                *)

\* The action of GameFrozen: from a playing room only departures and toggles.
Frozen ==
  status = "playing" =>
    /\ status' = "playing"
    /\ \A j \in DOMAIN players' : \E i \in DOMAIN players :
         players[i].user = players'[j].user /\ players[i].seat = players'[j].seat

\* The status changes when the room is created and when its game starts.
LEMMA StatusChange ==
  ASSUME [Next]_vars
  PROVE  \/ UNCHANGED status
         \/ status = "absent" /\ UNCHANGED players
         \/ \E r \in Reqs : Start(r)
<1>1. ASSUME NEW r \in Reqs, Arrive(r)
      PROVE  UNCHANGED status \/ (status = "absent" /\ UNCHANGED players)
  BY <1>1 DEF Arrive, CreateRoom, JoinRoom, LeaveRoom, ReadyRoom, ChangeSeat, StartGame,
              Accept, room
<1>2. ASSUME NEW r \in Reqs, Apply(r) PROVE UNCHANGED status \/ Start(r)
  BY <1>2 DEF Apply, Join, Leave, Ready, Move, Refused, room
<1>3. ASSUME NEW r \in Reqs, Serve(r), ~Apply(r) PROVE UNCHANGED status
  BY <1>3 DEF Serve, ScanBegin, ScanEnd, CopyRoomInfo, BroadcastToRoom, SendRoomPush, room
<1>4. CASE GoStale \/ Evict \/ UNCHANGED vars
  BY <1>4 DEF GoStale, Evict, EvictScan, EvictRemove, vars, room
<1> QED
  BY <1>1, <1>2, <1>3, <1>4 DEF Next

\* Join and Move ask for a waiting room under the lock; the rest keeps seats.
LEMMA FrozenNext == TypeOK /\ [Next]_vars => Frozen
<1> SUFFICES ASSUME TypeOK, [Next]_vars, status = "playing" PROVE Frozen
  BY DEF Frozen
<1>1. /\ Len(players) \in Nat /\ DOMAIN players = 1 .. Len(players)
      /\ \A i \in DOMAIN players : players[i] \in Player
  BY PlayersType DEF TypeOK
<1>2. status' = "playing"
  BY StatusChange DEF Start, Refused, room
<1>3. CASE UNCHANGED players
  BY <1>2, <1>3 DEF Frozen
<1>4. ASSUME NEW r \in Reqs, Leave(r), players' # players PROVE Frozen
  <2>1. PICK i \in DOMAIN players : players' = Without(players, i)
    BY <1>4 DEF Leave, Refused, room
  <2>2. /\ DOMAIN players' = 1 .. Len(players) - 1
        /\ \A j \in 1 .. Len(players) - 1 :
             players'[j] = players[IF j < i THEN j ELSE j + 1]
    BY <2>1, WithoutType DEF TypeOK
  <2>3. \A j \in DOMAIN players' : \E k \in DOMAIN players : players'[j] = players[k]
    BY <1>1, <2>2
  <2> QED
    BY <1>2, <2>3 DEF Frozen
<1>5. ASSUME NEW r \in Reqs, Ready(r), players' # players PROVE Frozen
  <2>1. PICK i \in DOMAIN players : players' = [players EXCEPT ![i].ready = ~@]
    BY <1>5 DEF Ready, Refused, room
  <2>2. /\ DOMAIN players' = DOMAIN players
        /\ \A j \in DOMAIN players : /\ players'[j].user = players[j].user
                                     /\ players'[j].seat = players[j].seat
    BY <1>1, <2>1 DEF Player
  <2> QED
    BY <1>2, <2>2 DEF Frozen
<1>6. ASSUME NEW r \in Reqs, Join(r) \/ Move(r) \/ Start(r) PROVE UNCHANGED players
  BY <1>6 DEF Join, MayJoin, Move, MayMove, Start, Refused, room
<1> QED
  BY <1>3, <1>4, <1>5, <1>6, PlayersChange DEF Apply

\* Once a game runs nobody joins and nobody changes seat, even by a request that
\* was accepted before the start.
THEOREM RoomGameFrozen == Spec => GameFrozen
<1>1. TypeOK /\ [Next]_vars => [Frozen]_vars
  BY FrozenNext
<1> QED
  BY <1>1, TypeInit, TypeNext, PTL DEF Spec, GameFrozen, Frozen

-----------------------------------------------------------------------------

(* A list of players as a table. *)

\* The refinement mapping of Room!Table, for any list.
Seating(p) ==
  [u \in {p[i].user : i \in DOMAIN p} |->
     LET i == CHOOSE k \in DOMAIN p : p[k].user = u
     IN  [seat |-> p[i].seat, ready |-> p[i].ready]]

OncePerUser(p) == \A i, j \in DOMAIN p : p[i].user = p[j].user => i = j

\* A list without repeated users seats each of them where it says.
LEMMA SeatingValue ==
  ASSUME NEW p \in Seq(Player), OncePerUser(p)
  PROVE  /\ DOMAIN Seating(p) = {p[i].user : i \in DOMAIN p}
         /\ \A i \in DOMAIN p :
              Seating(p)[p[i].user] = [seat |-> p[i].seat, ready |-> p[i].ready]
<1>1. DOMAIN Seating(p) = {p[i].user : i \in DOMAIN p}
  BY DEF Seating
<1>2. ASSUME NEW i \in DOMAIN p
      PROVE  Seating(p)[p[i].user] = [seat |-> p[i].seat, ready |-> p[i].ready]
  <2> DEFINE j == CHOOSE k \in DOMAIN p : p[k].user = p[i].user
  <2>1. j \in DOMAIN p /\ p[j].user = p[i].user
    OBVIOUS
  <2>2. j = i
    BY <2>1 DEF OncePerUser
  <2>3. Seating(p)[p[i].user] = [seat |-> p[j].seat, ready |-> p[j].ready]
    BY DEF Seating
  <2> QED
    BY <2>2, <2>3
<1> QED
  BY <1>1, <1>2

\* The same, field by field.
LEMMA SeatingFields ==
  ASSUME NEW p \in Seq(Player), OncePerUser(p)
  PROVE  \A i \in DOMAIN p : /\ Seating(p)[p[i].user].seat = p[i].seat
                             /\ Seating(p)[p[i].user].ready = p[i].ready
<1>1. ASSUME NEW i \in DOMAIN p
      PROVE  Seating(p)[p[i].user].seat = p[i].seat /\ Seating(p)[p[i].user].ready = p[i].ready
  <2>1. Seating(p)[p[i].user] = [seat |-> p[i].seat, ready |-> p[i].ready]
    BY SeatingValue
  <2> QED
    BY <2>1
<1> QED
  BY <1>1

\* A table is the seating of a list when it has its users, each as the list says.
LEMMA SeatingIs ==
  ASSUME NEW p \in Seq(Player), OncePerUser(p),
         NEW D, NEW T, NEW f \in [D -> T], D = {p[i].user : i \in DOMAIN p},
         \A i \in DOMAIN p : f[p[i].user] = [seat |-> p[i].seat, ready |-> p[i].ready]
  PROVE  Seating(p) = f
<1>0. /\ DOMAIN Seating(p) = {p[i].user : i \in DOMAIN p}
      /\ \A i \in DOMAIN p :
           Seating(p)[p[i].user] = [seat |-> p[i].seat, ready |-> p[i].ready]
  BY SeatingValue
<1>1. \A v \in D : Seating(p)[v] = f[v]
  <2> TAKE v \in D
  <2>1. PICK i \in DOMAIN p : v = p[i].user
    OBVIOUS
  <2> QED
    BY <1>0, <2>1
<1>2. Seating(p) = [v \in D |-> Seating(p)[v]]
  BY DEF Seating
<1> QED
  BY <1>1, <1>2

-----------------------------------------------------------------------------
(* One lemma per change: what it does to the list is a step of the table. *)

\* The seats a list occupies are the seats its table occupies.
LEMMA SeatingSeats ==
  ASSUME NEW p \in Seq(Player), OncePerUser(p)
  PROVE  {Seating(p)[u].seat : u \in DOMAIN Seating(p)} = {p[i].seat : i \in DOMAIN p}
<1>0. /\ DOMAIN Seating(p) = {p[i].user : i \in DOMAIN p}
      /\ \A i \in DOMAIN p :
           Seating(p)[p[i].user] = [seat |-> p[i].seat, ready |-> p[i].ready]
  BY SeatingValue
<1>1. /\ DOMAIN Seating(p) = {p[i].user : i \in DOMAIN p}
      /\ \A i \in DOMAIN p : Seating(p)[p[i].user].seat = p[i].seat
  <2>1. \A i \in DOMAIN p : Seating(p)[p[i].user].seat = p[i].seat
    BY SeatingFields
  <2> QED
    BY <1>0, <2>1
<1>2. \A i \in DOMAIN p : p[i].seat \in {Seating(p)[u].seat : u \in DOMAIN Seating(p)}
  BY <1>1
<1>3. \A u \in DOMAIN Seating(p) : Seating(p)[u].seat \in {p[i].seat : i \in DOMAIN p}
  BY <1>1
<1> QED
  BY <1>2, <1>3

LEMMA SeatingAppend ==
  ASSUME NEW p \in Seq(Player), OncePerUser(p), NEW e \in Player,
         \A i \in DOMAIN p : p[i].user # e.user
  PROVE  Seating(Append(p, e)) =
           [v \in DOMAIN Seating(p) \cup {e.user} |->
              IF v = e.user THEN [seat |-> e.seat, ready |-> e.ready] ELSE Seating(p)[v]]
<1> DEFINE q == Append(p, e)
           D == DOMAIN Seating(p) \cup {e.user}
           f == [v \in D |-> IF v = e.user THEN [seat |-> e.seat, ready |-> e.ready]
                                           ELSE Seating(p)[v]]
<1>0. /\ DOMAIN Seating(p) = {p[i].user : i \in DOMAIN p}
      /\ \A i \in DOMAIN p :
           Seating(p)[p[i].user] = [seat |-> p[i].seat, ready |-> p[i].ready]
  BY SeatingValue
<1>1. /\ q \in Seq(Player) /\ Len(p) \in Nat /\ DOMAIN p = 1 .. Len(p)
      /\ DOMAIN q = 1 .. Len(p) + 1 /\ q[Len(p) + 1] = e
      /\ \A i \in 1 .. Len(p) : q[i] = p[i]
  BY AppendProperties, LenProperties
<1>2. OncePerUser(q)
  BY <1>1 DEF OncePerUser
<1>3. D = {q[i].user : i \in DOMAIN q}
  BY <1>0, <1>1
<1>4. \A i \in DOMAIN q : f[q[i].user] = [seat |-> q[i].seat, ready |-> q[i].ready]
  BY <1>0, <1>1, <1>3
<1> DEFINE T == {f[v] : v \in D}
<1>5. f \in [D -> T] /\ q \in Seq(Player)
  BY <1>1
<1> HIDE DEF f, D, q, T
<1>6. Seating(q) = f
  BY <1>2, <1>3, <1>4, <1>5, SeatingIs
<1> QED
  BY <1>6 DEF f, D, q

LEMMA SeatingWithout ==
  ASSUME NEW p \in Seq(Player), OncePerUser(p), NEW i \in DOMAIN p
  PROVE  Seating(Without(p, i)) =
           [v \in DOMAIN Seating(p) \ {p[i].user} |-> Seating(p)[v]]
<1> DEFINE q == Without(p, i)
           D == DOMAIN Seating(p) \ {p[i].user}
           f == [v \in D |-> Seating(p)[v]]
           from(j) == IF j < i THEN j ELSE j + 1
<1>0. /\ DOMAIN Seating(p) = {p[k].user : k \in DOMAIN p}
      /\ \A k \in DOMAIN p :
           Seating(p)[p[k].user] = [seat |-> p[k].seat, ready |-> p[k].ready]
  BY SeatingValue
<1>1. /\ q \in Seq(Player) /\ Len(p) \in Nat /\ DOMAIN p = 1 .. Len(p)
      /\ DOMAIN q = 1 .. Len(p) - 1
      /\ \A j \in 1 .. Len(p) - 1 : q[j] = p[from(j)]
  BY WithoutType, LenProperties
<1>2. /\ \A j \in DOMAIN q : from(j) \in DOMAIN p \ {i}
      /\ \A j, k \in DOMAIN q : from(j) = from(k) => j = k
      /\ \A k \in DOMAIN p \ {i} : \E j \in DOMAIN q : k = from(j)
  <2>1. ASSUME NEW k \in DOMAIN p \ {i} PROVE \E j \in DOMAIN q : k = from(j)
    <3>1. CASE k < i
      BY <1>1, <3>1
    <3>2. CASE k > i
      <4>1. k - 1 \in DOMAIN q /\ k = from(k - 1)
        BY <1>1, <3>2
      <4> QED
        BY <4>1
    <3> QED
      BY <1>1, <3>1, <3>2
  <2> QED
    BY <1>1, <2>1
<1> HIDE DEF from
<1>3. ASSUME NEW j \in DOMAIN q
      PROVE  from(j) \in DOMAIN p /\ from(j) # i /\ q[j] = p[from(j)]
  BY <1>1, <1>2
<1>4. ASSUME NEW j \in DOMAIN q, NEW k \in DOMAIN q, q[j].user = q[k].user
      PROVE  j = k
  <2>1. p[from(j)].user = p[from(k)].user
    BY <1>3, <1>4
  <2>2. from(j) = from(k)
    BY <1>3, <2>1 DEF OncePerUser
  <2> QED
    BY <1>2, <2>2
<1>5. OncePerUser(q)
  BY <1>4 DEF OncePerUser
<1>6. D = {q[j].user : j \in DOMAIN q}
  <2>1. ASSUME NEW v \in D PROVE \E j \in DOMAIN q : v = q[j].user
    <3>1. PICK k \in DOMAIN p : v = p[k].user
      BY <1>0
    <3>2. k # i
      BY <3>1
    <3>3. PICK j \in DOMAIN q : k = from(j)
      BY <1>2, <3>2
    <3> QED
      BY <1>3, <3>1, <3>3
  <2>2. ASSUME NEW j \in DOMAIN q PROVE q[j].user \in D
    <3>1. p[from(j)].user # p[i].user
      BY <1>3 DEF OncePerUser
    <3>2. p[from(j)].user \in DOMAIN Seating(p)
      BY <1>0, <1>3
    <3> QED
      BY <1>3, <3>1, <3>2
  <2> HIDE DEF D, q
  <2> QED
    BY <2>1, <2>2
<1>7. ASSUME NEW j \in DOMAIN q
      PROVE  f[q[j].user] = [seat |-> q[j].seat, ready |-> q[j].ready]
  <2>1. q[j].user \in D
    BY <1>6
  <2>2. f[q[j].user] = Seating(p)[p[from(j)].user]
    BY <1>3, <2>1
  <2> QED
    BY <1>0, <1>3, <2>2
<1> DEFINE T == {f[v] : v \in D}
<1>8. f \in [D -> T] /\ q \in Seq(Player)
  BY <1>1
<1> HIDE DEF f, D, q, T
<1>9. Seating(q) = f
  BY <1>5, <1>6, <1>7, <1>8, SeatingIs
<1> QED
  BY <1>9 DEF f, D, q

\* Rewriting the seat or the readiness of one player.
LEMMA SeatingExcept ==
  ASSUME NEW p \in Seq(Player), OncePerUser(p), NEW i \in DOMAIN p,
         NEW q \in Seq(Player), DOMAIN q = DOMAIN p,
         q[i].user = p[i].user, \A j \in DOMAIN p \ {i} : q[j] = p[j]
  PROVE  /\ p[i].user \in DOMAIN Seating(p)
         /\ Seating(q) = [Seating(p) EXCEPT
                            ![p[i].user] = [seat |-> q[i].seat, ready |-> q[i].ready]]
<1> DEFINE D == DOMAIN Seating(p)
           f == [Seating(p) EXCEPT ![p[i].user] = [seat |-> q[i].seat, ready |-> q[i].ready]]
<1>0. /\ DOMAIN Seating(p) = {p[k].user : k \in DOMAIN p}
      /\ \A k \in DOMAIN p :
           Seating(p)[p[k].user] = [seat |-> p[k].seat, ready |-> p[k].ready]
  BY SeatingValue
<1>1. D = {p[j].user : j \in DOMAIN p} /\ Seating(p) = [v \in D |-> Seating(p)[v]]
  BY DEF Seating
<1>2. OncePerUser(q) /\ \A j \in DOMAIN q : q[j].user = p[j].user
  BY DEF OncePerUser
<1>3. D = {q[j].user : j \in DOMAIN q}
  BY <1>1, <1>2
<1>4. /\ DOMAIN f = D
      /\ \A v \in D : f[v] = IF v = p[i].user THEN [seat |-> q[i].seat, ready |-> q[i].ready]
                                             ELSE Seating(p)[v]
  BY <1>1
<1>5. \A j \in DOMAIN q : f[q[j].user] = [seat |-> q[j].seat, ready |-> q[j].ready]
  BY <1>0, <1>1, <1>2, <1>3, <1>4 DEF OncePerUser
<1> DEFINE T == {f[v] : v \in D}
<1>6. f \in [D -> T]
  BY <1>1
<1> HIDE DEF f, D, T
<1>7. Seating(q) = f
  BY <1>2, <1>3, <1>5, <1>6, SeatingIs
<1> QED
  BY <1>1, <1>7 DEF f, D

\* As many players of the list are ready as users of the table.
LEMMA SeatingReady ==
  ASSUME NEW p \in Seq(Player), OncePerUser(p)
  PROVE  Cardinality({u \in DOMAIN Seating(p) : Seating(p)[u].ready})
           = Cardinality({i \in DOMAIN p : p[i].ready})
<1> DEFINE S == {i \in DOMAIN p : p[i].ready}
           T == {u \in DOMAIN Seating(p) : Seating(p)[u].ready}
           f == [i \in S |-> p[i].user]
<1>0. /\ DOMAIN Seating(p) = {p[i].user : i \in DOMAIN p}
      /\ \A i \in DOMAIN p :
           Seating(p)[p[i].user] = [seat |-> p[i].seat, ready |-> p[i].ready]
  BY SeatingValue
<1>f. \A i \in DOMAIN p : Seating(p)[p[i].user].ready = p[i].ready
  BY SeatingFields
<1>1. IsFiniteSet(S)
  <2>1. IsFiniteSet(DOMAIN p)
    BY LenProperties, FS_Interval
  <2> QED
    BY <2>1, FS_Subset
<1>2. T = {p[i].user : i \in S}
  <2>1. ASSUME NEW u \in T PROVE \E i \in S : u = p[i].user
    <3>1. PICK i \in DOMAIN p : u = p[i].user
      BY <1>0
    <3>2. p[i].ready
      BY <1>f, <3>1
    <3> QED
      BY <3>1, <3>2
  <2>2. ASSUME NEW i \in S PROVE p[i].user \in T
    BY <1>0, <1>f
  <2> QED
    BY <2>1, <2>2
<1>3. f \in [S -> T] /\ \A i, j \in S : f[i] = f[j] => i = j
  BY <1>2 DEF OncePerUser
<1>4. \A t \in T : \E i \in S : f[i] = t
  BY <1>2
<1>5. f \in Bijection(S, T)
  BY <1>3, <1>4 DEF Bijection, Surjection, Injection, IsInjective
<1> HIDE DEF S, T, f
<1>6. ExistsBijection(S, T)
  BY <1>5 DEF ExistsBijection
<1> QED
  BY <1>1, <1>6, FS_Bijection DEF S, T
-----------------------------------------------------------------------------
(* Steps of Room as steps of RoomTable. *)

\* A request that joins holds a seat of the table, one that moves asks for a seat
\* clients ask for.
SeatFits ==
  \A r \in Reqs :
    /\ pc[r] \in {"lookup", "scan"} => call[r].op \in {"CREATE", "JOIN"}
    /\ pc[r] = "apply" =>
         /\ call[r].op \in {"CREATE", "JOIN"} => call[r].seat \in TableSeats
         /\ call[r].op = "CHANGE_SEAT" => call[r].seat \in TargetSeats

LEMMA SeatFitsNext == TypeOK /\ SeatFits /\ [Next]_vars => SeatFits'
<1> SUFFICES ASSUME TypeOK, SeatFits, [Next]_vars PROVE SeatFits'
  OBVIOUS
<1>1. ASSUME NEW r \in Reqs, CreateRoom(r) PROVE SeatFits'
  BY <1>1 DEF CreateRoom, GetOrCreate, NoCall, SeatFits, TypeOK
<1>2. ASSUME NEW r \in Reqs, JoinRoom(r) \/ LeaveRoom(r) \/ ReadyRoom(r) \/ StartGame(r)
      PROVE  SeatFits'
  <2>1. PICK o \in {"JOIN", "LEAVE", "READY", "START_GAME"}, u \in Users : Accept(r, o, u, None)
    BY <1>2 DEF JoinRoom, LeaveRoom, ReadyRoom, StartGame
  <2> QED
    BY <2>1 DEF Accept, SeatFits, TypeOK
<1>10. ASSUME NEW r \in Reqs, ChangeSeat(r) PROVE SeatFits'
  BY <1>10 DEF ChangeSeat, Accept, SeatFits, TypeOK
<1>3. ASSUME NEW r \in Reqs, NEW occ, pc[r] = "scan", AllocateSeat(r, occ) PROVE SeatFits'
  <2>1. CASE Done(r)
    BY <2>1 DEF Done, SeatFits, TypeOK
  <2>2. ASSUME NEW s \in TableSeats, call' = [call EXCEPT ![r].seat = s],
               pc' = [pc EXCEPT ![r] = "apply"], call[r].op \in {"CREATE", "JOIN"}
        PROVE  SeatFits'
    BY <2>2 DEF SeatFits, TypeOK, Call
  <2> QED
    BY <1>3, <2>1, <2>2 DEF AllocateSeat, SeatFits
<1>4. ASSUME NEW r \in Reqs, ScanBegin(r) \/ CopyRoomInfo(r) \/ BroadcastToRoom(r) \/ SendRoomPush(r)
      PROVE  SeatFits'
  <2>1. CASE ScanBegin(r)
    BY <2>1 DEF ScanBegin, Done, SeatFits, TypeOK
  <2>2. CASE CopyRoomInfo(r)
    BY <2>2 DEF CopyRoomInfo, Done, SeatFits, TypeOK
  <2>3. CASE BroadcastToRoom(r)
    BY <2>3 DEF BroadcastToRoom, Done, SeatFits, TypeOK
  <2>4. CASE SendRoomPush(r)
    BY <2>4, ZenonT(60) DEF SendRoomPush, Done, SeatFits, TypeOK
  <2> QED
    BY <1>4, <2>1, <2>2, <2>3, <2>4
<1>5. ASSUME NEW r \in Reqs, Changed(r) \/ Refused(r) PROVE SeatFits'
  BY <1>5 DEF Changed, Refused, Done, SeatFits, TypeOK
<1>6. ASSUME NEW r \in Reqs, Apply(r) PROVE Changed(r) \/ Refused(r)
  BY <1>6 DEF Apply, Join, Leave, Ready, Move, Start
<1>7. CASE UNCHANGED <<pc, call>>
  BY <1>7 DEF SeatFits
<1>8. ASSUME NEW r \in Reqs, Arrive(r) PROVE SeatFits'
  BY <1>1, <1>2, <1>10, <1>8 DEF Arrive
<1>9. ASSUME NEW r \in Reqs, Serve(r) PROVE SeatFits'
  BY <1>3, <1>4, <1>5, <1>6, <1>9 DEF Serve, ScanEnd
<1> QED
  BY <1>7, <1>8, <1>9 DEF Next, vars, reqs, GoStale, Evict, EvictScan, EvictRemove

\* The variable of RoomTable under the refinement mapping.
LEMMA TableIsSeating ==
  Seating(players) = [u \in Members |->
                        LET i == CHOOSE k \in DOMAIN players : players[k].user = u
                        IN  [seat |-> players[i].seat, ready |-> players[i].ready]]
BY DEF Seating, Members

\* RoomTable counts with an instance of FiniteSets of its own.
LEMMA SameCardinality == \A S : Table!Cardinality(S) = Cardinality(S)
BY DEF Table!Cardinality, Cardinality

LEMMA TableInit == Init => Table!Init
<1> SUFFICES ASSUME Init PROVE Table!Init
  OBVIOUS
<1>1. Members = {}
  BY DEF Init, Members
<1> QED
  BY <1>1 DEF Init, Table!Init

LEMMA TableNext ==
  ASSUME TypeOK, Distinct, Distinct', SeatFits, [Next]_vars
  PROVE  \/ Table!Next
         \/ UNCHANGED <<players, status>>
<1>0. players \in Seq(Player) /\ OncePerUser(players)
  BY DEF TypeOK, Distinct, MembersDistinct, OncePerUser
<1>1. /\ Len(players) \in Nat /\ DOMAIN players = 1 .. Len(players)
      /\ \A i \in DOMAIN players : players[i] \in Player
  BY <1>0, PlayersType
<1>2. ASSUME NEW r \in Reqs, Join(r), players' # players PROVE Table!Next
  <2>0. PICK u \in Users, s \in TableSeats : u = call[r].user /\ s = call[r].seat
    BY <1>2 DEF Join, At, Refused, room, SeatFits, TypeOK, Call
  <2> DEFINE e == [user |-> u, seat |-> s, ready |-> FALSE]
  <2>1. /\ MayJoin(u, s) /\ players' = Append(players, e) /\ status' = status
        /\ s # None /\ e \in Player
    BY <1>2, <2>0 DEF Join, Refused, room, Player, Seats, TableSeats, None
  <2>2. /\ status = "waiting" /\ u \notin Members
        /\ \A i \in DOMAIN players : players[i].user # u /\ players[i].seat # s
    BY <2>1 DEF MayJoin, Members, Taken
  <2>3. Seating(players') =
          [v \in DOMAIN Seating(players) \cup {u} |->
             IF v = u THEN [seat |-> s, ready |-> FALSE] ELSE Seating(players)[v]]
    <3>1. Seating(Append(players, e)) =
            [v \in DOMAIN Seating(players) \cup {e.user} |->
               IF v = e.user THEN [seat |-> e.seat, ready |-> e.ready] ELSE Seating(players)[v]]
      BY <1>0, <2>1, <2>2, SeatingAppend
    <3> QED
      BY <2>1, <3>1
  <2>4. u \notin DOMAIN Seating(players)
        /\ s \notin {Seating(players)[v].seat : v \in DOMAIN Seating(players)}
    <3>1. DOMAIN Seating(players) = {players[i].user : i \in DOMAIN players}
      BY <1>0, SeatingValue
    <3>2. {Seating(players)[v].seat : v \in DOMAIN Seating(players)}
            = {players[i].seat : i \in DOMAIN players}
      BY <1>0, SeatingSeats
    <3> QED
      BY <2>2, <3>1, <3>2
  <2>5. Table!Sit(u)
    BY <2>1, <2>2, <2>3, <2>4, TableIsSeating
    DEF Table!Sit, Table!Occupied, Table!TableSeats, TableSeats, Seating, Members
  <2> QED
    BY <2>5 DEF Table!Next
<1>3. ASSUME NEW r \in Reqs, Leave(r), players' # players PROVE Table!Next
  <2>1. PICK i \in DOMAIN players :
          players[i].user = call[r].user /\ players' = Without(players, i) /\ status' = status
    BY <1>3 DEF Leave, Refused, room
  <2>2. PICK u \in Users : u = players[i].user
    BY <1>1 DEF Player
  <2>3. Seating(players') = [v \in DOMAIN Seating(players) \ {u} |-> Seating(players)[v]]
    BY <1>0, <2>1, <2>2, SeatingWithout
  <2>4. u \in DOMAIN Seating(players)
    BY <1>0, <2>2, SeatingValue
  <2>5. Table!Rise(u)
    BY <2>1, <2>3, <2>4, TableIsSeating DEF Table!Rise, Seating, Members
  <2> QED
    BY <2>5 DEF Table!Next
<1>4. ASSUME NEW r \in Reqs, Ready(r), players' # players PROVE Table!Next
  <2>1. PICK i \in DOMAIN players :
          players' = [players EXCEPT ![i].ready = ~@] /\ status' = status
    BY <1>4 DEF Ready, Refused, room
  <2>2. PICK u \in Users : u = players[i].user
    BY <1>1 DEF Player
  <2>3. /\ DOMAIN players' = DOMAIN players /\ players'[i].user = u
        /\ players'[i].seat = players[i].seat /\ players'[i].ready = ~players[i].ready
        /\ \A j \in DOMAIN players \ {i} : players'[j] = players[j]
        /\ players'[i] \in Player
    BY <1>1, <2>1, <2>2 DEF Player
  <2>4. players' \in Seq(Player)
    BY <1>0, <1>1, <2>1, ExceptType DEF Player
  <2>5. /\ u \in DOMAIN Seating(players)
        /\ Seating(players') = [Seating(players) EXCEPT
             ![u] = [seat |-> players[i].seat, ready |-> ~players[i].ready]]
    BY <1>0, <2>2, <2>3, <2>4, SeatingExcept
  <2>6. Seating(players)[u] = [seat |-> players[i].seat, ready |-> players[i].ready]
    BY <1>0, <2>2, SeatingValue
  <2>7. Seating(players') = [Seating(players) EXCEPT ![u].ready = ~@]
    <3> DEFINE f == Seating(players)
    <3> HIDE DEF f
    <3>1. [f[u] EXCEPT !.ready = ~@] = [seat |-> players[i].seat, ready |-> ~players[i].ready]
      BY <2>6 DEF f
    <3> QED
      BY <2>5, <3>1 DEF f
  <2>8. Table!Toggle(u)
    BY <2>1, <2>5, <2>7, TableIsSeating DEF Table!Toggle, Seating, Members
  <2> QED
    BY <2>8 DEF Table!Next
<1>5. ASSUME NEW r \in Reqs, Move(r), players' # players PROVE Table!Next
  <2>0. PICK s \in TargetSeats \cap Seats : s = call[r].seat
    BY <1>5 DEF Move, At, SeatFits, TypeOK, Call
  <2>1. PICK i \in DOMAIN players :
          /\ MayMove(i, s) /\ players' = [players EXCEPT ![i].seat = s] /\ status' = status
    BY <1>5, <2>0 DEF Move, Refused, room
  <2>2. PICK u \in Users : u = players[i].user
    BY <1>1 DEF Player
  <2>3. /\ status = "waiting" /\ ~players[i].ready
        /\ s \notin {players[j].seat : j \in DOMAIN players} \ {None}
    BY <2>1 DEF MayMove, Taken
  <2>4. /\ DOMAIN players' = DOMAIN players /\ players'[i].user = u
        /\ players'[i].seat = s /\ players'[i].ready = players[i].ready
        /\ \A j \in DOMAIN players \ {i} : players'[j] = players[j]
    BY <1>1, <2>1, <2>2 DEF Player
  <2>5. players' \in Seq(Player)
    BY <1>0, <1>1, <2>1, ExceptType DEF Player
  <2>6. /\ u \in DOMAIN Seating(players)
        /\ Seating(players') = [Seating(players) EXCEPT
             ![u] = [seat |-> s, ready |-> players[i].ready]]
    BY <1>0, <2>2, <2>4, <2>5, SeatingExcept
  <2>7. Seating(players)[u] = [seat |-> players[i].seat, ready |-> players[i].ready]
    BY <1>0, <2>2, SeatingValue
  <2>8. Seating(players') = [Seating(players) EXCEPT ![u].seat = s]
    <3> DEFINE f == Seating(players)
    <3> HIDE DEF f
    <3>1. [f[u] EXCEPT !.seat = s] = [seat |-> s, ready |-> players[i].ready]
      BY <2>7 DEF f
    <3> QED
      BY <2>6, <3>1 DEF f
  <2>9. ~Seating(players)[u].ready
    BY <1>0, <2>2, <2>3, SeatingFields
  <2>10. s \notin {Seating(players)[v].seat : v \in DOMAIN Seating(players)} \ {None}
    BY <1>0, <2>3, SeatingSeats
  <2>11. Table!Move(u, s)
    BY <2>1, <2>3, <2>6, <2>8, <2>9, <2>10, TableIsSeating
    DEF Table!Move, Table!Occupied, Table!None, None, Seating, Members
  <2> QED
    BY <2>11 DEF Table!Next
<1>6. ASSUME NEW r \in Reqs, Start(r), status' # status PROVE Table!Next
  <2>1. /\ status = "waiting" /\ status' = "playing" /\ players' = players
        /\ Creator \in Members /\ Cardinality(ReadyIdx) >= SeatCount
    BY <1>6 DEF Start, ValidatePlayers, Refused, room
  <2>2. Cardinality({u \in DOMAIN Seating(players) : Seating(players)[u].ready}) >= SeatCount
    BY <1>0, <2>1, SeatingReady DEF ReadyIdx
  <2>3. Creator \in DOMAIN Seating(players)
    BY <1>0, <2>1, SeatingValue DEF Members
  <2> DEFINE T == [u \in Members |->
                     LET i == CHOOSE k \in DOMAIN players : players[k].user = u
                     IN  [seat |-> players[i].seat, ready |-> players[i].ready]]
  <2>4. T = Seating(players)
    BY TableIsSeating
  <2> HIDE DEF T
  <2>5. Cardinality({u \in DOMAIN T : T[u].ready}) >= SeatCount /\ Creator \in DOMAIN T
    BY <2>2, <2>3, <2>4
  <2>6. Table!Start
    <3>1. T' = T
      BY <2>1 DEF T, Members
    <3> QED
      BY <2>1, <2>5, <3>1, SameCardinality, Zenon DEF Table!Start, T
  <2> QED
    BY <2>6 DEF Table!Next
<1>7. ASSUME NEW r \in Reqs, CreateRoom(r) PROVE Table!Next
  <2>1. status = "absent" /\ status' = "waiting" /\ players' = players
    BY <1>7 DEF CreateRoom, GetOrCreate
  <2>2. Table!Open
    BY <2>1 DEF Table!Open, Members
  <2> QED
    BY <2>2 DEF Table!Next
<1>8. ASSUME NEW r \in Reqs, Start(r) PROVE UNCHANGED players
  BY <1>8 DEF Start, Refused, room
<1>9. ASSUME NEW r \in Reqs, Join(r) \/ Leave(r) \/ Ready(r) \/ Move(r) PROVE UNCHANGED status
  BY <1>9 DEF Join, Leave, Ready, Move, Refused, room
<1>10. \/ \E r \in Reqs : Apply(r) \/ CreateRoom(r)
       \/ UNCHANGED <<players, status>>
  BY DEF Next, vars, room, reqs, hist, Arrive, Serve, JoinRoom, LeaveRoom, ReadyRoom,
         ChangeSeat, StartGame, Accept, ScanBegin, ScanEnd, CopyRoomInfo,
         BroadcastToRoom, SendRoomPush, GoStale, Evict, EvictScan, EvictRemove
<1> QED
  BY <1>2, <1>3, <1>4, <1>5, <1>6, <1>7, <1>8, <1>9, <1>10 DEF Apply

\* The room is a table: whatever scans, changes and evictions run beside each
\* other, the players and the status change as RoomTable allows.
THEOREM RoomImplementsTable == Spec => ImplementsTable
<1> DEFINE TableVars == <<[u \in Members |->
                             LET i == CHOOSE k \in DOMAIN players : players[k].user = u
                             IN  [seat |-> players[i].seat, ready |-> players[i].ready]],
                          status>>
<1>1. TypeOK /\ Distinct /\ Distinct' /\ SeatFits /\ [Next]_vars => [Table!Next]_TableVars
  <2> SUFFICES ASSUME TypeOK, Distinct, Distinct', SeatFits, [Next]_vars
               PROVE  [Table!Next]_TableVars
    OBVIOUS
  <2>1. UNCHANGED <<players, status>> => UNCHANGED TableVars
    BY DEF Members
  <2> QED
    BY <2>1, TableNext
<1>2. Init => TypeOK /\ Distinct /\ SeatFits
  BY TypeInit DEF Init, Distinct, MembersDistinct, SeatsDistinct, SeatFits
<1> QED
  BY <1>1, <1>2, TableInit, TypeNext, DistinctNext, SeatFitsNext, PTL
  DEF Spec, ImplementsTable, Table!Spec
=============================================================================
