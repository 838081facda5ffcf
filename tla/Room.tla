-------------------------------- MODULE Room --------------------------------
(***************************************************************************)
(* One game room of logic-go, from its creation to its eviction:           *)
(* internal/room/{room,strategy,operations,manager,service}.go, driven by  *)
(* internal/handler/room_handler.go.                                       *)
(*                                                                         *)
(* NATS workers run room requests concurrently.  A request looks the room  *)
(* up in RoomManager, scans the seats WITHOUT the room's lock (JOIN),      *)
(* changes the room under its lock, copies it under the lock again, and    *)
(* then broadcasts the copy to the members it reads at yet another         *)
(* moment.  Meanwhile evictLoop may unlist the room.  Every one of these   *)
(* moments is an action here.                                              *)
(*                                                                         *)
(* A room id is never reused (snowflake) and requests on different rooms   *)
(* share nothing but the map, so one room is the whole system.  Its game   *)
(* is HT_MAHJONG: a CREATE with another game type leaves an empty room in  *)
(* the map that no request can join (operations.go:75-81).                 *)
(***************************************************************************)
EXTENDS Integers, Sequences, FiniteSets

CONSTANTS
  Users,       \* user ids
  Creator,     \* the user whose CREATE made the room (model.Room.CreatorID)
  SeatCount,   \* seats 0 .. SeatCount-1, and players a game needs (4 in the code)
  TargetSeats, \* the seats CHANGE_SEAT requests ask for: any int32, unchecked
  Reqs,        \* NATS workers, each serving one room request at a time
  MaxVer       \* bound on the number of changes to the room

ASSUME CreatorAssumption == Creator \in Users
ASSUME SeatAssumption == SeatCount \in Nat \ {0}
ASSUME TargetAssumption == TargetSeats \subseteq Int
ASSUME MaxVerAssumption == MaxVer \in Nat
ASSUME ReqsAssumption == IsFiniteSet(Reqs)

VARIABLES
  listed,   \* the room is in RoomManager.rooms
  players,  \* Room.roomInfo.Players
  status,   \* Room.roomInfo.Status; "absent" before CREATE stores the room
  stale,    \* now - Room.lastActive > evictTimeout
  pc,       \* where each request is
  call,     \* each request's operation, user and seat
  window,   \* per running seat scan: what each slice element has held so far
  snap,     \* the version of the room each request copied
  rcpt,     \* the members each request has still to push its copy to
  evictor,  \* where evictInactive is: "scan" or "remove"
  ver,      \* history: number of changes made to the room
  silent,   \* history: the latest change was CREATE's own Join
  crossed,  \* history: another broadcast was running at the latest change
  told,     \* history: the users the newest version was pushed to, or tried to
  shown,    \* history: the users whose last delivered push carried it
  lost      \* history: the users whose push of it failed

room == <<listed, players, status, stale>>
reqs == <<pc, call, window, snap, rcpt>>
hist == <<ver, silent, crossed, told, shown, lost>>
vars == <<room, reqs, evictor, hist>>

None == -1                                  \* "no seat" in the code
TableSeats == 0 .. SeatCount - 1
Seats == TableSeats \cup TargetSeats \cup {None}
Ops == {"CREATE", "JOIN", "LEAVE", "READY", "CHANGE_SEAT", "START_GAME"}
Points == {"idle", "lookup", "scan", "apply", "copy", "members", "push"}
Call == [op : Ops, user : Users, seat : Seats]
NoCall == [op |-> "CREATE", user |-> Creator, seat |-> None]
Player == [user : Users, seat : Seats, ready : BOOLEAN]

Members == {players[i].user : i \in DOMAIN players}
ReadyIdx == {i \in DOMAIN players : players[i].ready}
Taken(s) == \E i \in DOMAIN players : players[i].seat = s
Busy == {r \in Reqs : pc[r] # "idle"}
Broadcasting == {r \in Reqs : pc[r] \in {"copy", "members", "push"}}

(***************************************************************************)
(* RemoveAt of slices: append(s[:i], s[i+1:]...).                          *)
(***************************************************************************)
Without(s, i) == [j \in 1 .. Len(s) - 1 |-> IF j < i THEN s[j] ELSE s[j + 1]]

TypeOK ==
  /\ listed \in BOOLEAN
  /\ players \in Seq(Player)
  /\ status \in {"absent", "waiting", "playing"}
  /\ stale \in BOOLEAN
  /\ pc \in [Reqs -> Points]
  /\ call \in [Reqs -> Call]
  /\ window \in [Reqs -> Seq(SUBSET Seats)]
  /\ snap \in [Reqs -> Nat]
  /\ rcpt \in [Reqs -> SUBSET Users]
  /\ evictor \in {"scan", "remove"}
  /\ ver \in Nat
  /\ silent \in BOOLEAN
  /\ crossed \in BOOLEAN
  /\ told \subseteq Users /\ shown \subseteq Users /\ lost \subseteq Users

Init ==
  /\ listed = FALSE
  /\ players = <<>>
  /\ status = "absent"
  /\ stale = FALSE
  /\ pc = [r \in Reqs |-> "idle"]
  /\ call = [r \in Reqs |-> NoCall]
  /\ window = [r \in Reqs |-> <<>>]
  /\ snap = [r \in Reqs |-> 0]
  /\ rcpt = [r \in Reqs |-> {}]
  /\ evictor = "scan"
  /\ ver = 0
  /\ silent = FALSE
  /\ crossed = FALSE
  /\ told = {} /\ shown = {} /\ lost = {}

\* The handler returns (its locals are forgotten).
Done(r) ==
  /\ pc' = [pc EXCEPT ![r] = "idle"]
  /\ call' = [call EXCEPT ![r] = NoCall]
  /\ snap' = [snap EXCEPT ![r] = 0]

-----------------------------------------------------------------------------
(* A request arrives: one handler per action of the request. *)

\* CreateRoom up to GetOrCreate: the room is in the map, empty, before its
\* creator joins it.
GetOrCreate == listed' = TRUE /\ status' = "waiting"

\* CreateRoomHandler.Handle: whatever the configuration names, or the defaults.
CreateRoom(r) ==
  /\ status = "absent" /\ pc[r] = "idle"
  /\ GetOrCreate
  /\ call' = [call EXCEPT ![r] = NoCall]
  /\ pc' = [pc EXCEPT ![r] = "lookup"]
  /\ UNCHANGED <<players, stale, window, snap, rcpt, evictor, hist>>

\* roomManager.Get: a request that finds no room is answered with an error and
\* changes nothing, so only the others are kept.
Accept(r, o, u, s) ==
  /\ listed /\ pc[r] = "idle"
  /\ ver + Cardinality(Busy) < MaxVer
  /\ call' = [call EXCEPT ![r] = [op |-> o, user |-> u, seat |-> s]]
  /\ pc' = [pc EXCEPT ![r] = IF o = "JOIN" THEN "lookup" ELSE "apply"]
  /\ UNCHANGED <<room, window, snap, rcpt, evictor, hist>>

JoinRoom(r) == \E u \in Users : Accept(r, "JOIN", u, None)
LeaveRoom(r) == \E u \in Users : Accept(r, "LEAVE", u, None)
ReadyRoom(r) == \E u \in Users : Accept(r, "READY", u, None)
ChangeSeat(r) == \E u \in Users, s \in TargetSeats : Accept(r, "CHANGE_SEAT", u, s)
StartGame(r) == \E u \in Users : Accept(r, "START_GAME", u, None)

-----------------------------------------------------------------------------
(* AllocateSeat reads roomInfo.Players without Room.mu.  The scan fixes the  *)
(* slice header first; each element it then reads holds any value the        *)
(* element has had since (an old backing array keeps the old values).        *)

ScanBegin(r) ==
  /\ pc[r] = "lookup"
  /\ window' = [window EXCEPT ![r] = [i \in DOMAIN players |-> {players[i].seat}]]
  /\ pc' = [pc EXCEPT ![r] = "scan"]
  /\ UNCHANGED <<room, call, snap, rcpt, evictor, hist>>

\* What the scan can come to see as occupied.
Occupied(r, occ) ==
  \E f \in [DOMAIN window[r] -> Seats] :
     /\ \A i \in DOMAIN window[r] : f[i] \in window[r][i]
     /\ occ = {f[i] : i \in DOMAIN window[r]} \ {None}

\* Mutant: the loop runs to i <= 4.
Bug_AllocateSeat(r, occ) ==
  \/ \E s \in 0 .. SeatCount :
       /\ s \notin occ
       /\ call' = [call EXCEPT ![r].seat = s]
       /\ pc' = [pc EXCEPT ![r] = "apply"]
       /\ UNCHANGED snap
  \/ TableSeats \subseteq occ /\ Done(r)

\* The first free seat 0..3, or ErrNoAvailableSeat.
AllocateSeat(r, occ) ==
  \/ \E s \in TableSeats \ occ :
       /\ \A t \in TableSeats \ occ : s <= t
       /\ call' = [call EXCEPT ![r].seat = s]
       /\ pc' = [pc EXCEPT ![r] = "apply"]
       /\ UNCHANGED snap
  \/ TableSeats \subseteq occ /\ Done(r)

ScanEnd(r) ==
  /\ pc[r] = "scan"
  /\ \E occ \in SUBSET Seats : Occupied(r, occ) /\ AllocateSeat(r, occ)
  /\ window' = [window EXCEPT ![r] = <<>>]
  /\ UNCHANGED <<room, rcpt, evictor, hist>>

-----------------------------------------------------------------------------
(* The change itself, under Room.mu. *)

\* Every running scan may now also see the new value of each element.
Widened ==
  [q \in Reqs |->
     [i \in DOMAIN window[q] |->
        window[q][i] \cup (IF i \in DOMAIN players' THEN {players'[i].seat} ELSE {})]]

\* Mutant: the room is copied before the change instead of after it.
Bug_Changed(r) ==
  /\ stale' = FALSE
  /\ ver' = ver + 1
  /\ silent' = (call[r].op = "CREATE")
  /\ crossed' = (Broadcasting # {})
  /\ told' = {} /\ shown' = {} /\ lost' = {}
  /\ window' = Widened
  /\ snap' = [snap EXCEPT ![r] = ver]
  /\ pc' = [pc EXCEPT ![r] = IF call[r].op = "CREATE" THEN "idle" ELSE "members"]
  /\ UNCHANGED <<listed, call, rcpt, evictor>>

\* The operation succeeded: lastActive is now, and the room is one version on.
Changed(r) ==
  /\ stale' = FALSE
  /\ ver' = ver + 1
  /\ silent' = (call[r].op = "CREATE")
  /\ crossed' = (Broadcasting # {})
  /\ told' = {} /\ shown' = {} /\ lost' = {}
  /\ window' = Widened
  /\ IF call[r].op = "CREATE"
       THEN Done(r)
       ELSE pc' = [pc EXCEPT ![r] = "copy"] /\ UNCHANGED <<call, snap>>
  /\ UNCHANGED <<listed, rcpt, evictor>>

\* The operation returned an error: the handler answers and is done.
Refused(r) == Done(r) /\ UNCHANGED <<room, window, rcpt, evictor, hist>>

At(r, ops) == pc[r] = "apply" /\ call[r].op \in ops

MayJoin(u, s) == status = "waiting" /\ u \notin Members /\ (s = None \/ ~Taken(s))

Join(r) ==
  /\ At(r, {"CREATE", "JOIN"})
  /\ IF MayJoin(call[r].user, call[r].seat)
       THEN /\ players' = Append(players, [user |-> call[r].user,
                                           seat |-> call[r].seat, ready |-> FALSE])
            /\ UNCHANGED status
            /\ Changed(r)
       ELSE Refused(r)

\* Leave looks at nothing but membership: a player may leave a running game.
Leave(r) ==
  /\ At(r, {"LEAVE"})
  /\ \/ \E i \in DOMAIN players :
          /\ players[i].user = call[r].user
          /\ players' = Without(players, i)
          /\ UNCHANGED status
          /\ Changed(r)
     \/ call[r].user \notin Members /\ Refused(r)

\* Ready toggles, whatever the status.
Ready(r) ==
  /\ At(r, {"READY"})
  /\ \/ \E i \in DOMAIN players :
          /\ players[i].user = call[r].user
          /\ players' = [players EXCEPT ![i].ready = ~@]
          /\ UNCHANGED status
          /\ Changed(r)
     \/ call[r].user \notin Members /\ Refused(r)

\* Mutant: ChangeSeat does not check whether the player is ready.
Bug_MayMoveReady(i, s) == status = "waiting" /\ (s = None \/ ~Taken(s))

MayMove(i, s) == status = "waiting" /\ ~players[i].ready /\ (s = None \/ ~Taken(s))

Move(r) ==
  /\ At(r, {"CHANGE_SEAT"})
  /\ \/ \E i \in DOMAIN players :
          /\ players[i].user = call[r].user
          /\ IF MayMove(i, call[r].seat)
               THEN /\ players' = [players EXCEPT ![i].seat = call[r].seat]
                    /\ UNCHANGED status
                    /\ Changed(r)
               ELSE Refused(r)
     \/ call[r].user \notin Members /\ Refused(r)

\* MahjongGameStrategy.ValidatePlayers: enough players, enough of them ready.
ValidatePlayers == Len(players) >= SeatCount /\ Cardinality(ReadyIdx) >= SeatCount

\* Only the creator is ever IsHost, and only while in the room.
Start(r) ==
  /\ At(r, {"START_GAME"})
  /\ IF /\ status = "waiting"
        /\ call[r].user = Creator /\ Creator \in Members
        /\ ValidatePlayers
       THEN /\ status' = "playing"
            /\ UNCHANGED players
            /\ Changed(r)
       ELSE Refused(r)

-----------------------------------------------------------------------------
(* The broadcast of the change, with no lock held in between. *)

CopyRoomInfo(r) ==
  /\ pc[r] = "copy"
  /\ snap' = [snap EXCEPT ![r] = ver]
  /\ pc' = [pc EXCEPT ![r] = "members"]
  /\ UNCHANGED <<room, call, window, rcpt, evictor, hist>>

\* BroadcastToRoom reads the recipients; ErrRoomNotFound if the room is gone.
BroadcastToRoom(r) ==
  /\ pc[r] = "members"
  /\ IF listed /\ Members # {}
       THEN /\ rcpt' = [rcpt EXCEPT ![r] = Members]
            /\ pc' = [pc EXCEPT ![r] = "push"]
            /\ UNCHANGED <<call, snap>>
       ELSE Done(r) /\ UNCHANGED rcpt
  /\ UNCHANGED <<room, window, evictor, hist>>

\* The push of version v to u: it gets through, and the client shows what came
\* last (mahjongRoomService.ts), or it does not, because the location lookup
\* failed, the user has no location, or the publish failed; that is logged.
Push(u, v) ==
  LET newest == IF v = ver THEN {u} ELSE {}
  IN  /\ told' = told \cup newest
      /\ \/ shown' = (shown \ {u}) \cup newest /\ UNCHANGED lost
         \/ lost' = lost \cup newest /\ UNCHANGED shown

\* Mutant: a push that fails ends the broadcast.
Bug_SendRoomPush(r) ==
  /\ pc[r] = "push"
  /\ \E u \in rcpt[r] :
       /\ Push(u, snap[r])
       /\ IF rcpt[r] = {u} \/ (u \in lost' /\ u \notin lost)
            THEN Done(r) /\ rcpt' = [rcpt EXCEPT ![r] = {}]
            ELSE rcpt' = [rcpt EXCEPT ![r] = @ \ {u}] /\ UNCHANGED <<pc, call, snap>>
  /\ UNCHANGED <<room, window, evictor, ver, silent, crossed>>

\* SendRoomPushToUsers: one user after the other, in the order the concurrent
\* location lookups happen to finish; one that fails is passed over and is not
\* tried again.  A user's devices are taken as one.
SendRoomPush(r) ==
  /\ pc[r] = "push"
  /\ \E u \in rcpt[r] :
       /\ rcpt' = [rcpt EXCEPT ![r] = @ \ {u}]
       /\ IF rcpt[r] = {u} THEN Done(r) ELSE UNCHANGED <<pc, call, snap>>
       /\ Push(u, snap[r])
  /\ UNCHANGED <<room, window, evictor, ver, silent, crossed>>

-----------------------------------------------------------------------------
(* RoomManager.evictInactive *)

\* evictTimeout passes with no successful operation on the room.
GoStale ==
  /\ listed /\ ~stale
  /\ stale' = TRUE
  /\ UNCHANGED <<listed, players, status, reqs, evictor, hist>>

\* Mutant: rooms with a running game are passed over.
Bug_EvictScan ==
  /\ evictor = "scan" /\ listed /\ stale /\ status = "waiting"
  /\ evictor' = "remove"
  /\ UNCHANGED <<room, reqs, hist>>

EvictScan ==
  /\ evictor = "scan" /\ listed /\ stale
  /\ evictor' = "remove"
  /\ UNCHANGED <<room, reqs, hist>>

\* After "room.evicted" is broadcast the room is removed, whatever has
\* happened to it since the scan.
EvictRemove ==
  /\ evictor = "remove"
  /\ listed' = FALSE
  /\ evictor' = "scan"
  /\ UNCHANGED <<players, status, stale, reqs, hist>>

-----------------------------------------------------------------------------
Arrive(r) ==
  \/ CreateRoom(r) \/ JoinRoom(r) \/ LeaveRoom(r) \/ ReadyRoom(r)
  \/ ChangeSeat(r) \/ StartGame(r)

Apply(r) == Join(r) \/ Leave(r) \/ Ready(r) \/ Move(r) \/ Start(r)

Serve(r) ==
  \/ ScanBegin(r) \/ ScanEnd(r) \/ Apply(r)
  \/ CopyRoomInfo(r) \/ BroadcastToRoom(r) \/ SendRoomPush(r)

Evict == EvictScan \/ EvictRemove

Next == (\E r \in Reqs : Arrive(r) \/ Serve(r)) \/ GoStale \/ Evict

\* A worker goroutine and the eviction goroutine are never stopped.
Fairness == WF_vars(Evict) /\ \A r \in Reqs : WF_vars(Serve(r))

Spec == Init /\ [][Next]_vars /\ Fairness

-----------------------------------------------------------------------------
(* Properties.  A definition Bug_X above is X with a plausible defect; it is  *)
(* used by no specification, only to show that the properties notice it.     *)

\* A room never holds the same user twice, although two JOINs of one user may
\* both have passed every check but the locked one (Room.Join).
MembersDistinct ==
  \A i, j \in DOMAIN players : players[i].user = players[j].user => i = j

\* Two players never share a real seat, although AllocateSeat hands the same
\* seat to concurrent JOINs and may skip an occupied one in a shifting slice.
SeatsDistinct ==
  \A i, j \in DOMAIN players :
     players[i].seat = players[j].seat /\ players[i].seat # None => i = j

\* When no request is running, every member of a listed room has been pushed
\* the newest version of the room, once: the copy is taken after the change and
\* the recipients are read after the copy, so the last broadcast to end cannot
\* have missed a member, whichever pushes failed.  If no other broadcast was
\* running when the newest change was made, a member shows that version or
\* knows nothing of it because the push failed; overlapping broadcasts are the
\* one way to leave an older version on a screen.  (CREATE broadcasts nothing.)
LatestIsPushed ==
  (listed /\ Busy = {} /\ ver > 0 /\ ~silent) =>
    \A u \in Members :
      u \in told /\ (crossed \/ u \in shown \cup lost)

\* A running game's table is frozen: from the start on nobody joins and nobody
\* changes seat, even by a request accepted before the start; players only
\* leave, and the room never goes back to waiting.
GameFrozen ==
  [][status = "playing" =>
       /\ status' = "playing"
       /\ \A j \in DOMAIN players' : \E i \in DOMAIN players :
            players[i].user = players'[j].user /\ players[i].seat = players'[j].seat]_vars

\* Room is a table: whatever the interleaving of scans, changes and evictions,
\* the players and the status only change as RoomTable allows.
Table == INSTANCE RoomTable WITH
  table <- [u \in Members |->
              LET i == CHOOSE k \in DOMAIN players : players[k].user = u
              IN  [seat |-> players[i].seat, ready |-> players[i].ready]],
  phase <- status
ImplementsTable == Table!Spec

\* A member to whom the newest version of the room has not been pushed is pushed
\* it in the end, however many changes of others come in between, unless the
\* member leaves, the room is evicted first or CREATE's change is the newest.
\* (The push is tried once; one that fails leaves the member behind.)
NobodyLeftOut ==
  \A u \in Users :
    (u \in Members \ told /\ ver > 0 /\ ~silent) ~>
      (u \in told \/ u \notin Members \/ ~listed \/ silent)

\* An inactive room does not stay listed for ever (evictLoop).
InactiveRoomEvicted == []<>(~listed \/ ~stale)
=============================================================================
