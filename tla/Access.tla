------------------------------- MODULE Access -------------------------------
(***************************************************************************)
(* The connections of the access nodes and where Redis says users are:     *)
(* access-go/internal/{server/server,connection/manager,                   *)
(* connection/heartbeat,connection/connection,handler/auth_handler,        *)
(* redis/client}.go.                                                       *)
(*                                                                         *)
(* Each connection is a goroutine (handleSession): it authenticates, takes *)
(* the place of the user's earlier connection on the platform, writes the  *)
(* user's location to Redis, serves its stream, and cleans up in a defer.  *)
(* Beside them each node runs one heartbeat checker.  None of these steps  *)
(* is atomic with the next.                                                *)
(***************************************************************************)
EXTENDS Integers, FiniteSets

CONSTANTS
  Conns,       \* connections ever made, to any node
  Nodes,       \* access nodes
  Users,
  Platforms,
  None,        \* nil
  RedisErrors, \* whether a Redis command may fail
  MaxRestarts  \* bound on crashes of access nodes

ASSUME NoneAssumption == None \notin Conns \cup (Users \X Platforms)
ASSUME RedisErrorsAssumption == RedisErrors \in BOOLEAN
ASSUME RestartsAssumption == MaxRestarts \in Nat

VARIABLES
  who,       \* each Connection's node, id and (once bound) user and platform
  st,        \* where each connection's handleSession is
  old,       \* the connection BindUser returned to handleAuth
  closed,    \* connections on which Close was called
  conns,     \* per node, Manager.connections
  userConns, \* per node, Manager.userConns
  nextId,    \* per node, connIDCounter + 1
  sweep,     \* per node, timed-out connections the checker has still to handle
  checking,  \* per node, the one it is handling
  location,  \* Redis: im:user:location:{user}:{platform}
  offlines,  \* per user, UserOffline events on their way to logic
  restarts   \* history: crashes so far

session == <<who, st, old, closed>>
manager == <<conns, userConns, nextId>>
checker == <<sweep, checking>>
accessVars == <<session, manager, checker, location, offlines, restarts>>

Keys == Users \X Platforms
Address == [node : Nodes, id : Nat \ {0}]   \* to a push, id 0 is no id
Identity == [node : Nodes, id : Nat \ {0}, key : Keys \cup {None}]
Steps == {"none", "auth", "kick", "register", "serve", "unregister", "leave", "gone"}

AddressOf(c) == [node |-> who[c].node, id |-> who[c].id]
HasUser(c) == who[c].key # None                       \* Connection.UserID() > 0
Open(c) == st[c] = "serve" /\ c \notin closed

AccessTypeOK ==
  /\ who \in [Conns -> Identity \cup {None}]
  /\ st \in [Conns -> Steps]
  /\ old \in [Conns -> Conns \cup {None}]
  /\ closed \in SUBSET Conns
  /\ conns \in [Nodes -> SUBSET Conns]
  /\ userConns \in [Nodes -> [Keys -> Conns \cup {None}]]
  /\ nextId \in [Nodes -> Nat]
  /\ sweep \in [Nodes -> SUBSET Conns]
  /\ checking \in [Nodes -> Conns \cup {None}]
  /\ location \in [Keys -> Address \cup {None}]
  /\ offlines \in [Users -> Nat]
  /\ restarts \in 0 .. MaxRestarts

AccessInit ==
  /\ who = [c \in Conns |-> None] /\ st = [c \in Conns |-> "none"]
  /\ old = [c \in Conns |-> None] /\ closed = {}
  /\ conns = [n \in Nodes |-> {}]
  /\ userConns = [n \in Nodes |-> [k \in Keys |-> None]]
  /\ nextId = [n \in Nodes |-> 1]
  /\ sweep = [n \in Nodes |-> {}] /\ checking = [n \in Nodes |-> None]
  /\ location = [k \in Keys |-> None]
  /\ offlines = [u \in Users |-> 0]
  /\ restarts = 0

Goto(c, step) == st' = [st EXCEPT ![c] = step]

-----------------------------------------------------------------------------
(* Redis *)

\* SET, the value naming this connection.
RegisterUserLocation(c) ==
  location' = [location EXCEPT ![who[c].key] = AddressOf(c)]

\* DEL of the key, whatever its value.
UnregisterUserLocation(c) == location' = [location EXCEPT ![who[c].key] = None]

\* The TTL: a location is refreshed by the heartbeats of any connection of its
\* user on its platform, and goes when there is none.
Expire(k) ==
  /\ location[k] # None
  /\ \A c \in Conns : Open(c) => who[c].key # k
  /\ location' = [location EXCEPT ![k] = None]
  /\ UNCHANGED <<session, manager, checker, offlines, restarts>>

-----------------------------------------------------------------------------
(* Manager *)

\* Mutant: a user's entry goes whichever connection it is.
Bug_Remove(c) ==
  LET n == who[c].node  k == who[c].key
  IN  IF c \in conns[n]
        THEN /\ conns' = [conns EXCEPT ![n] = @ \ {c}]
             /\ userConns' = IF HasUser(c) THEN [userConns EXCEPT ![n][k] = None]
                                           ELSE userConns
        ELSE UNCHANGED <<conns, userConns>>

\* Manager.Remove: the user's entry goes too if it is still this connection.
Remove(c) ==
  LET n == who[c].node  k == who[c].key
  IN  IF c \in conns[n]
        THEN /\ conns' = [conns EXCEPT ![n] = @ \ {c}]
             /\ userConns' = IF HasUser(c) /\ userConns[n][k] = c
                               THEN [userConns EXCEPT ![n][k] = None]
                               ELSE userConns
        ELSE UNCHANGED <<conns, userConns>>

\* Manager.BindUser: the new connection takes the entry, the old one is returned;
\* nothing if the checker has removed the new one already.
BindUser(c, k) ==
  LET n == who[c].node
  IN  IF c \in conns[n]
        THEN /\ old' = [old EXCEPT ![c] = userConns[n][k]]
             /\ userConns' = [userConns EXCEPT ![n][k] = c]
        ELSE UNCHANGED <<old, userConns>>

-----------------------------------------------------------------------------
(* Server.handleSession and Handler.handleAuth *)

\* Mutant: the counter is not incremented.
Bug_AcceptSame(c, n) ==
  /\ st[c] = "none"
  /\ who' = [who EXCEPT ![c] = [node |-> n, id |-> nextId[n], key |-> None]]
  /\ conns' = [conns EXCEPT ![n] = @ \cup {c}]
  /\ Goto(c, "auth")
  /\ UNCHANGED <<old, closed, userConns, nextId, checker, location, offlines, restarts>>

\* NewFromWebTransport and Manager.Add.
Accept(c, n) ==
  /\ st[c] = "none"
  /\ who' = [who EXCEPT ![c] = [node |-> n, id |-> nextId[n], key |-> None]]
  /\ nextId' = [nextId EXCEPT ![n] = @ + 1]
  /\ conns' = [conns EXCEPT ![n] = @ \cup {c}]
  /\ Goto(c, "auth")
  /\ UNCHANGED <<old, closed, userConns, checker, location, offlines, restarts>>

\* The first stream never comes, is no valid authentication, or its session ends.
Reject(c) ==
  /\ st[c] = "auth"
  /\ Goto(c, "leave")
  /\ UNCHANGED <<who, old, closed, manager, checker, location, offlines, restarts>>

\* The token is that of user and platform k: BindSession, BindUser.
Bind(c, k) ==
  /\ st[c] = "auth"
  /\ who' = [who EXCEPT ![c].key = k]
  /\ BindUser(c, k)
  /\ Goto(c, "kick")
  /\ UNCHANGED <<closed, conns, nextId, checker, location, offlines, restarts>>

\* oldConn.Close()
Kick(c) ==
  /\ st[c] = "kick"
  /\ closed' = closed \cup ({old[c]} \ {None})
  /\ Goto(c, "register")
  /\ UNCHANGED <<who, old, manager, checker, location, offlines, restarts>>

\* A failed SET is only logged.
Register(c) ==
  /\ st[c] = "register"
  /\ RegisterUserLocation(c) \/ (RedisErrors /\ UNCHANGED location)
  /\ Goto(c, "serve")
  /\ UNCHANGED <<who, old, closed, manager, checker, offlines, restarts>>

\* HandleStream returns: the client has ended its stream, or Close has.
StreamEnds(c) ==
  /\ st[c] = "serve"
  /\ Goto(c, "unregister")
  /\ UNCHANGED <<who, old, closed, manager, checker, location, offlines, restarts>>

\* The defer: a failed DEL ends it before it has removed the connection.
Unregister(c) ==
  /\ st[c] = "unregister"
  /\ \/ UnregisterUserLocation(c) /\ Goto(c, "leave")
     \/ RedisErrors /\ Goto(c, "gone") /\ UNCHANGED location
  /\ UNCHANGED <<who, old, closed, manager, checker, offlines, restarts>>

\* SendUserOfflineToLogic.
PublishOffline(c) ==
  offlines' = IF HasUser(c) THEN [offlines EXCEPT ![who[c].key[1]] = @ + 1] ELSE offlines

\* The rest of the defer: UserOffline if there was a user, and Manager.Remove.
Leave(c) ==
  /\ st[c] = "leave"
  /\ PublishOffline(c)
  /\ Remove(c)
  /\ Goto(c, "gone")
  /\ UNCHANGED <<who, old, closed, nextId, checker, location, restarts>>

-----------------------------------------------------------------------------
(* HeartbeatChecker.checkConnections *)

\* Of the connections it has listed it will handle those it finds timed out.
Sweep(n) ==
  /\ sweep[n] = {} /\ checking[n] = None
  /\ \E S \in SUBSET conns[n] : S # {} /\ sweep' = [sweep EXCEPT ![n] = S]
  /\ UNCHANGED <<session, manager, checking, location, offlines, restarts>>

\* The callback's DEL; its error is only logged.
SweepUnregister(n) ==
  /\ checking[n] = None
  /\ \E c \in sweep[n] :
       /\ sweep' = [sweep EXCEPT ![n] = @ \ {c}]
       /\ checking' = [checking EXCEPT ![n] = c]
       /\ \/ HasUser(c) /\ UnregisterUserLocation(c)
          \/ (RedisErrors \/ ~HasUser(c)) /\ UNCHANGED location
  /\ UNCHANGED <<session, manager, offlines, restarts>>

\* Mutant: the checker only closes the connection and trusts its defer with the
\* rest.
Bug_SweepClose(n) ==
  /\ checking[n] # None
  /\ closed' = closed \cup {checking[n]}
  /\ checking' = [checking EXCEPT ![n] = None]
  /\ UNCHANGED <<who, st, old, manager, sweep, location, offlines, restarts>>

\* The callback's UserOffline, Close, and Manager.Remove.
SweepClose(n) ==
  /\ checking[n] # None
  /\ PublishOffline(checking[n])
  /\ closed' = closed \cup {checking[n]}
  /\ Remove(checking[n])
  /\ checking' = [checking EXCEPT ![n] = None]
  /\ UNCHANGED <<who, st, old, nextId, sweep, location, restarts>>

-----------------------------------------------------------------------------
(* A node dies and comes back: its memory is gone, Redis is not.             *)

Restart(n) ==
  /\ restarts < MaxRestarts /\ conns[n] # {}
  /\ restarts' = restarts + 1
  /\ st' = [c \in Conns |-> IF who[c] # None /\ who[c].node = n THEN "gone" ELSE st[c]]
  /\ conns' = [conns EXCEPT ![n] = {}]
  /\ userConns' = [userConns EXCEPT ![n] = [k \in Keys |-> None]]
  /\ nextId' = [nextId EXCEPT ![n] = 1]
  /\ sweep' = [sweep EXCEPT ![n] = {}] /\ checking' = [checking EXCEPT ![n] = None]
  /\ UNCHANGED <<who, old, closed, location, offlines>>

-----------------------------------------------------------------------------
Arrive(c) == \E n \in Nodes : Accept(c, n)
Authenticate(c) == Reject(c) \/ \E k \in Keys : Bind(c, k)
Finish(c) == Kick(c) \/ Register(c) \/ Unregister(c) \/ Leave(c)
Session(c) == Arrive(c) \/ Authenticate(c) \/ StreamEnds(c) \/ Finish(c)
Check(n) == Sweep(n) \/ SweepUnregister(n) \/ SweepClose(n)

AccessStep ==
  \/ \E c \in Conns : Session(c)
  \/ \E n \in Nodes : Check(n)
  \/ \E k \in Keys : Expire(k)

AccessNext == AccessStep \/ \E n \in Nodes : Restart(n)

\* The listed connections whose handler is gone.
Gone(n) == {c \in conns[n] : st[c] = "gone"}

\* Goroutines run; a closed session ends its handler's wait for a stream; the
\* checker ticks for ever and in the end finds every connection timed out whose
\* handler is gone (its LastActiveTime stands still).
AccessFairness ==
  /\ \A c \in Conns : /\ WF_accessVars(Finish(c))
                      /\ WF_accessVars(c \in closed /\ (Reject(c) \/ StreamEnds(c)))
  /\ \A n \in Nodes :
       /\ WF_accessVars(SweepUnregister(n) \/ SweepClose(n))
       /\ SF_accessVars(Sweep(n) /\ Gone(n) # {} /\ Gone(n) \subseteq sweep'[n])

AccessSafety == AccessInit /\ [][AccessNext]_accessVars
AccessSpec == AccessSafety /\ AccessFairness

-----------------------------------------------------------------------------
(* Properties *)

\* The two maps agree: what a user's entry names is a listed connection bound to
\* that user and platform, although BindUser, the defer's Remove and the
\* checker's Remove of the old and the new connection come in any order.
MapsAgree ==
  \A n \in Nodes, k \in Keys :
    LET c == userConns[n][k]
    IN  c # None => c \in conns[n] /\ who[c].key = k

\* A served connection is the one its user's entry names, so that downstream
\* pushes find it, until one that takes its place is about to close it.  No
\* clean-up of an earlier or a later connection costs it its entry, and no two
\* open connections share a user and a platform on a node.
OpenIsFound ==
  \A c \in Conns :
    Open(c) /\ c \in conns[who[c].node] =>
      \/ userConns[who[c].node][who[c].key] = c
      \/ \E d \in Conns : st[d] = "kick" /\ old[d] = c

\* Redis never files a user under a connection of someone else, as long as no
\* node starts to number its connections anew.
LocationNamesOwner ==
  restarts = 0 =>
    \A k \in Keys, c \in Conns :
      location[k] # None /\ c \in conns[location[k].node] /\ who[c].id = location[k].id
        => who[c].key = k

\* A connection that another one replaces does end, and a node forgets every
\* connection whose handler has ended, also when Redis fails the handler's defer
\* and so keeps it from removing the connection itself.
EndedIsForgotten ==
  \A c \in Conns :
    (st[c] = "gone" \/ \E d \in Conns : st[d] = "kick" /\ old[d] = c)
      ~> (st[c] = "gone" /\ \A n \in Nodes : c \notin conns[n])

\* No handler is between two of its steps and no checker at work.
Settled == /\ \A d \in Conns : st[d] \in {"none", "gone"} \/ Open(d)
           /\ \A n \in Nodes : sweep[n] = {} /\ checking[n] = None

\* auth_handler.go:125 "旧连接会在 server 的 defer 中自动清理": what the defer of an old
\* connection cleans up is that connection, so that after server.go:140 and
\* auth_handler.go:129 the user's open connection has its location in Redis.
OpenIsLocated ==
  Settled => \A c \in Conns : Open(c) => location[who[c].key] # None
=============================================================================
