------------------------------ MODULE Presence ------------------------------
(***************************************************************************)
(* How a logic node finds the connections of a user, and how a push comes  *)
(* to one of them: logic-go/internal/service/{location,router,dispatcher}, *)
(* handler/user_handler.go and access-go/internal/handler/                 *)
(* downstream_handler.go, on top of Access.                                *)
(*                                                                         *)
(* A logic node caches what Redis told it for ever, that is until one of   *)
(* the nodes' workers, not necessarily its own, handles a UserOffline.     *)
(***************************************************************************)
EXTENDS Access

CONSTANT Logics   \* logic nodes

VARIABLES
  cache,   \* per logic node and user, LocationService.locationCache
  lookups, \* per logic node, the lookups between their MGET and their Store
  pushes   \* downstream messages on their way to access nodes

logic == <<cache, lookups, pushes>>
presenceVars == <<accessVars, logic>>

\* A UserLocation; a cache entry is a set of them, {} if there is no entry.
Location == [platform : Platforms, node : Nodes, id : Nat \ {0}]
Push == [user : Users, node : Nodes, id : Nat \ {0}]

PresenceInit ==
  /\ AccessInit
  /\ cache = [l \in Logics |-> [u \in Users |-> {}]]
  /\ lookups = [l \in Logics |-> {}]
  /\ pushes = {}

-----------------------------------------------------------------------------
(* LocationService and RouterService *)

\* What MGET finds under the keys of a user's platforms.
InRedis(u) ==
  {[platform |-> p, node |-> location[<<u, p>>].node, id |-> location[<<u, p>>].id] :
     p \in {q \in Platforms : location[<<u, q>>] # None}}

\* DispatcherService.Dispatch: one message per location, to its node.
PushesTo(u, found) == {[user |-> u, node |-> d.node, id |-> d.id] : d \in found}

\* Something is to be pushed to a user the node has cached.
RouteCached(l, u) ==
  /\ cache[l][u] # {}
  /\ pushes' = pushes \cup PushesTo(u, cache[l][u])
  /\ UNCHANGED <<accessVars, cache, lookups>>

\* The same for a user it has not: the query to Redis ...
RouteLookup(l, u) ==
  /\ cache[l][u] = {}
  /\ lookups' = [lookups EXCEPT ![l] = @ \cup {[user |-> u, found |-> InRedis(u)]}]
  /\ UNCHANGED <<accessVars, cache, pushes>>

\* Mutant: the answer is stored under whatever user is asked for next.
Bug_RouteStore(l) ==
  \E q \in lookups[l], u \in Users :
    /\ lookups' = [lookups EXCEPT ![l] = @ \ {q}]
    /\ cache' = IF q.found = {} THEN cache ELSE [cache EXCEPT ![l][u] = q.found]
    /\ pushes' = pushes \cup PushesTo(q.user, q.found)
    /\ UNCHANGED accessVars

\* ... and its answer, cached unless empty, and dispatched.
RouteStore(l) ==
  \E q \in lookups[l] :
    /\ lookups' = [lookups EXCEPT ![l] = @ \ {q}]
    /\ cache' = IF q.found = {} THEN cache ELSE [cache EXCEPT ![l][q.user] = q.found]
    /\ pushes' = pushes \cup PushesTo(q.user, q.found)
    /\ UNCHANGED accessVars

\* SendAckToUserDirect: a request's answer goes to the connection it came from.
Answer(c) ==
  /\ Open(c)
  /\ pushes' = pushes \cup {[user |-> who[c].key[1], node |-> who[c].node, id |-> who[c].id]}
  /\ UNCHANGED <<accessVars, cache, lookups>>

\* HandleUserOffline, by one node of the queue group.
HandleUserOffline(l, u) ==
  /\ offlines[u] > 0
  /\ offlines' = [offlines EXCEPT ![u] = @ - 1]
  /\ cache' = [cache EXCEPT ![l][u] = {}]
  /\ UNCHANGED <<session, manager, checker, location, restarts, lookups, pushes>>

\* Handler.HandleDownstream: Manager.Get of the id and, if it is there, Send.
HandleDownstream(p) ==
  /\ pushes' = pushes \ {p}
  /\ UNCHANGED <<accessVars, cache, lookups>>

\* NATS holds no message for a node that is down.
Crash(n) ==
  /\ Restart(n)
  /\ pushes' = {p \in pushes : p.node # n}
  /\ UNCHANGED <<cache, lookups>>

-----------------------------------------------------------------------------
Route(l) == \/ \E u \in Users : RouteCached(l, u) \/ RouteLookup(l, u)
            \/ RouteStore(l)

PresenceNext ==
  \/ AccessStep /\ UNCHANGED logic
  \/ \E n \in Nodes : Crash(n)
  \/ \E l \in Logics : Route(l) \/ \E u \in Users : HandleUserOffline(l, u)
  \/ \E c \in Conns : Answer(c)
  \/ \E p \in pushes : HandleDownstream(p)

PresenceSpec == PresenceInit /\ [][PresenceNext]_presenceVars

-----------------------------------------------------------------------------
(* Properties *)

\* The connection an address names at this moment, if any, is the user's own.
Names(n, i, u) ==
  \A c \in conns[n] : who[c].id = i => who[c].key # None /\ who[c].key[1] = u

\* However old it is, a location in a cache, in a lookup or in a push never leads
\* to a connection of another user, as long as no node numbers its connections
\* anew.
NoMisdelivery ==
  restarts = 0 =>
    /\ \A l \in Logics : \A u \in Users : \A d \in cache[l][u] : Names(d.node, d.id, u)
    /\ \A l \in Logics : \A q \in lookups[l] : \A d \in q.found : Names(d.node, d.id, q.user)
    /\ \A p \in pushes : Names(p.node, p.id, p.user)
=============================================================================
