---------------------------- MODULE AccessProofs ----------------------------
(***************************************************************************)
(* Theorems about Access, for any connections, nodes, users, platforms and *)
(* crashes, whether Redis fails or not; and about Presence on top of it:   *)
(* however old an address is that a logic node holds, it leads to no       *)
(* connection of another user, as long as no access node has numbered its  *)
(* connections anew.                                                       *)
(***************************************************************************)
EXTENDS Presence, TLAPS

(* What the connection table keeps at every moment. *)

\* A connection whose handler has begun has a node and an id, and one that has
\* bound its session has a user.
Identified ==
  /\ \A n \in Nodes : nextId[n] # 0
  /\ \A c \in Conns :
       /\ st[c] # "none" => who[c] \in Identity
       /\ st[c] \in {"kick", "register", "serve", "unregister"} => who[c].key # None

\* A node lists its own connections only.
Listed == \A n \in Nodes : \A c \in conns[n] : st[c] # "none" /\ who[c].node = n

\* A user's entry never names a connection that has not authenticated.
Unbound == \A c \in Conns : st[c] = "auth" => \A n \in Nodes, k \in Keys : userConns[n][k] # c

Indexed == Identified /\ Listed /\ Unbound /\ MapsAgree

\* The entry a new connection takes the place of is one of its own node.
OldIsLocal ==
  \A c \in Conns :
    /\ st[c] \in {"none", "auth"} => old[c] = None
    /\ st[c] = "kick" /\ old[c] # None =>
         st[old[c]] # "none" /\ who[old[c]].node = who[c].node

\* OpenIsFound from the moment a connection is bound, before it is served.
BoundIsFound ==
  \A c \in Conns :
    st[c] \in {"kick", "register", "serve"} /\ c \notin closed /\ c \in conns[who[c].node] =>
      \/ userConns[who[c].node][who[c].key] = c
      \/ \E d \in Conns : st[d] = "kick" /\ old[d] = c

\* While no node has restarted, a node's ids are below its counter and no two of
\* its connections have the same id, and a location names a connection of its user.
IdsBelow == \A c \in Conns : st[c] # "none" => who[c].id < nextId[who[c].node]

IdsApart ==
  \A c, d \in Conns :
    st[c] # "none" /\ st[d] # "none" /\ who[c].node = who[d].node /\ who[c].id = who[d].id
      => c = d

LocationsOwned ==
  \A k \in Keys :
    location[k] # None =>
      \E c \in Conns : /\ st[c] \notin {"none", "auth"}
                       /\ location[k] = AddressOf(c) /\ who[c].key = k

Numbered == restarts = 0 => IdsBelow /\ IdsApart /\ LocationsOwned

-----------------------------------------------------------------------------
(* Types *)

\* Changing one entry of a node's map leaves a map.
LEMMA EntryType ==
  ASSUME NEW A, NEW B, NEW S, NEW f \in [A -> [B -> S]], NEW a, NEW b, NEW s \in S
  PROVE  [f EXCEPT ![a][b] = s] \in [A -> [B -> S]]
<1>1. CASE a \in A
  <2>1. [f[a] EXCEPT ![b] = s] \in [B -> S]
    BY <1>1
  <2> QED
    BY <1>1, <2>1
<1>2. CASE a \notin A
  BY <1>2
<1> QED
  BY <1>1, <1>2

LEMMA RemoveType ==
  ASSUME AccessTypeOK, NEW c \in Conns, Remove(c)
  PROVE  conns' \in [Nodes -> SUBSET Conns] /\ userConns' \in [Nodes -> [Keys -> Conns \cup {None}]]
<1>1. [userConns EXCEPT ![who[c].node][who[c].key] = None] \in [Nodes -> [Keys -> Conns \cup {None}]]
  BY EntryType, ZenonT(60) DEF AccessTypeOK
<1>2. [conns EXCEPT ![who[c].node] = @ \ {c}] \in [Nodes -> SUBSET Conns]
  BY DEF AccessTypeOK
<1> QED
  BY <1>1, <1>2 DEF AccessTypeOK, Remove

LEMMA OfflineType ==
  ASSUME AccessTypeOK, NEW c \in Conns, PublishOffline(c)
  PROVE  offlines' \in [Users -> Nat]
<1>1. ASSUME NEW u PROVE [offlines EXCEPT ![u] = @ + 1] \in [Users -> Nat]
  <2>1. CASE u \in Users
    BY <2>1 DEF AccessTypeOK
  <2>2. CASE u \notin Users
    BY <2>2 DEF AccessTypeOK
  <2> QED
    BY <2>1, <2>2
<1>2. [offlines EXCEPT ![who[c].key[1]] = @ + 1] \in [Users -> Nat]
  BY <1>1
<1> QED
  BY <1>2 DEF AccessTypeOK, PublishOffline

LEMMA GotoType ==
  ASSUME AccessTypeOK, NEW c \in Conns, NEW s \in Steps, Goto(c, s)
  PROVE  st' \in [Conns -> Steps]
BY DEF AccessTypeOK, Goto

LEMMA AccessTypeInit == AccessInit => AccessTypeOK
BY RestartsAssumption DEF AccessInit, AccessTypeOK, Steps

\* A session's steps before it is served.
LEMMA SessionType ==
  ASSUME AccessTypeOK, Identified, NEW c \in Conns, Session(c) PROVE AccessTypeOK'
<1>1. ASSUME NEW n \in Nodes, Accept(c, n) PROVE AccessTypeOK'
  <2>1. [node |-> n, id |-> nextId[n], key |-> None] \in Identity
    BY DEF Identified, AccessTypeOK, Identity
  <2>2. who' \in [Conns -> Identity \cup {None}]
    BY <1>1, <2>1 DEF Accept, AccessTypeOK
  <2>3. nextId' \in [Nodes -> Nat] /\ conns' \in [Nodes -> SUBSET Conns]
    BY <1>1 DEF Accept, AccessTypeOK
  <2>4. st' \in [Conns -> Steps]
    BY <1>1, GotoType DEF Accept, Steps
  <2> QED
    BY <1>1, <2>2, <2>3, <2>4 DEF Accept, AccessTypeOK, checker
<1>2. CASE Reject(c)
  BY <1>2, GotoType DEF Reject, AccessTypeOK, Steps, manager, checker
<1>3. ASSUME NEW k \in Keys, Bind(c, k) PROVE AccessTypeOK'
  <2>1. who[c] \in Identity
    BY <1>3 DEF Bind, Identified
  <2>2. who' \in [Conns -> Identity \cup {None}]
    BY <1>3, <2>1 DEF Bind, AccessTypeOK, Identity
  <2>3. old' \in [Conns -> Conns \cup {None}]
        /\ userConns' \in [Nodes -> [Keys -> Conns \cup {None}]]
    <3>1. [userConns EXCEPT ![who[c].node][k] = c] \in [Nodes -> [Keys -> Conns \cup {None}]]
      BY EntryType DEF AccessTypeOK
    <3>2. userConns[who[c].node][k] \in Conns \cup {None}
      BY <2>1 DEF AccessTypeOK, Identity
    <3> QED
      BY <1>3, <3>1, <3>2 DEF Bind, BindUser, AccessTypeOK
  <2> QED
    BY <1>3, <2>2, <2>3, GotoType DEF Bind, AccessTypeOK, Steps, checker
<1>4. CASE Kick(c)
  <2>1. closed' \in SUBSET Conns
    BY <1>4 DEF Kick, AccessTypeOK
  <2> QED
    BY <1>4, <2>1, GotoType DEF Kick, AccessTypeOK, Steps, manager, checker
<1>5. CASE Register(c)
  <2>1. AddressOf(c) \in Address
    BY <1>5 DEF Register, Identified, Identity, AddressOf, Address
  <2>2. location' \in [Keys -> Address \cup {None}]
    BY <1>5, <2>1 DEF Register, RegisterUserLocation, AccessTypeOK
  <2> QED
    BY <1>5, <2>2, GotoType DEF Register, AccessTypeOK, Steps, manager, checker
<1>6. CASE StreamEnds(c)
  BY <1>6, GotoType DEF StreamEnds, AccessTypeOK, Steps, manager, checker
<1>7. CASE Unregister(c)
  <2>1. location' \in [Keys -> Address \cup {None}]
    BY <1>7 DEF Unregister, UnregisterUserLocation, AccessTypeOK
  <2>2. st' \in [Conns -> Steps]
    BY <1>7, GotoType DEF Unregister, Steps
  <2> QED
    BY <1>7, <2>1, <2>2 DEF Unregister, AccessTypeOK, manager, checker
<1>8. CASE Leave(c)
  <2>1. /\ st' \in [Conns -> Steps] /\ offlines' \in [Users -> Nat]
        /\ conns' \in [Nodes -> SUBSET Conns]
        /\ userConns' \in [Nodes -> [Keys -> Conns \cup {None}]]
    BY <1>8, GotoType, RemoveType, OfflineType DEF Leave, Steps
  <2> QED
    BY <1>8, <2>1 DEF Leave, AccessTypeOK, checker
<1> QED
  BY <1>1, <1>2, <1>3, <1>4, <1>5, <1>6, <1>7, <1>8
  DEF Session, Arrive, Authenticate, Finish

LEMMA CheckType ==
  ASSUME AccessTypeOK, NEW n \in Nodes, Check(n) PROVE AccessTypeOK'
<1>1. CASE Sweep(n)
  <2>1. sweep' \in [Nodes -> SUBSET Conns]
    BY <1>1 DEF Sweep, AccessTypeOK
  <2> QED
    BY <1>1, <2>1 DEF Sweep, AccessTypeOK, session, manager
<1>2. CASE SweepUnregister(n)
  <2>1. sweep' \in [Nodes -> SUBSET Conns] /\ checking' \in [Nodes -> Conns \cup {None}]
    BY <1>2 DEF SweepUnregister, AccessTypeOK
  <2>2. location' \in [Keys -> Address \cup {None}]
    BY <1>2 DEF SweepUnregister, UnregisterUserLocation, AccessTypeOK
  <2> QED
    BY <1>2, <2>1, <2>2 DEF SweepUnregister, AccessTypeOK, session, manager
<1>3. CASE SweepClose(n)
  <2>1. checking[n] \in Conns
    BY <1>3 DEF SweepClose, AccessTypeOK
  <2>2. closed' \in SUBSET Conns /\ checking' \in [Nodes -> Conns \cup {None}]
    BY <1>3, <2>1 DEF SweepClose, AccessTypeOK
  <2> QED
    BY <1>3, <2>1, <2>2, RemoveType, OfflineType DEF SweepClose, AccessTypeOK
<1> QED
  BY <1>1, <1>2, <1>3 DEF Check

LEMMA AccessTypeNext ==
  ASSUME AccessTypeOK, Identified, [AccessNext]_accessVars PROVE AccessTypeOK'
<1>1. ASSUME NEW k \in Keys, Expire(k) PROVE AccessTypeOK'
  BY <1>1 DEF Expire, AccessTypeOK, session, manager, checker
<1>2. ASSUME NEW n \in Nodes, Restart(n) PROVE AccessTypeOK'
  <2>1. restarts' \in 0 .. MaxRestarts
    BY <1>2, RestartsAssumption DEF Restart, AccessTypeOK
  <2>2. st' \in [Conns -> Steps]
    BY <1>2 DEF Restart, AccessTypeOK, Steps
  <2> QED
    BY <1>2, <2>1, <2>2 DEF Restart, AccessTypeOK
<1>3. CASE UNCHANGED accessVars
  BY <1>3 DEF accessVars, AccessTypeOK, session, manager, checker
<1> QED
  BY <1>1, <1>2, <1>3, SessionType, CheckType DEF AccessNext, AccessStep

-----------------------------------------------------------------------------
(* The connection table *)

\* One entry of a node's map changes, the others stay.
LEMMA EntryValue ==
  ASSUME NEW A, NEW B, NEW S, NEW f \in [A -> [B -> S]], NEW a, NEW b, NEW s,
         NEW x \in A, NEW y \in B
  PROVE  [f EXCEPT ![a][b] = s][x][y] = IF x = a /\ y = b THEN s ELSE f[x][y]
<1>1. CASE x = a
  <2>1. [f EXCEPT ![a][b] = s][x] = [f[a] EXCEPT ![b] = s]
    BY <1>1
  <2>2. f[a] \in [B -> S]
    BY <1>1
  <2> QED
    BY <1>1, <2>1, <2>2
<1>2. CASE x # a
  BY <1>2
<1> QED
  BY <1>1, <1>2

\* Removing a connection removes it everywhere and nothing else: an entry that
\* names it is its own.
LEMMA RemoveEffect ==
  ASSUME AccessTypeOK, Indexed, NEW c \in Conns, Remove(c)
  PROVE  \A n \in Nodes :
           /\ conns'[n] = conns[n] \ {c}
           /\ \A k \in Keys :
                userConns'[n][k] = IF userConns[n][k] = c THEN None ELSE userConns[n][k]
<1> SUFFICES ASSUME NEW n \in Nodes
             PROVE  /\ conns'[n] = conns[n] \ {c}
                    /\ \A k \in Keys :
                         userConns'[n][k] = IF userConns[n][k] = c THEN None ELSE userConns[n][k]
  OBVIOUS
<1>1. c \in conns[n] => who[c].node = n
  BY DEF Indexed, Listed
<1>2. conns'[n] = conns[n] \ {c}
  BY <1>1 DEF Remove, AccessTypeOK
<1>3. ASSUME NEW k \in Keys
      PROVE  userConns'[n][k] = IF userConns[n][k] = c THEN None ELSE userConns[n][k]
  <2>1. CASE userConns[n][k] = c
    <3>1. c # None /\ k # None
      BY NoneAssumption DEF Keys
    <3>2. c \in conns[n] /\ who[c].key = k /\ who[c].node = n
      BY <1>1, <2>1, <3>1 DEF Indexed, MapsAgree
    <3>3. userConns' = [userConns EXCEPT ![n][k] = None]
      BY <2>1, <3>1, <3>2 DEF Remove, HasUser
    <3> QED
      BY <2>1, <3>3, EntryValue DEF AccessTypeOK
  <2>2. CASE userConns[n][k] # c
    <3>1. CASE userConns' = userConns
      BY <2>2, <3>1
    <3>2. CASE userConns' = [userConns EXCEPT ![who[c].node][who[c].key] = None]
               /\ userConns[who[c].node][who[c].key] = c
      <4>1. ~(n = who[c].node /\ k = who[c].key)
        BY <2>2, <3>2
      <4>2. userConns \in [Nodes -> [Keys -> Conns \cup {None}]]
        BY DEF AccessTypeOK
      <4>3. userConns'[n][k] = IF n = who[c].node /\ k = who[c].key
                                 THEN None ELSE userConns[n][k]
        BY <3>2, <4>2, EntryValue
      <4> QED
        BY <2>2, <4>1, <4>3
    <3> QED
      BY <3>1, <3>2 DEF Remove
  <2> QED
    BY <2>1, <2>2
<1> QED
  BY <1>2, <1>3

\* Binding gives one entry to the connection, if its node still lists it.
LEMMA BindEffect ==
  ASSUME AccessTypeOK, Indexed, NEW c \in Conns, NEW k \in Keys, Bind(c, k)
  PROVE  LET n == who[c].node
         IN  /\ n \in Nodes
             /\ \A d \in Conns : d # c => who'[d] = who[d] /\ st'[d] = st[d] /\ old'[d] = old[d]
             /\ who'[c] = [who[c] EXCEPT !.key = k] /\ who[c] \in Identity
             /\ st[c] = "auth" /\ st'[c] = "kick"
             /\ c \in conns[n] => /\ old'[c] = userConns[n][k]
                                  /\ \A m \in Nodes, l \in Keys :
                                       userConns'[m][l] = IF m = n /\ l = k THEN c
                                                                            ELSE userConns[m][l]
             /\ c \notin conns[n] => UNCHANGED <<old, userConns>>
<1>1. st[c] = "auth" /\ who[c] \in Identity /\ who[c].node \in Nodes
  BY DEF Bind, Indexed, Identified, Identity
<1>2. /\ \A d \in Conns : d # c => who'[d] = who[d] /\ st'[d] = st[d] /\ old'[d] = old[d]
      /\ who'[c] = [who[c] EXCEPT !.key = k]
      /\ st'[c] = "kick"
  BY DEF Bind, BindUser, AccessTypeOK, Goto
<1>3. ASSUME c \in conns[who[c].node]
      PROVE  /\ old'[c] = userConns[who[c].node][k]
             /\ userConns' = [userConns EXCEPT ![who[c].node][k] = c]
  BY <1>3 DEF Bind, BindUser, AccessTypeOK
<1>4. userConns \in [Nodes -> [Keys -> Conns \cup {None}]]
  BY DEF AccessTypeOK
<1>5. ASSUME c \in conns[who[c].node], NEW m \in Nodes, NEW l \in Keys
      PROVE  userConns'[m][l] = IF m = who[c].node /\ l = k THEN c ELSE userConns[m][l]
  BY <1>3, <1>4, <1>5, EntryValue
<1>6. c \notin conns[who[c].node] => UNCHANGED <<old, userConns>>
  BY DEF Bind, BindUser
<1> QED
  BY <1>1, <1>2, <1>3, <1>5, <1>6

LEMMA IndexedInit == AccessInit => Indexed
BY DEF AccessInit, Indexed, Identified, Listed, Unbound, MapsAgree

\* A handler that only moves on, with a user where it needs one, and not before
\* it has closed the connection it takes the place of.
Onward(c) ==
  \/ st'[c] = st[c]
  \/ /\ st[c] # "none" /\ st'[c] \notin {"none", "auth", "kick"}
     /\ st'[c] \in {"register", "serve"} => st[c] \in {"kick", "register", "serve"}
     /\ st'[c] = "unregister" => st[c] \in {"register", "serve"}
     /\ st[c] = "kick" => old[c] \in closed' \cup {None}

LEMMA IndexedOnward ==
  ASSUME AccessTypeOK, Indexed, UNCHANGED <<who, manager>>, \A c \in Conns : Onward(c)
  PROVE  Indexed'
<1>1. Identified'
  BY DEF Indexed, Identified, Onward, manager
<1>2. Listed'
  <2> SUFFICES ASSUME NEW n \in Nodes, NEW c \in conns[n]
               PROVE  st'[c] # "none" /\ who[c].node = n
    BY DEF Listed, manager
  <2> QED
    BY DEF Indexed, Listed, Onward, AccessTypeOK
<1>3. Unbound'
  BY DEF Indexed, Unbound, Onward, manager
<1>4. MapsAgree'
  BY DEF Indexed, MapsAgree, manager
<1> QED
  BY <1>1, <1>2, <1>3, <1>4 DEF Indexed

LEMMA GotoOnward ==
  ASSUME AccessTypeOK, NEW c \in Conns, NEW s, Goto(c, s), st[c] # "none",
         s \notin {"none", "auth", "kick"},
         s \in {"register", "serve"} => st[c] \in {"kick", "register", "serve"},
         s = "unregister" => st[c] \in {"register", "serve"},
         st[c] = "kick" => old[c] \in closed' \cup {None}
  PROVE  \A d \in Conns : Onward(d)
BY DEF Onward, Goto, AccessTypeOK

\* Every step is one of these, as far as the connection table is concerned.
LEMMA AccessCases ==
  ASSUME AccessTypeOK, [AccessNext]_accessVars
  PROVE  /\ closed \subseteq closed'
         /\ \/ \E c \in Conns, n \in Nodes : Accept(c, n)
            \/ \E c \in Conns, k \in Keys : Bind(c, k)
            \/ \E c \in Conns : Remove(c) /\ UNCHANGED <<who, old, nextId>>
                                /\ \A d \in Conns : Onward(d)
            \/ \E n \in Nodes : Restart(n)
            \/ UNCHANGED <<who, old, manager>> /\ \A d \in Conns : Onward(d)
<1>1. ASSUME NEW c \in Conns, Leave(c)
      PROVE  Remove(c) /\ UNCHANGED <<who, old, nextId>> /\ \A d \in Conns : Onward(d)
  BY <1>1, GotoOnward DEF Leave
<1>2. ASSUME NEW n \in Nodes, SweepClose(n)
      PROVE  \E c \in Conns : Remove(c) /\ UNCHANGED <<who, old, nextId>>
                              /\ \A d \in Conns : Onward(d)
  BY <1>2 DEF SweepClose, AccessTypeOK, Onward
<1>3. ASSUME NEW c \in Conns, Reject(c) \/ Kick(c) \/ Register(c) \/ StreamEnds(c) \/ Unregister(c)
      PROVE  UNCHANGED <<who, old, manager>> /\ \A d \in Conns : Onward(d)
  <2>1. UNCHANGED <<who, old, manager>>
    BY <1>3 DEF Reject, Kick, Register, StreamEnds, Unregister
  <2>2. CASE Reject(c)
    BY <2>1, <2>2, GotoOnward DEF Reject
  <2>3. CASE Kick(c)
    <3>1. old[c] \in closed' \cup {None}
      BY <2>3 DEF Kick
    <3> QED
      BY <2>1, <2>3, <3>1, GotoOnward DEF Kick
  <2>4. CASE Register(c)
    BY <2>1, <2>4, GotoOnward DEF Register
  <2>5. CASE StreamEnds(c)
    BY <2>1, <2>5, GotoOnward DEF StreamEnds
  <2>6. CASE Unregister(c)
    BY <2>1, <2>6, GotoOnward DEF Unregister
  <2> QED
    BY <1>3, <2>2, <2>3, <2>4, <2>5, <2>6
<1>4. ASSUME \/ \E n \in Nodes : Sweep(n) \/ SweepUnregister(n)
             \/ \E k \in Keys : Expire(k)
             \/ UNCHANGED accessVars
      PROVE  UNCHANGED <<who, old, manager>> /\ \A d \in Conns : Onward(d)
  BY <1>4 DEF Sweep, SweepUnregister, Expire, accessVars, session, Onward
<1>5. closed \subseteq closed'
  BY DEF AccessNext, AccessStep, Session, Arrive, Authenticate, Finish, Check, Accept, Reject,
         Bind, Kick, Register, StreamEnds, Unregister, Leave, Sweep, SweepUnregister,
         SweepClose, Expire, Restart, accessVars, session
<1> QED
  BY <1>1, <1>2, <1>3, <1>4, <1>5
  DEF AccessNext, AccessStep, Session, Arrive, Authenticate, Finish, Check

LEMMA IndexedNext ==
  ASSUME AccessTypeOK, Indexed, [AccessNext]_accessVars PROVE Indexed'
<1>1. ASSUME NEW c \in Conns, NEW n \in Nodes, Accept(c, n) PROVE Indexed'
  <2>1. /\ \A d \in Conns : d # c => who'[d] = who[d] /\ st'[d] = st[d]
        /\ who'[c] = [node |-> n, id |-> nextId[n], key |-> None]
        /\ st[c] = "none" /\ st'[c] = "auth"
    BY <1>1 DEF Accept, AccessTypeOK, Goto
  <2>2. /\ \A m \in Nodes : conns'[m] = IF m = n THEN conns[m] \cup {c} ELSE conns[m]
        /\ \A m \in Nodes : nextId'[m] = IF m = n THEN nextId[m] + 1 ELSE nextId[m]
        /\ userConns' = userConns
    BY <1>1 DEF Accept, AccessTypeOK
  <2>3. \A m \in Nodes : c \notin conns[m]
    BY <2>1 DEF Indexed, Listed
  <2>4. \A m \in Nodes, k \in Keys : userConns[m][k] # c
    BY <2>3, NoneAssumption DEF Indexed, MapsAgree
  <2>5. Identified'
    <3>1. \A m \in Nodes : nextId'[m] # 0
      BY <2>2 DEF Indexed, Identified, AccessTypeOK
    <3>2. who'[c] \in Identity
      BY <2>1 DEF Indexed, Identified, AccessTypeOK, Identity
    <3> QED
      BY <2>1, <3>1, <3>2 DEF Indexed, Identified
  <2>6. Listed'
    <3> SUFFICES ASSUME NEW m \in Nodes, NEW d \in conns'[m]
                 PROVE  st'[d] # "none" /\ who'[d].node = m
      BY DEF Listed
    <3>1. CASE d = c
      <4>1. m = n
        BY <2>2, <2>3, <3>1
      <4> QED
        BY <2>1, <3>1, <4>1
    <3>2. CASE d # c
      <4>1. d \in conns[m]
        BY <2>2, <3>2
      <4>2. d \in Conns /\ st[d] # "none" /\ who[d].node = m
        BY <4>1 DEF Indexed, Listed, AccessTypeOK
      <4> QED
        BY <2>1, <3>2, <4>2
    <3> QED
      BY <3>1, <3>2
  <2>7. Unbound'
    BY <2>1, <2>2, <2>4 DEF Indexed, Unbound
  <2>8. MapsAgree'
    <3> SUFFICES ASSUME NEW m \in Nodes, NEW k \in Keys, userConns[m][k] # None
                 PROVE  userConns[m][k] \in conns'[m] /\ who'[userConns[m][k]].key = k
      BY <2>2 DEF MapsAgree
    <3>1. userConns[m][k] \in conns[m] /\ who[userConns[m][k]].key = k
      BY DEF Indexed, MapsAgree
    <3>2. userConns[m][k] \in Conns /\ userConns[m][k] # c
      BY <2>4, <3>1 DEF AccessTypeOK
    <3> QED
      BY <2>1, <2>2, <3>1, <3>2
  <2> QED
    BY <2>5, <2>6, <2>7, <2>8 DEF Indexed
<1>2. ASSUME NEW c \in Conns, NEW k \in Keys, Bind(c, k) PROVE Indexed'
  <2> DEFINE n == who[c].node
  <2>1. /\ n \in Nodes
        /\ \A d \in Conns : d # c => who'[d] = who[d] /\ st'[d] = st[d]
        /\ who'[c] = [who[c] EXCEPT !.key = k] /\ who[c] \in Identity
        /\ st[c] = "auth" /\ st'[c] = "kick"
        /\ c \in conns[n] => \A m \in Nodes, l \in Keys :
             userConns'[m][l] = IF m = n /\ l = k THEN c ELSE userConns[m][l]
        /\ c \notin conns[n] => UNCHANGED userConns
    BY <1>2, BindEffect
  <2>2. conns' = conns /\ nextId' = nextId
    BY <1>2 DEF Bind
  <2>3. who'[c] \in Identity /\ who'[c].node = n /\ who'[c].key = k /\ k # None
    BY <2>1, NoneAssumption DEF Identity, Keys
  <2>4. Identified'
    BY <2>1, <2>2, <2>3 DEF Indexed, Identified
  <2>5. Listed'
    <3> SUFFICES ASSUME NEW m \in Nodes, NEW d \in conns[m]
                 PROVE  st'[d] # "none" /\ who'[d].node = m
      BY <2>2 DEF Listed
    <3>1. d \in Conns /\ st[d] # "none" /\ who[d].node = m
      BY DEF Indexed, Listed, AccessTypeOK
    <3> QED
      BY <2>1, <2>3, <3>1
  <2>6. Unbound'
    BY <2>1 DEF Indexed, Unbound
  <2>7. MapsAgree'
    <3> SUFFICES ASSUME NEW m \in Nodes, NEW l \in Keys, userConns'[m][l] # None
                 PROVE  userConns'[m][l] \in conns[m] /\ who'[userConns'[m][l]].key = l
      BY <2>2 DEF MapsAgree
    <3>1. CASE c \in conns[n] /\ m = n /\ l = k
      BY <2>1, <2>3, <3>1
    <3>2. CASE ~(c \in conns[n] /\ m = n /\ l = k)
      <4>1. userConns'[m][l] = userConns[m][l]
        BY <2>1, <3>2
      <4>2. userConns[m][l] \in conns[m] /\ who[userConns[m][l]].key = l
        BY <4>1 DEF Indexed, MapsAgree
      <4>3. userConns[m][l] # c /\ userConns[m][l] \in Conns
        BY <2>1, <4>2 DEF Indexed, Unbound, AccessTypeOK
      <4> QED
        BY <2>1, <4>1, <4>2, <4>3
    <3> QED
      BY <3>1, <3>2
  <2> QED
    BY <2>4, <2>5, <2>6, <2>7 DEF Indexed
<1>3. ASSUME NEW c \in Conns, Remove(c), UNCHANGED <<who, nextId>>, \A d \in Conns : Onward(d)
      PROVE  Indexed'
  <2>1. \A n \in Nodes :
          /\ conns'[n] = conns[n] \ {c}
          /\ \A k \in Keys :
               userConns'[n][k] = IF userConns[n][k] = c THEN None ELSE userConns[n][k]
    BY <1>3, RemoveEffect
  <2>2. Identified'
    BY <1>3 DEF Indexed, Identified, Onward
  <2>3. Listed'
    BY <1>3, <2>1 DEF Indexed, Listed, Onward, AccessTypeOK
  <2>4. Unbound'
    BY <1>3, <2>1, NoneAssumption DEF Indexed, Unbound, Onward
  <2>5. MapsAgree'
    BY <1>3, <2>1 DEF Indexed, MapsAgree
  <2> QED
    BY <2>2, <2>3, <2>4, <2>5 DEF Indexed
<1>4. ASSUME NEW n \in Nodes, Restart(n) PROVE Indexed'
  <2>1. /\ \A c \in Conns : st'[c] = IF who[c] # None /\ who[c].node = n THEN "gone" ELSE st[c]
        /\ \A m \in Nodes : conns'[m] = IF m = n THEN {} ELSE conns[m]
        /\ \A m \in Nodes : nextId'[m] = IF m = n THEN 1 ELSE nextId[m]
        /\ \A m \in Nodes, k \in Keys : userConns'[m][k] = IF m = n THEN None ELSE userConns[m][k]
        /\ who' = who
    BY <1>4 DEF Restart, AccessTypeOK
  <2>2. Identified'
    BY <2>1 DEF Indexed, Identified, AccessTypeOK
  <2>3. Listed'
    BY <2>1 DEF Indexed, Listed, AccessTypeOK
  <2>4. Unbound'
    BY <2>1, NoneAssumption DEF Indexed, Unbound
  <2>5. MapsAgree'
    BY <2>1 DEF Indexed, MapsAgree
  <2> QED
    BY <2>2, <2>3, <2>4, <2>5 DEF Indexed
<1> QED
  BY <1>1, <1>2, <1>3, <1>4, IndexedOnward, AccessCases

\* The types are kept, together with what makes them hold: a handler that has begun
\* knows its node.
THEOREM AccessTyped == AccessSpec => []AccessTypeOK
<1>1. AccessInit => AccessTypeOK /\ Indexed
  BY AccessTypeInit, IndexedInit
<1>2. AccessTypeOK /\ Indexed /\ [AccessNext]_accessVars => AccessTypeOK' /\ Indexed'
  BY AccessTypeNext, IndexedNext DEF Indexed
<1> QED
  BY <1>1, <1>2, PTL DEF AccessSpec, AccessSafety

\* In whatever order binding, the defer's removal and the checker's removal of the
\* old and the new connection come, an entry names a listed connection of its user.
THEOREM AccessMapsAgree == AccessSpec => []MapsAgree
<1>1. AccessInit => AccessTypeOK /\ Indexed
  BY AccessTypeInit, IndexedInit
<1>2. AccessTypeOK /\ Indexed /\ [AccessNext]_accessVars => AccessTypeOK' /\ Indexed'
  BY AccessTypeNext, IndexedNext DEF Indexed
<1> QED
  BY <1>1, <1>2, PTL DEF AccessSpec, AccessSafety, Indexed

-----------------------------------------------------------------------------
(* Who is found *)

LEMMA OldInit == AccessInit => OldIsLocal /\ BoundIsFound
BY DEF AccessInit, OldIsLocal, BoundIsFound

LEMMA OldNext ==
  ASSUME AccessTypeOK, Indexed, OldIsLocal, [AccessNext]_accessVars PROVE OldIsLocal'
<1>1. ASSUME NEW c \in Conns, NEW n \in Nodes, Accept(c, n) PROVE OldIsLocal'
  <2>1. /\ \A d \in Conns : d # c => who'[d] = who[d] /\ st'[d] = st[d]
        /\ st[c] = "none" /\ st'[c] = "auth" /\ old' = old
    BY <1>1 DEF Accept, AccessTypeOK, Goto
  <2> QED
    BY <2>1 DEF OldIsLocal, AccessTypeOK
<1>2. ASSUME NEW c \in Conns, NEW k \in Keys, Bind(c, k) PROVE OldIsLocal'
  <2> DEFINE n == who[c].node
  <2>1. /\ n \in Nodes
        /\ \A d \in Conns : d # c => who'[d] = who[d] /\ st'[d] = st[d] /\ old'[d] = old[d]
        /\ who'[c] = [who[c] EXCEPT !.key = k] /\ who[c] \in Identity
        /\ st[c] = "auth" /\ st'[c] = "kick"
        /\ c \in conns[n] => old'[c] = userConns[n][k]
        /\ c \notin conns[n] => UNCHANGED old
    BY <1>2, BindEffect
  <2>2. \A d \in Conns : who'[d].node = who[d].node
    <3>1. who'[c].node = who[c].node
      BY <2>1 DEF Identity
    <3> QED
      BY <2>1, <3>1
  <2>3. ASSUME old'[c] # None PROVE st'[old'[c]] # "none" /\ who'[old'[c]].node = n
    <3>1. c \in conns[n] /\ old'[c] = userConns[n][k]
      BY <2>1, <2>3 DEF OldIsLocal
    <3>2. old'[c] \in conns[n]
      BY <2>1, <2>3, <3>1 DEF Indexed, MapsAgree
    <3>3. old'[c] \in Conns /\ st[old'[c]] # "none" /\ who[old'[c]].node = n
      BY <2>1, <3>2 DEF Indexed, Listed, AccessTypeOK
    <3> QED
      BY <2>1, <2>2, <3>3
  <2>4. ASSUME NEW d \in Conns, d # c, st'[d] = "kick", old'[d] # None
        PROVE  st'[old'[d]] # "none" /\ who'[old'[d]].node = who'[d].node
    <3>1. /\ st[old[d]] # "none" /\ who[old[d]].node = who[d].node
          /\ old'[d] = old[d] /\ old[d] \in Conns
      BY <2>1, <2>4 DEF OldIsLocal, AccessTypeOK
    <3> QED
      BY <2>1, <2>2, <3>1
  <2>5. \A d \in Conns : st'[d] \in {"none", "auth"} => old'[d] = None
    BY <2>1 DEF OldIsLocal
  <2> QED
    BY <2>2, <2>3, <2>4, <2>5 DEF OldIsLocal
<1>3. ASSUME UNCHANGED <<who, old>>, \A d \in Conns : Onward(d) PROVE OldIsLocal'
  BY <1>3 DEF OldIsLocal, Onward, AccessTypeOK
<1>4. ASSUME NEW n \in Nodes, Restart(n) PROVE OldIsLocal'
  BY <1>4 DEF Restart, OldIsLocal, AccessTypeOK
<1> QED
  BY <1>1, <1>2, <1>3, <1>4, AccessCases DEF manager

LEMMA BoundNext ==
  ASSUME AccessTypeOK, Indexed, OldIsLocal, BoundIsFound, [AccessNext]_accessVars
  PROVE  BoundIsFound'
<1> DEFINE Early(x) == st[x] \in {"kick", "register", "serve"}
           Kicked(x) == \E d \in Conns : st[d] = "kick" /\ old[d] = x
<1> SUFFICES ASSUME NEW x \in Conns, Early(x)', x \notin closed', x \in conns'[who'[x].node]
             PROVE  userConns'[who'[x].node][who'[x].key] = x \/ Kicked(x)'
  BY DEF BoundIsFound
<1> DEFINE m == who[x].node
           l == who[x].key
<1>0. x \notin closed
  BY AccessCases
<1>1. ASSUME NEW c \in Conns, NEW n \in Nodes, Accept(c, n)
      PROVE  userConns'[who'[x].node][who'[x].key] = x \/ Kicked(x)'
  <2>1. /\ \A d \in Conns : d # c => who'[d] = who[d] /\ st'[d] = st[d]
        /\ st[c] = "none" /\ st'[c] = "auth" /\ old' = old /\ userConns' = userConns
    BY <1>1 DEF Accept, AccessTypeOK, Goto
  <2>2. x # c /\ Early(x) /\ who'[x] = who[x]
    BY <2>1
  <2>3. x \in conns[m]
    BY <1>1, <2>2 DEF Accept, AccessTypeOK
  <2>4. userConns[m][l] = x \/ Kicked(x)
    BY <1>0, <2>2, <2>3 DEF BoundIsFound
  <2> QED
    BY <2>1, <2>2, <2>4
<1>2. ASSUME NEW c \in Conns, NEW k \in Keys, Bind(c, k)
      PROVE  userConns'[who'[x].node][who'[x].key] = x \/ Kicked(x)'
  <2> DEFINE n == who[c].node
  <2>1. /\ n \in Nodes
        /\ \A d \in Conns : d # c => who'[d] = who[d] /\ st'[d] = st[d] /\ old'[d] = old[d]
        /\ who'[c] = [who[c] EXCEPT !.key = k] /\ who[c] \in Identity
        /\ st[c] = "auth" /\ st'[c] = "kick"
        /\ c \in conns[n] => /\ old'[c] = userConns[n][k]
                             /\ \A i \in Nodes, j \in Keys :
                                  userConns'[i][j] = IF i = n /\ j = k THEN c
                                                                       ELSE userConns[i][j]
        /\ c \notin conns[n] => UNCHANGED <<old, userConns>>
    BY <1>2, BindEffect
  <2>2. conns' = conns
    BY <1>2 DEF Bind
  <2>3. CASE x = c
    <3>1. who'[x].node = n /\ who'[x].key = k
      BY <2>1, <2>3 DEF Identity
    <3>2. c \in conns[n]
      BY <2>2, <2>3, <3>1
    <3> QED
      BY <2>1, <2>3, <3>1, <3>2
  <2>4. CASE x # c
    <3>1. Early(x) /\ who'[x] = who[x] /\ x \in conns[m]
      BY <2>1, <2>2, <2>4
    <3>2. CASE Kicked(x)
      BY <2>1, <3>2
    <3>3. CASE userConns[m][l] = x
      <4>1. m \in Nodes /\ l \in Keys
        BY <3>1 DEF Indexed, Identified, Identity
      <4>2. CASE c \in conns[n] /\ m = n /\ l = k
        BY <2>1, <3>3, <4>2
      <4>3. CASE ~(c \in conns[n] /\ m = n /\ l = k)
        BY <2>1, <3>1, <3>3, <4>1, <4>3
      <4> QED
        BY <4>2, <4>3
    <3> QED
      BY <1>0, <3>1, <3>2, <3>3 DEF BoundIsFound
  <2> QED
    BY <2>3, <2>4
<1>3. ASSUME UNCHANGED <<who, old>>, \A d \in Conns : Onward(d),
             x \in conns[m],
             userConns[m][l] = x => userConns'[m][l] = x
      PROVE  userConns'[who'[x].node][who'[x].key] = x \/ Kicked(x)'
  <2>1. Early(x)
    BY <1>3 DEF Onward
  <2>2. ASSUME NEW d \in Conns, st[d] = "kick", old[d] = x PROVE st'[d] = "kick"
    BY <1>3, <2>2, NoneAssumption DEF Onward
  <2>3. userConns[m][l] = x \/ Kicked(x)
    BY <1>0, <1>3, <2>1 DEF BoundIsFound
  <2> QED
    BY <1>3, <2>2, <2>3
<1>4. ASSUME NEW c \in Conns, Remove(c), UNCHANGED <<who, old, nextId>>,
             \A d \in Conns : Onward(d)
      PROVE  userConns'[who'[x].node][who'[x].key] = x \/ Kicked(x)'
  <2>1. \A n \in Nodes :
          /\ conns'[n] = conns[n] \ {c}
          /\ \A k \in Keys :
               userConns'[n][k] = IF userConns[n][k] = c THEN None ELSE userConns[n][k]
    BY <1>4, RemoveEffect
  <2>2. m \in Nodes /\ l \in Keys
    BY <1>4 DEF Onward, Indexed, Identified, Identity
  <2>3. x # c /\ x \in conns[m]
    BY <1>4, <2>1, <2>2
  <2> QED
    BY <1>3, <1>4, <2>1, <2>2, <2>3
<1>5. ASSUME NEW n \in Nodes, Restart(n)
      PROVE  userConns'[who'[x].node][who'[x].key] = x \/ Kicked(x)'
  <2>1. /\ \A c \in Conns : st'[c] = IF who[c] # None /\ who[c].node = n THEN "gone" ELSE st[c]
        /\ \A i \in Nodes : conns'[i] = IF i = n THEN {} ELSE conns[i]
        /\ \A i \in Nodes : i # n => userConns'[i] = userConns[i]
        /\ who' = who /\ old' = old
    BY <1>5 DEF Restart, AccessTypeOK
  <2>2. Early(x) /\ m \in Nodes
    BY <2>1 DEF Indexed, Identified, Identity
  <2>3. m # n /\ x \in conns[m] /\ userConns'[m] = userConns[m]
    BY <2>1, <2>2
  <2>4. ASSUME NEW d \in Conns, st[d] = "kick", old[d] = x PROVE st'[d] = "kick"
    BY <2>1, <2>3, <2>4, NoneAssumption DEF OldIsLocal
  <2>5. userConns[m][l] = x \/ Kicked(x)
    BY <1>0, <2>2, <2>3 DEF BoundIsFound
  <2> QED
    BY <2>1, <2>3, <2>4, <2>5
<1>6. ASSUME UNCHANGED <<who, old, manager>>, \A d \in Conns : Onward(d)
      PROVE  userConns'[who'[x].node][who'[x].key] = x \/ Kicked(x)'
  BY <1>3, <1>6 DEF manager
<1> QED
  BY <1>1, <1>2, <1>4, <1>5, <1>6, AccessCases

\* A served connection is the one downstream pushes find, unless one that takes its
\* place is about to close it.
THEOREM AccessOpenIsFound == AccessSpec => []OpenIsFound
<1>1. AccessInit => AccessTypeOK /\ Indexed /\ OldIsLocal /\ BoundIsFound
  BY AccessTypeInit, IndexedInit, OldInit
<1>2. AccessTypeOK /\ Indexed /\ OldIsLocal /\ BoundIsFound /\ [AccessNext]_accessVars =>
        AccessTypeOK' /\ Indexed' /\ OldIsLocal' /\ BoundIsFound'
  BY AccessTypeNext, IndexedNext, OldNext, BoundNext DEF Indexed
<1>3. BoundIsFound => OpenIsFound
  BY DEF BoundIsFound, OpenIsFound, Open
<1> QED
  BY <1>1, <1>2, <1>3, PTL DEF AccessSpec, AccessSafety

-----------------------------------------------------------------------------
(* Locations *)

\* A step leaves a location as it is, deletes it or has its owner write it.
LEMMA LocationStep ==
  ASSUME AccessTypeOK, [AccessNext]_accessVars
  PROVE  \/ \E n \in Nodes : Restart(n)
         \/ /\ restarts' = restarts
            /\ \A k \in Keys :
                 \/ location'[k] \in {location[k], None}
                 \/ \E c \in Conns : /\ st[c] = "register" /\ who[c].key = k
                                     /\ location'[k] = AddressOf(c)
<1>1. ASSUME NEW c \in Conns, Register(c), NEW k \in Keys
      PROVE  \/ location'[k] = location[k]
             \/ st[c] = "register" /\ who[c].key = k /\ location'[k] = AddressOf(c)
  BY <1>1 DEF Register, RegisterUserLocation, AccessTypeOK
<1>2. ASSUME NEW c \in Conns, UnregisterUserLocation(c), NEW k \in Keys
      PROVE  location'[k] \in {location[k], None}
  BY <1>2 DEF UnregisterUserLocation, AccessTypeOK
<1>3. ASSUME NEW c \in Conns, Session(c)
      PROVE  /\ restarts' = restarts
             /\ location' = location \/ UnregisterUserLocation(c) \/ Register(c)
  BY <1>3 DEF Session, Arrive, Authenticate, Finish, Accept, Reject, Bind, Kick, Register,
              StreamEnds, Unregister, Leave
<1>4. ASSUME NEW n \in Nodes, Check(n)
      PROVE  /\ restarts' = restarts
             /\ location' = location \/ \E c \in Conns : UnregisterUserLocation(c)
  BY <1>4 DEF Check, Sweep, SweepUnregister, SweepClose, AccessTypeOK
<1>5. ASSUME NEW l \in Keys, Expire(l)
      PROVE  restarts' = restarts /\ \A k \in Keys : location'[k] \in {location[k], None}
  BY <1>5 DEF Expire, AccessTypeOK
<1>6. CASE UNCHANGED accessVars
  BY <1>6 DEF accessVars
<1> QED
  BY <1>1, <1>2, <1>3, <1>4, <1>5, <1>6 DEF AccessNext, AccessStep

LEMMA NumberedNext ==
  ASSUME AccessTypeOK, Indexed, Numbered, [AccessNext]_accessVars PROVE Numbered'
<1> SUFFICES ASSUME restarts' = 0 PROVE Numbered'
  BY DEF Numbered
<1>1. restarts = 0 /\ \A n \in Nodes : ~Restart(n)
  BY LocationStep DEF Restart, AccessTypeOK
<1>2. IdsBelow /\ IdsApart /\ LocationsOwned
  BY <1>1 DEF Numbered
\* A bound connection stays the connection it is.
<1>3. ASSUME NEW c \in Conns, st[c] \notin {"none", "auth"}
      PROVE  st'[c] \notin {"none", "auth"} /\ who'[c] = who[c]
  <2>1. ASSUME NEW d \in Conns, NEW n \in Nodes, Accept(d, n)
        PROVE  st'[c] \notin {"none", "auth"} /\ who'[c] = who[c]
    BY <1>3, <2>1 DEF Accept, Goto, AccessTypeOK
  <2>2. ASSUME NEW d \in Conns, NEW k \in Keys, Bind(d, k)
        PROVE  st'[c] \notin {"none", "auth"} /\ who'[c] = who[c]
    BY <1>3, <2>2 DEF Bind, Goto, AccessTypeOK
  <2>3. ASSUME who' = who, \A d \in Conns : Onward(d)
        PROVE  st'[c] \notin {"none", "auth"} /\ who'[c] = who[c]
    BY <1>3, <2>3 DEF Onward
  <2> QED
    BY <1>1, <2>1, <2>2, <2>3, AccessCases
<1>4. LocationsOwned'
  <2> SUFFICES ASSUME NEW k \in Keys, location'[k] # None
               PROVE  \E c \in Conns : /\ st'[c] \notin {"none", "auth"}
                                       /\ location'[k] = AddressOf(c)' /\ who'[c].key = k
    BY DEF LocationsOwned
  <2>1. PICK c \in Conns : /\ st[c] \notin {"none", "auth"}
                           /\ location'[k] = AddressOf(c) /\ who[c].key = k
    BY <1>1, <1>2, LocationStep DEF LocationsOwned
  <2> QED
    BY <1>3, <2>1 DEF AddressOf
<1>5. IdsBelow' /\ IdsApart'
  <2>1. ASSUME NEW x \in Conns, NEW n \in Nodes, Accept(x, n) PROVE IdsBelow' /\ IdsApart'
    <3>1. /\ \A d \in Conns : d # x => who'[d] = who[d] /\ st'[d] = st[d]
          /\ who'[x].node = n /\ who'[x].id = nextId[n] /\ st'[x] = "auth"
          /\ \A m \in Nodes : nextId'[m] = IF m = n THEN nextId[m] + 1 ELSE nextId[m]
      BY <2>1 DEF Accept, AccessTypeOK, Goto
    <3>2. ASSUME NEW c \in Conns, c # x, st'[c] # "none"
          PROVE  /\ st[c] # "none" /\ who'[c] = who[c]
                 /\ who[c].node \in Nodes /\ who[c].id \in Nat
                 /\ who[c].id < nextId[who[c].node]
      BY <1>2, <3>1, <3>2 DEF IdsBelow, Indexed, Identified, Identity
    <3>3. \A m \in Nodes : nextId[m] \in Nat
      BY DEF AccessTypeOK
    <3>4. ASSUME NEW c \in Conns, st'[c] # "none" PROVE who'[c].id < nextId'[who'[c].node]
      <4>1. CASE c = x
        BY <3>1, <3>3, <4>1
      <4>2. CASE c # x
        <5>1. /\ who'[c] = who[c] /\ who[c].node \in Nodes /\ who[c].id \in Nat
              /\ who[c].id < nextId[who[c].node]
          BY <3>2, <3>4, <4>2
        <5>2. nextId'[who[c].node] \in {nextId[who[c].node], nextId[who[c].node] + 1}
          BY <3>1, <5>1
        <5> QED
          BY <3>3, <5>1, <5>2
      <4> QED
        BY <4>1, <4>2
    <3>5. ASSUME NEW c \in Conns, c # x, st'[c] # "none", who'[c].node = n
          PROVE  who'[c].id # nextId[n]
      BY <3>2, <3>3, <3>5
    <3>6. ASSUME NEW c \in Conns, NEW d \in Conns, st'[c] # "none", st'[d] # "none",
                 who'[c].node = who'[d].node, who'[c].id = who'[d].id
          PROVE  c = d
      <4>1. CASE c # x /\ d # x
        BY <1>2, <3>2, <3>6, <4>1 DEF IdsApart
      <4>2. CASE c = x \/ d = x
        BY <3>1, <3>5, <3>6, <4>2
      <4> QED
        BY <4>1, <4>2
    <3> QED
      BY <3>4, <3>6 DEF IdsBelow, IdsApart
  <2>2. ASSUME UNCHANGED nextId,
               \A c \in Conns : st'[c] # "none" =>
                 st[c] # "none" /\ who'[c].node = who[c].node /\ who'[c].id = who[c].id
        PROVE  IdsBelow' /\ IdsApart'
    BY <1>2, <2>2 DEF IdsBelow, IdsApart
  <2>3. ASSUME NEW x \in Conns, NEW k \in Keys, Bind(x, k) PROVE IdsBelow' /\ IdsApart'
    <3>1. /\ \A d \in Conns : d # x => who'[d] = who[d] /\ st'[d] = st[d]
          /\ who'[x] = [who[x] EXCEPT !.key = k] /\ who[x] \in Identity /\ st[x] = "auth"
      BY <2>3, BindEffect
    <3>2. who'[x].node = who[x].node /\ who'[x].id = who[x].id
      BY <3>1 DEF Identity
    <3>3. nextId' = nextId
      BY <2>3 DEF Bind
    <3> QED
      BY <2>2, <3>1, <3>2, <3>3
  <2>4. ASSUME UNCHANGED <<who, nextId>>, \A d \in Conns : Onward(d) PROVE IdsBelow' /\ IdsApart'
    BY <2>2, <2>4 DEF Onward
  <2> QED
    BY <1>1, <2>1, <2>3, <2>4, AccessCases DEF manager
<1> QED
  BY <1>4, <1>5 DEF Numbered

\* Until a node starts to number its connections anew, Redis files no user under a
\* connection of someone else.
THEOREM AccessLocationNamesOwner == AccessSpec => []LocationNamesOwner
<1>1. AccessInit => AccessTypeOK /\ Indexed /\ Numbered
  <2>1. AccessInit => Numbered
    BY DEF AccessInit, Numbered, IdsBelow, IdsApart, LocationsOwned
  <2> QED
    BY <2>1, AccessTypeInit, IndexedInit
<1>2. AccessTypeOK /\ Indexed /\ Numbered /\ [AccessNext]_accessVars =>
        AccessTypeOK' /\ Indexed' /\ Numbered'
  BY AccessTypeNext, IndexedNext, NumberedNext DEF Indexed
<1>3. AccessTypeOK /\ Indexed /\ Numbered => LocationNamesOwner
  <2> SUFFICES ASSUME AccessTypeOK, Indexed, Numbered, restarts = 0, NEW k \in Keys,
                      NEW c \in Conns, location[k] # None, c \in conns[location[k].node],
                      who[c].id = location[k].id
               PROVE  who[c].key = k
    BY DEF LocationNamesOwner
  <2>1. PICK d \in Conns : /\ st[d] \notin {"none", "auth"}
                           /\ location[k] = AddressOf(d) /\ who[d].key = k
    BY DEF Numbered, LocationsOwned
  <2>2. /\ who[d] \in Identity /\ location[k].node = who[d].node
        /\ location[k].id = who[d].id /\ who[d].node \in Nodes
    BY <2>1 DEF Indexed, Identified, Identity, AddressOf
  <2>3. st[c] # "none" /\ who[c].node = who[d].node
    BY <2>2 DEF Indexed, Listed
  <2> QED
    BY <2>1, <2>2, <2>3 DEF Numbered, IdsApart
<1> QED
  BY <1>1, <1>2, <1>3, PTL DEF AccessSpec, AccessSafety

-----------------------------------------------------------------------------

Looked == [user : Users, found : SUBSET Location]

PresenceTyping ==
  /\ cache \in [Logics -> [Users -> SUBSET Location]]
  /\ lookups \in [Logics -> SUBSET Looked]
  /\ pushes \in SUBSET Push

\* The address is that of a connection the user has bound, open or long gone.
Owned(n, i, u) ==
  \E c \in Conns : /\ st[c] \notin {"none", "auth"}
                   /\ who[c].node = n /\ who[c].id = i
                   /\ who[c].key # None /\ who[c].key[1] = u

\* The places a logic node keeps addresses in, and the ones on their way.
CacheOwned == \A l \in Logics, u \in Users : \A d \in cache[l][u] : Owned(d.node, d.id, u)
LookupsOwned == \A l \in Logics : \A q \in lookups[l] : \A d \in q.found : Owned(d.node, d.id, q.user)
PushesOwned == \A p \in pushes : Owned(p.node, p.id, p.user)

AllOwned == restarts = 0 => CacheOwned /\ LookupsOwned /\ PushesOwned

PresenceInv == AccessTypeOK /\ Indexed /\ Numbered /\ PresenceTyping /\ AllOwned

LEMMA PresenceInitInv == PresenceInit => PresenceInv
<1> SUFFICES ASSUME PresenceInit PROVE PresenceInv
  OBVIOUS
<1>1. AccessTypeOK /\ Indexed
  BY AccessTypeInit, IndexedInit DEF PresenceInit
<1>2. Numbered
  BY DEF PresenceInit, AccessInit, Numbered, IdsBelow, IdsApart, LocationsOwned
<1>3. PresenceTyping
  BY DEF PresenceInit, PresenceTyping
<1>4. AllOwned
  BY DEF PresenceInit, AllOwned, CacheOwned, LookupsOwned, PushesOwned
<1> QED
  BY <1>1, <1>2, <1>3, <1>4 DEF PresenceInv

\* What Redis has under the keys of a user.
LEMMA RedisType ==
  ASSUME AccessTypeOK, NEW u \in Users PROVE InRedis(u) \subseteq Location
<1> SUFFICES ASSUME NEW p \in Platforms, location[<<u, p>>] # None
             PROVE  [platform |-> p, node |-> location[<<u, p>>].node,
                     id |-> location[<<u, p>>].id] \in Location
  BY DEF InRedis
<1>1. location[<<u, p>>] \in Address
  BY DEF AccessTypeOK, Keys
<1> QED
  BY <1>1 DEF Address, Location

LEMMA RedisOwned ==
  ASSUME AccessTypeOK, Numbered, restarts = 0, NEW u \in Users, NEW d \in InRedis(u)
  PROVE  Owned(d.node, d.id, u)
<1>1. PICK p \in Platforms :
        /\ location[<<u, p>>] # None
        /\ d = [platform |-> p, node |-> location[<<u, p>>].node, id |-> location[<<u, p>>].id]
  BY DEF InRedis
<1>2. d.node = location[<<u, p>>].node /\ d.id = location[<<u, p>>].id
  BY <1>1
<1>3. <<u, p>> \in Keys
  BY DEF Keys
<1>4. PICK c \in Conns : /\ st[c] \notin {"none", "auth"}
                         /\ location[<<u, p>>] = AddressOf(c) /\ who[c].key = <<u, p>>
  BY <1>1, <1>3 DEF Numbered, LocationsOwned
<1>5. who[c].node = d.node /\ who[c].id = d.id
  BY <1>2, <1>4 DEF AddressOf
<1>6. who[c].key # None
  BY <1>3, <1>4, NoneAssumption DEF Keys
<1> QED
  BY <1>4, <1>5, <1>6 DEF Owned

\* Messages to known locations are pushes, and go to their owner.
LEMMA PushesToType ==
  ASSUME NEW u \in Users, NEW found \in SUBSET Location PROVE PushesTo(u, found) \subseteq Push
BY DEF PushesTo, Push, Location

LEMMA PushesToOwned ==
  ASSUME NEW u \in Users, NEW found \in SUBSET Location,
         \A d \in found : Owned(d.node, d.id, u), NEW p \in PushesTo(u, found)
  PROVE  Owned(p.node, p.id, p.user)
<1>1. PICK d \in found : p = [user |-> u, node |-> d.node, id |-> d.id]
  BY DEF PushesTo
<1> QED
  BY <1>1

\* A connection that has bound its session stays the connection it is.
LEMMA BoundStays ==
  ASSUME AccessTypeOK, [AccessNext]_accessVars, \A n \in Nodes : ~Restart(n),
         NEW c \in Conns, st[c] \notin {"none", "auth"}
  PROVE  st'[c] \notin {"none", "auth"} /\ who'[c] = who[c]
<1>1. ASSUME NEW d \in Conns, NEW n \in Nodes, Accept(d, n)
      PROVE  st'[c] \notin {"none", "auth"} /\ who'[c] = who[c]
  BY <1>1 DEF Accept, Goto, AccessTypeOK
<1>2. ASSUME NEW d \in Conns, NEW k \in Keys, Bind(d, k)
      PROVE  st'[c] \notin {"none", "auth"} /\ who'[c] = who[c]
  BY <1>2 DEF Bind, Goto, AccessTypeOK
<1>3. ASSUME who' = who, \A d \in Conns : Onward(d)
      PROVE  st'[c] \notin {"none", "auth"} /\ who'[c] = who[c]
  BY <1>3 DEF Onward
<1> QED
  BY <1>1, <1>2, <1>3, AccessCases

\* So an address keeps its owner, and what a node has kept keeps being owned.
LEMMA OwnedStays ==
  ASSUME AccessTypeOK, [AccessNext]_accessVars, \A n \in Nodes : ~Restart(n),
         NEW n, NEW i, NEW u, Owned(n, i, u)
  PROVE  Owned(n, i, u)'
<1>1. PICK c \in Conns : /\ st[c] \notin {"none", "auth"}
                         /\ who[c].node = n /\ who[c].id = i
                         /\ who[c].key # None /\ who[c].key[1] = u
  BY DEF Owned
<1>2. st'[c] \notin {"none", "auth"} /\ who'[c] = who[c]
  BY <1>1, BoundStays
<1> QED
  BY <1>1, <1>2 DEF Owned

\* After a restart nothing is promised.
LEMMA RestartNotFirst ==
  ASSUME PresenceInv, NEW n \in Nodes, Restart(n) PROVE AllOwned'
<1>1. restarts' = restarts + 1
  BY DEF Restart
<1>2. restarts \in Nat
  BY RestartsAssumption DEF PresenceInv, AccessTypeOK
<1>3. restarts' # 0
  BY <1>1, <1>2
<1> QED
  BY <1>3 DEF AllOwned

\* A step of the access nodes, with addresses in the logic nodes as they are.
LEMMA AccessStepOwned ==
  ASSUME PresenceInv, AccessStep, UNCHANGED logic PROVE PresenceTyping' /\ AllOwned'
<1>1. [AccessNext]_accessVars
  BY DEF AccessNext
<1>2. PresenceTyping'
  BY DEF PresenceInv, PresenceTyping, logic
<1>3. CASE \E n \in Nodes : Restart(n)
  BY <1>2, <1>3, RestartNotFirst
<1>4. CASE \A n \in Nodes : ~Restart(n)
  <2>1. restarts' = restarts
    BY <1>1, <1>4, LocationStep DEF PresenceInv
  <2>2. cache' = cache /\ lookups' = lookups /\ pushes' = pushes
    BY DEF logic
  <2>3. \A n, i, u : Owned(n, i, u) => Owned(n, i, u)'
    BY <1>1, <1>4, OwnedStays DEF PresenceInv
  <2>4. ASSUME restarts = 0 PROVE CacheOwned' /\ LookupsOwned' /\ PushesOwned'
    <3>1. CacheOwned /\ LookupsOwned /\ PushesOwned
      BY <2>4 DEF PresenceInv, AllOwned
    <3>2. CacheOwned'
      BY <2>2, <2>3, <3>1 DEF CacheOwned
    <3>3. LookupsOwned'
      BY <2>2, <2>3, <3>1 DEF LookupsOwned
    <3>4. PushesOwned'
      BY <2>2, <2>3, <3>1 DEF PushesOwned
    <3> QED
      BY <3>2, <3>3, <3>4
  <2>5. restarts' = 0 => restarts = 0
    BY <2>1
  <2> QED
    BY <1>2, <2>4, <2>5 DEF AllOwned
<1> QED
  BY <1>2, <1>3, <1>4

\* A node stores the answer of Redis and dispatches to it.
LEMMA RouteStoreOwned ==
  ASSUME PresenceInv, NEW l \in Logics, RouteStore(l) PROVE PresenceTyping' /\ AllOwned'
<1>1. PICK q \in lookups[l] :
        /\ lookups' = [lookups EXCEPT ![l] = @ \ {q}]
        /\ cache' = IF q.found = {} THEN cache ELSE [cache EXCEPT ![l][q.user] = q.found]
        /\ pushes' = pushes \cup PushesTo(q.user, q.found)
        /\ UNCHANGED accessVars
  BY DEF RouteStore
<1>2. q \in Looked /\ q.user \in Users /\ q.found \in SUBSET Location
  BY <1>1 DEF PresenceInv, PresenceTyping, Looked
<1>3. PushesTo(q.user, q.found) \subseteq Push
  BY <1>2, PushesToType
<1>4. cache' \in [Logics -> [Users -> SUBSET Location]]
  BY <1>1, <1>2, EntryType DEF PresenceInv, PresenceTyping
<1>5. PresenceTyping'
  BY <1>1, <1>3, <1>4 DEF PresenceInv, PresenceTyping
<1>6. restarts' = restarts /\ \A n, i, u : Owned(n, i, u)' <=> Owned(n, i, u)
  BY <1>1 DEF accessVars, session, Owned
<1>7. ASSUME restarts = 0 PROVE CacheOwned' /\ LookupsOwned' /\ PushesOwned'
  <2>1. CacheOwned /\ LookupsOwned /\ PushesOwned
    BY <1>7 DEF PresenceInv, AllOwned
  <2>2. \A d \in q.found : Owned(d.node, d.id, q.user)
    BY <1>1, <2>1 DEF LookupsOwned
  <2>3. CacheOwned'
    <3>1. ASSUME NEW k \in Logics, NEW u \in Users
          PROVE  cache'[k][u] = cache[k][u] \/ (u = q.user /\ cache'[k][u] = q.found)
      BY <1>1, <1>2, EntryValue DEF PresenceInv, PresenceTyping
    <3> QED
      BY <1>6, <2>1, <2>2, <3>1 DEF CacheOwned
  <2>4. LookupsOwned'
    <3>1. \A k \in Logics : lookups'[k] \subseteq lookups[k]
      BY <1>1 DEF PresenceInv, PresenceTyping
    <3> QED
      BY <1>6, <2>1, <3>1 DEF LookupsOwned
  <2>5. PushesOwned'
    <3>1. \A p \in PushesTo(q.user, q.found) : Owned(p.node, p.id, p.user)
      BY <1>2, <2>2, PushesToOwned
    <3> QED
      BY <1>1, <1>6, <2>1, <3>1 DEF PushesOwned
  <2> QED
    BY <2>3, <2>4, <2>5
<1> QED
  BY <1>5, <1>6, <1>7 DEF AllOwned

\* The other steps of a logic node change the cache at most by forgetting.
LEMMA RouteOwned ==
  ASSUME PresenceInv, NEW l \in Logics, NEW u \in Users,
         RouteCached(l, u) \/ RouteLookup(l, u)
  PROVE  PresenceTyping' /\ AllOwned'
<1>1. restarts' = restarts /\ \A n, i, v : Owned(n, i, v)' <=> Owned(n, i, v)
  BY DEF RouteCached, RouteLookup, accessVars, session, Owned
<1>2. CASE RouteCached(l, u)
  <2>1. cache[l][u] \in SUBSET Location
    BY DEF PresenceInv, PresenceTyping
  <2>2. PushesTo(u, cache[l][u]) \subseteq Push
    BY <2>1, PushesToType
  <2>3. PresenceTyping'
    BY <1>2, <2>2 DEF RouteCached, PresenceInv, PresenceTyping
  <2>4. ASSUME restarts = 0 PROVE CacheOwned' /\ LookupsOwned' /\ PushesOwned'
    <3>1. CacheOwned /\ LookupsOwned /\ PushesOwned
      BY <2>4 DEF PresenceInv, AllOwned
    <3>2. \A p \in PushesTo(u, cache[l][u]) : Owned(p.node, p.id, p.user)
      <4>1. \A d \in cache[l][u] : Owned(d.node, d.id, u)
        BY <3>1 DEF CacheOwned
      <4> QED
        BY <2>1, <4>1, PushesToOwned
    <3> QED
      BY <1>1, <1>2, <3>1, <3>2 DEF RouteCached, CacheOwned, LookupsOwned, PushesOwned
  <2> QED
    BY <1>1, <2>3, <2>4 DEF AllOwned
<1>3. CASE RouteLookup(l, u)
  <2> DEFINE q == [user |-> u, found |-> InRedis(u)]
  <2>1. q \in Looked
    BY RedisType DEF PresenceInv, Looked
  <2>2. /\ lookups' = [lookups EXCEPT ![l] = @ \cup {q}]
        /\ cache' = cache /\ pushes' = pushes
    BY <1>3 DEF RouteLookup
  <2>3. PresenceTyping'
    BY <2>1, <2>2 DEF PresenceInv, PresenceTyping
  <2>4. ASSUME restarts = 0 PROVE CacheOwned' /\ LookupsOwned' /\ PushesOwned'
    <3>1. CacheOwned /\ LookupsOwned /\ PushesOwned
      BY <2>4 DEF PresenceInv, AllOwned
    <3>2. \A d \in q.found : Owned(d.node, d.id, q.user)
      BY <2>4, RedisOwned DEF PresenceInv
    <3>3. \A k \in Logics : lookups'[k] \subseteq lookups[k] \cup {q}
      BY <2>2 DEF PresenceInv, PresenceTyping
    <3>4. LookupsOwned'
      BY <1>1, <3>1, <3>2, <3>3 DEF LookupsOwned
    <3> QED
      BY <1>1, <2>2, <3>1, <3>4 DEF CacheOwned, PushesOwned
  <2> QED
    BY <1>1, <2>3, <2>4 DEF AllOwned
<1> QED
  BY <1>2, <1>3

LEMMA AnswerOwned ==
  ASSUME PresenceInv, NEW c \in Conns, Answer(c) PROVE PresenceTyping' /\ AllOwned'
<1> DEFINE p == [user |-> who[c].key[1], node |-> who[c].node, id |-> who[c].id]
<1>1. st[c] = "serve" /\ pushes' = pushes \cup {p} /\ UNCHANGED <<accessVars, cache, lookups>>
  BY DEF Answer, Open
<1>2. who[c] \in Identity /\ who[c].key # None
  BY <1>1 DEF PresenceInv, Indexed, Identified
<1>3. p \in Push
  BY <1>2 DEF Identity, Keys, Push
<1>4. Owned(p.node, p.id, p.user)
  BY <1>1, <1>2 DEF Owned
<1>5. restarts' = restarts /\ \A n, i, u : Owned(n, i, u)' <=> Owned(n, i, u)
  BY <1>1 DEF accessVars, session, Owned
<1>6. PresenceTyping'
  BY <1>1, <1>3 DEF PresenceInv, PresenceTyping
<1>7. AllOwned'
  BY <1>1, <1>4, <1>5 DEF PresenceInv, AllOwned, CacheOwned, LookupsOwned, PushesOwned
<1> QED
  BY <1>6, <1>7

\* A user is reported to have left, and a push is taken or delivered.
LEMMA ForgetOwned ==
  ASSUME PresenceInv, UNCHANGED <<who, st, restarts, lookups>>, pushes' \subseteq pushes,
         \/ cache' = cache
         \/ \E l \in Logics, u \in Users : cache' = [cache EXCEPT ![l][u] = {}]
  PROVE  PresenceTyping' /\ AllOwned'
<1>1. \A n, i, u : Owned(n, i, u)' <=> Owned(n, i, u)
  BY DEF Owned
<1>2. cache' \in [Logics -> [Users -> SUBSET Location]]
  <2>1. cache \in [Logics -> [Users -> SUBSET Location]] /\ {} \in SUBSET Location
    BY DEF PresenceInv, PresenceTyping
  <2>2. ASSUME NEW l \in Logics, NEW u \in Users
        PROVE  [cache EXCEPT ![l][u] = {}] \in [Logics -> [Users -> SUBSET Location]]
    BY <2>1, EntryType
  <2> QED
    BY <2>1, <2>2
<1>3. \A k \in Logics, u \in Users : cache'[k][u] \subseteq cache[k][u]
  BY EntryValue DEF PresenceInv, PresenceTyping
<1>4. PresenceTyping'
  BY <1>2 DEF PresenceInv, PresenceTyping
<1>5. AllOwned'
  BY <1>1, <1>3 DEF PresenceInv, AllOwned, CacheOwned, LookupsOwned, PushesOwned
<1> QED
  BY <1>4, <1>5

\* HandleUserOffline takes an event, which the tables do not depend on.
LEMMA OfflineKeeps ==
  ASSUME PresenceInv, NEW l \in Logics, NEW u \in Users, HandleUserOffline(l, u)
  PROVE  PresenceInv'
<1>1. /\ UNCHANGED <<session, manager, checker, location, restarts, lookups, pushes>>
      /\ offlines' = [offlines EXCEPT ![u] = @ - 1] /\ offlines[u] > 0
      /\ cache' = [cache EXCEPT ![l][u] = {}]
  BY DEF HandleUserOffline
<1>2. offlines' \in [Users -> Nat]
  BY <1>1 DEF PresenceInv, AccessTypeOK
<1>3. AccessTypeOK'
  BY <1>1, <1>2 DEF PresenceInv, AccessTypeOK, session, manager, checker
<1>4. Indexed'
  BY <1>1 DEF PresenceInv, Indexed, Identified, Listed, Unbound, MapsAgree, session, manager
<1>5. Numbered'
  BY <1>1 DEF PresenceInv, Numbered, IdsBelow, IdsApart, LocationsOwned, AddressOf, session, manager
<1>6. PresenceTyping' /\ AllOwned'
  BY <1>1, ForgetOwned DEF session
<1> QED
  BY <1>3, <1>4, <1>5, <1>6 DEF PresenceInv

LEMMA PresenceNextInv ==
  ASSUME PresenceInv, [PresenceNext]_presenceVars PROVE PresenceInv'
<1>1. ASSUME [AccessNext]_accessVars PROVE AccessTypeOK' /\ Indexed' /\ Numbered'
  BY <1>1, AccessTypeNext, IndexedNext, NumberedNext DEF PresenceInv, Indexed
<1>2. CASE AccessStep /\ UNCHANGED logic
  BY <1>1, <1>2, AccessStepOwned DEF PresenceInv, AccessNext
<1>3. ASSUME NEW n \in Nodes, Crash(n) PROVE PresenceInv'
  <2>1. Restart(n) /\ pushes' \subseteq pushes /\ UNCHANGED <<cache, lookups>>
    BY <1>3 DEF Crash
  <2>2. PresenceTyping'
    BY <2>1 DEF PresenceInv, PresenceTyping
  <2>3. AllOwned'
    BY <2>1, RestartNotFirst
  <2> QED
    BY <1>1, <2>1, <2>2, <2>3 DEF AccessNext, PresenceInv
<1>4. ASSUME NEW l \in Logics, Route(l) PROVE PresenceInv'
  <2>1. UNCHANGED accessVars
    BY <1>4 DEF Route, RouteCached, RouteLookup, RouteStore
  <2>2. PresenceTyping' /\ AllOwned'
    BY <1>4, RouteOwned, RouteStoreOwned DEF Route
  <2> QED
    BY <1>1, <2>1, <2>2 DEF PresenceInv
<1>5. ASSUME NEW c \in Conns, Answer(c) PROVE PresenceInv'
  <2>1. UNCHANGED accessVars
    BY <1>5 DEF Answer
  <2> QED
    BY <1>1, <1>5, <2>1, AnswerOwned DEF PresenceInv
<1>6. ASSUME NEW p \in pushes, HandleDownstream(p) PROVE PresenceInv'
  <2>1. UNCHANGED <<accessVars, cache, lookups>> /\ pushes' \subseteq pushes
    BY <1>6 DEF HandleDownstream
  <2>2. PresenceTyping' /\ AllOwned'
    BY <2>1, ForgetOwned DEF accessVars, session
  <2> QED
    BY <1>1, <2>1, <2>2 DEF PresenceInv
<1>7. CASE UNCHANGED presenceVars
  <2>1. UNCHANGED <<accessVars, cache, lookups, pushes>>
    BY <1>7 DEF presenceVars, logic
  <2>2. PresenceTyping' /\ AllOwned'
    BY <2>1, ForgetOwned DEF accessVars, session
  <2> QED
    BY <1>1, <2>1, <2>2 DEF PresenceInv
<1> QED
  BY <1>2, <1>3, <1>4, <1>5, <1>6, <1>7, OfflineKeeps DEF PresenceNext

\* An owned address names the owner's connection or none: ids are not given twice.
LEMMA OwnedNames ==
  ASSUME PresenceInv, restarts = 0, NEW n \in Nodes, NEW i, NEW u, Owned(n, i, u)
  PROVE  Names(n, i, u)
<1> SUFFICES ASSUME NEW c \in conns[n], who[c].id = i
             PROVE  who[c].key # None /\ who[c].key[1] = u
  BY DEF Names
<1>1. PICK d \in Conns : /\ st[d] \notin {"none", "auth"}
                         /\ who[d].node = n /\ who[d].id = i
                         /\ who[d].key # None /\ who[d].key[1] = u
  BY DEF Owned
<1>2. c \in Conns /\ st[c] # "none" /\ who[c].node = n
  BY DEF PresenceInv, AccessTypeOK, Indexed, Listed
<1>3. c = d
  BY <1>1, <1>2 DEF PresenceInv, Numbered, IdsApart
<1> QED
  BY <1>1, <1>3

\* A location in a cache, a lookup or a push, however old, never leads to the
\* connection of another user, until a node numbers its connections anew
\* (location.go, dispatcher.go, downstream_handler.go).
THEOREM PresenceNoMisdelivery == PresenceSpec => []NoMisdelivery
<1>1. PresenceInv => NoMisdelivery
  <2> SUFFICES ASSUME PresenceInv, restarts = 0
               PROVE  /\ \A l \in Logics : \A u \in Users : \A d \in cache[l][u] :
                           Names(d.node, d.id, u)
                      /\ \A l \in Logics : \A q \in lookups[l] : \A d \in q.found :
                           Names(d.node, d.id, q.user)
                      /\ \A p \in pushes : Names(p.node, p.id, p.user)
    BY DEF NoMisdelivery
  <2>1. CacheOwned /\ LookupsOwned /\ PushesOwned
    BY DEF PresenceInv, AllOwned
  <2>2. ASSUME NEW l \in Logics, NEW u \in Users, NEW d \in cache[l][u]
        PROVE  Names(d.node, d.id, u)
    <3>1. d.node \in Nodes
      BY DEF PresenceInv, PresenceTyping, Location
    <3> QED
      BY <2>1, <3>1, OwnedNames DEF CacheOwned
  <2>3. ASSUME NEW l \in Logics, NEW q \in lookups[l], NEW d \in q.found
        PROVE  Names(d.node, d.id, q.user)
    <3>1. d.node \in Nodes
      BY DEF PresenceInv, PresenceTyping, Looked, Location
    <3> QED
      BY <2>1, <3>1, OwnedNames DEF LookupsOwned
  <2>4. ASSUME NEW p \in pushes PROVE Names(p.node, p.id, p.user)
    <3>1. p.node \in Nodes
      BY DEF PresenceInv, PresenceTyping, Push
    <3> QED
      BY <2>1, <3>1, OwnedNames DEF PushesOwned
  <2> QED
    BY <2>2, <2>3, <2>4
<1> QED
  BY <1>1, PresenceInitInv, PresenceNextInv, PTL DEF PresenceSpec
=============================================================================
