-------------------------------- MODULE Friends --------------------------------
(***************************************************************************)
(* Friend requests and friendships of web-go.  A handler runs one SQL      *)
(* statement after the other; only CreateFriendship and DeleteFriendship   *)
(* hold several in a transaction, under READ COMMITTED: a statement sees   *)
(* what is committed when it starts, a row written by an open transaction  *)
(* is locked, and an INSERT ... ON CONFLICT DO NOTHING waits only for a    *)
(* conflicting row another transaction is inserting.  friends has one row  *)
(* per ordered pair, UNIQUE also over rows that are marked deleted.        *)
(***************************************************************************)
EXTENDS Integers, Sequences, FiniteSets

CONSTANTS
  Users,
  FriendHandlers, \* HTTP requests that may be under way at once
  MaxRequests,    \* bound on the rows of friend_requests
  MaxCalls        \* bound on the calls made

ASSUME MaxRequestsAssumption == MaxRequests \in Nat
ASSUME MaxCallsAssumption == MaxCalls \in Nat

VARIABLES
  requests,    \* the rows of friend_requests, by ID
  friends,     \* per pair its committed row of friends: "none", "live", "deleted"
  writes,      \* per handler the rows its open transaction has written
  friendHandler, \* per handler where it is and what it has read
  calls,       \* calls made so far
  accepted,    \* {asker, asked} of the requests the asked user has accepted
  raced        \* ghost: what overlapped, see Begin

friendsVars == <<requests, friends, writes, friendHandler, calls, accepted, raced>>

Pairs == {p \in Users \X Users : p[1] # p[2]}
Both(p) == <<p, <<p[2], p[1]>>>>
NoWrites == [p \in {} |-> "live"]
NoCall == [op |-> "idle", at |-> 0]

FriendsInit ==
  /\ requests = <<>>
  /\ friends = [p \in Pairs |-> "none"]
  /\ writes = [h \in FriendHandlers |-> NoWrites]
  /\ friendHandler = [h \in FriendHandlers |-> NoCall]
  /\ calls = 0 /\ accepted = {} /\ raced = {}

GoesTo(h, r) == friendHandler' = [friendHandler EXCEPT ![h] = r]
At(h, op, n) == friendHandler[h].op = op /\ friendHandler[h].at = n
Onward(h) == GoesTo(h, [friendHandler[h] EXCEPT !.at = @ + 1])
IsFriend(u, f) == friends[<<u, f>>] = "live"
Pending(u, f) ==
  {i \in DOMAIN requests : requests[i].from = u /\ requests[i].to = f /\ requests[i].status = "pending"}

\* A call starts; raced remembers the pairs for which two sends of one user, or
\* an accept and a delete, were under way at once.
Begin(h, r) ==
  /\ friendHandler[h] = NoCall /\ calls < MaxCalls
  /\ calls' = calls + 1
  /\ GoesTo(h, r)
  /\ raced' = raced \cup
       {<<"send", friendHandler[g].pair>> : g \in {g \in FriendHandlers :
          /\ r.op = "send" /\ friendHandler[g].op = "send" /\ friendHandler[g].pair = r.pair}}
       \cup
       {<<"friends", {r.pair[1], r.pair[2]}>> : g \in {g \in FriendHandlers :
          /\ {r.op, friendHandler[g].op} = {"accept", "delete"}
          /\ friendHandler[g].pair \in {r.pair, <<r.pair[2], r.pair[1]>>}}}

(* ----- SendRequest ----- *)

\* The other user exists and is no friend yet.
SendIsFriend(h) ==
  /\ \E p \in Pairs : ~IsFriend(p[1], p[2]) /\ Begin(h, [op |-> "send", at |-> 1, pair |-> p])
  /\ UNCHANGED <<requests, friends, writes, accepted>>

\* GetPendingRequest: a request of the same direction is refused.
SendGetPending(h) ==
  /\ At(h, "send", 1)
  /\ LET p == friendHandler[h].pair
     IN IF Pending(p[1], p[2]) = {} THEN Onward(h) ELSE GoesTo(h, NoCall)
  /\ UNCHANGED <<requests, friends, writes, calls, accepted, raced>>

CreateRequest(h) ==
  /\ At(h, "send", 2) /\ Len(requests) < MaxRequests
  /\ requests' = Append(requests, [from |-> friendHandler[h].pair[1], to |-> friendHandler[h].pair[2],
                                   status |-> "pending"])
  /\ GoesTo(h, NoCall)
  /\ UNCHANGED <<friends, writes, calls, accepted, raced>>

(* ----- AcceptRequest, RejectRequest ----- *)

\* The request is the user's to answer, and pending.
MayAnswer(u, i) == requests[i].to = u /\ requests[i].status = "pending"

\* GetRequestByID and the two checks; the status is not looked at again.
Answer(h) ==
  /\ \E u \in Users, i \in DOMAIN requests, op \in {"accept", "reject"} :
       /\ MayAnswer(u, i)
       /\ Begin(h, [op |-> op, at |-> 1, request |-> i, user |-> u, pair |-> <<u, requests[i].from>>])
  /\ UNCHANGED <<requests, friends, writes, accepted>>

\* UpdateRequestStatus, committed by itself.
UpdateRequestStatus(h) ==
  /\ friendHandler[h].op \in {"accept", "reject"} /\ friendHandler[h].at = 1
  /\ LET i == friendHandler[h].request
         accepts == friendHandler[h].op = "accept"
     IN /\ requests' = [requests EXCEPT ![i].status = IF accepts THEN "accepted" ELSE "rejected"]
        /\ accepted' = IF accepts /\ friendHandler[h].user = requests[i].to
                       THEN accepted \cup {{requests[i].from, requests[i].to}} ELSE accepted
        /\ IF accepts THEN Onward(h) ELSE GoesTo(h, NoCall)
  /\ UNCHANGED <<friends, writes, calls, raced>>

\* The row a statement of the transaction writes: the user's own, then the
\* friend's.
Row(h) == Both(friendHandler[h].pair)[friendHandler[h].at - 1]
Written(p) == {g \in FriendHandlers : p \in DOMAIN writes[g]}

\* A statement writes the row p.
WriteRow(h, p, s) ==
  writes' = [writes EXCEPT ![h] =
               [q \in DOMAIN writes[h] \cup {p} |-> IF q = p THEN s ELSE writes[h][q]]]

\* CreateFriendship: an INSERT of each direction, nothing where a row exists.
InsertFriend(h) ==
  /\ friendHandler[h].op = "accept" /\ friendHandler[h].at \in {2, 3}
  /\ \A g \in Written(Row(h)) : writes[g][Row(h)] # "live"
  /\ IF friends[Row(h)] = "none" THEN WriteRow(h, Row(h), "live") ELSE UNCHANGED writes
  /\ Onward(h)
  /\ UNCHANGED <<requests, friends, calls, accepted, raced>>

(* ----- DeleteFriend ----- *)

DeleteFriend(h) ==
  /\ \E p \in Pairs : Begin(h, [op |-> "delete", at |-> 2, pair |-> p])
  /\ UNCHANGED <<requests, friends, writes, accepted>>

\* Mutant: the second UPDATE names the row of the first.
Bug_DeletedRow(h) == friendHandler[h].pair

DeletedRow(h) == Row(h)

\* An UPDATE of each direction, where the row is live.
UpdateDeleted(h) ==
  /\ friendHandler[h].op = "delete" /\ friendHandler[h].at \in {2, 3}
  /\ LET p == DeletedRow(h)
     IN /\ friends[p] = "live" => Written(p) \subseteq {h}
        /\ IF friends[p] = "live" THEN WriteRow(h, p, "deleted") ELSE UNCHANGED writes
  /\ Onward(h)
  /\ UNCHANGED <<requests, friends, calls, accepted, raced>>

(* ----- the end of a transaction ----- *)

Commit(h) ==
  /\ friendHandler[h].op \in {"accept", "delete"} /\ friendHandler[h].at = 4
  /\ friends' = [p \in Pairs |-> IF p \in DOMAIN writes[h] THEN writes[h][p] ELSE friends[p]]
  /\ writes' = [writes EXCEPT ![h] = NoWrites]
  /\ GoesTo(h, NoCall)
  /\ UNCHANGED <<requests, calls, accepted, raced>>

\* A statement fails, also as the victim PostgreSQL picks when two wait for each
\* other; what the open transaction wrote is rolled back.
SQLFails(h) ==
  /\ friendHandler[h] # NoCall
  /\ writes' = [writes EXCEPT ![h] = NoWrites]
  /\ GoesTo(h, NoCall)
  /\ UNCHANGED <<requests, friends, calls, accepted, raced>>

FriendsNext ==
  \E h \in FriendHandlers :
    \/ SendIsFriend(h) \/ SendGetPending(h) \/ CreateRequest(h)
    \/ Answer(h) \/ UpdateRequestStatus(h) \/ InsertFriend(h)
    \/ DeleteFriend(h) \/ UpdateDeleted(h)
    \/ Commit(h) \/ SQLFails(h)

FriendsSpec == FriendsInit /\ [][FriendsNext]_friendsVars

(* ----- properties ----- *)

\* Types, and no row is written by two open transactions.
FriendsTypeOK ==
  /\ \A i \in DOMAIN requests :
       /\ <<requests[i].from, requests[i].to>> \in Pairs
       /\ requests[i].status \in {"pending", "accepted", "rejected"}
  /\ friends \in [Pairs -> {"none", "live", "deleted"}]
  /\ \A p \in Pairs : Cardinality(Written(p)) <= 1
  /\ calls \in 0 .. MaxCalls

\* Nobody gets a friend without one of the two having asked and the other having
\* accepted (service/friend.go AcceptRequest), whatever runs beside it.
FriendsWereAccepted ==
  \A p \in Pairs : friends[p] # "none" => {p[1], p[2]} \in accepted

\* Friendship is mutual in every committed state: both rows are live or neither,
\* unless an accept and a delete of the pair overlapped (CreateFriendship and
\* DeleteFriendship; there a delete between two statements can see one row).
MutualUnlessRaced ==
  \A p \in Pairs :
    <<"friends", {p[1], p[2]}>> \in raced \/ friends[p] = friends[<<p[2], p[1]>>]

\* A user has one pending request to another user, unless two of the user's
\* sends to that user overlapped: SendRequest looks before it inserts.
PendingOnceUnlessRaced ==
  \A p \in Pairs : <<"send", p>> \in raced \/ Cardinality(Pending(p[1], p[2])) <= 1

\* The three of them: friendships are asked for and accepted, mutual, and a
\* request is pending once (service/friend.go).
FriendshipSound == FriendsWereAccepted /\ MutualUnlessRaced /\ PendingOnceUnlessRaced

\* When an accept ends well, the two are friends (the documented meaning of
\* CreateFriendship).
AcceptMakesFriends ==
  [][\A h \in FriendHandlers :
       At(h, "accept", 4) /\ Commit(h) => friends'[friendHandler[h].pair] = "live"]_friendsVars
===============================================================================
