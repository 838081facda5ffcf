----------------------------- MODULE Conversation -----------------------------
(***************************************************************************)
(* What a logic node does with a chat message beyond storing it: the       *)
(* routing to its receivers and the conversation lists of all it concerns  *)
(* (handler/chat_handler.go, service/conversation.go, service/group.go).   *)
(*                                                                         *)
(* Workers handle messages at the same time, and the conversations of a    *)
(* message are updated by a goroutine of its own.  A pipeline to Redis is  *)
(* not a transaction: its commands are carried out in order, with those of *)
(* other clients between them.  When the connection breaks before all      *)
(* answers are in, the Redis client sends the whole pipeline again, also   *)
(* what has been carried out, or gives it up with an error.  Which devices *)
(* a push reaches is in module Presence.                                   *)
(***************************************************************************)
EXTENDS Naturals, Sequences, FiniteSets, Functions

CONSTANTS
  Users, Groups,
  ConvMsgs,    \* messages, numbered: a later one has a greater server ID
  Scripts,     \* who writes to whom: per message [from, to]
  MaxBreaks    \* how often the connection to Redis breaks at most

ASSUME UsersAssumption == IsFiniteSet(Users) /\ IsFiniteSet(Groups)
ASSUME MsgsAssumption == ConvMsgs \subseteq Nat \ {0}
ASSUME PartiesAssumption ==
  \A s \in Scripts : \A m \in ConvMsgs :
    s[m].from \in Users /\ s[m].to \in Users \cup Groups

VARIABLES
  script,   \* the one that is played
  at,       \* per message where its handler is
  members,  \* per group, the rows of group_members
  found,    \* per message the members its handler has read
  routed,   \* per message, the users it was routed to
  fresh,    \* per user, messages routed to them in conversations that they
            \* have not marked as read since
  synced,   \* messages routed to the other devices of their sender
  jobs,     \* the goroutines that update conversations
  conv,     \* the hashes in Redis, per user and peer or group
  index,    \* per user, the members of the sorted set of its conversations
  breaks,   \* how often the connection has broken
  lost      \* whether a pipeline was given up

handlerVars == <<script, at, members, found, routed, fresh, synced>>
redisVars == <<conv, index>>
convVars == <<handlerVars, jobs, redisVars, breaks, lost>>

Peers == Users \cup Groups
From(m) == script[m].from
To(m) == script[m].to
IsGroup(m) == To(m) \in Groups

\* The conversation a user has a message in.
Thread(u, m) == IF IsGroup(m) THEN To(m) ELSE From(m)

ConvInit ==
  /\ script \in Scripts
  /\ at = [m \in ConvMsgs |-> "queued"]
  /\ members = [g \in Groups |-> Users]
  /\ found = [m \in ConvMsgs |-> {}] /\ routed = found
  /\ fresh = [u \in Users |-> {}]
  /\ synced = {} /\ jobs = {}
  /\ conv = [u \in Users |-> [p \in Peers |-> [last |-> 0, unread |-> 0]]]
  /\ index = [u \in Users |-> {}]
  /\ breaks = 0 /\ lost = FALSE

-----------------------------------------------------------------------------
(* The commands of a message.  A pipeline is a sequence of blocks, the        *)
(* commands for one user each.  A group's members come in some order, which a *)
(* sequence of them fixes.                                                    *)

HSet(u, p) == [op |-> "HSet", user |-> u, peer |-> p]
HIncrBy(u, p) == [op |-> "HIncrBy", user |-> u, peer |-> p]
ZAdd(u, p) == [op |-> "ZAdd", user |-> u, peer |-> p]

UpdateConversationForSender(u, p) == <<HSet(u, p), ZAdd(u, p)>>

\* Mutant: the receiver's list is not touched.
Bug_UpdateConversationForReceiver(u, p) == <<HSet(u, p), HIncrBy(u, p)>>

UpdateConversationForReceiver(u, p) == <<HSet(u, p), HIncrBy(u, p), ZAdd(u, p)>>

\* A goroutine: its message, the blocks left of the pipeline under way, that
\* pipeline as it was sent, and the pipeline after it, empty when there is none.
Goroutine(m, pipeline, after) ==
  [msg |-> m, left |-> pipeline, sent |-> pipeline, after |-> after]

\* The two pipelines of a message to a peer.
PeerUpdate(m) ==
  Goroutine(m, <<UpdateConversationForSender(From(m), To(m))>>,
               <<UpdateConversationForReceiver(To(m), From(m))>>)

\* UpdateConversationForGroupMembers: the sender, if a member, has nothing unread.
GroupUpdate(m, order) ==
  Goroutine(m, [i \in DOMAIN order |->
                  IF order[i] = From(m) THEN UpdateConversationForSender(order[i], To(m))
                                        ELSE UpdateConversationForReceiver(order[i], To(m))],
            <<>>)

Orders(S) == Bijection(1 .. Cardinality(S), S)

-----------------------------------------------------------------------------
(* ChatHandler.Handle *)

Moves(m, to) == at' = [at EXCEPT ![m] = to]

\* SaveMessage and the ACK.
Accept(m) ==
  /\ at[m] = "queued"
  /\ Moves(m, "acked")
  /\ UNCHANGED <<script, members, found, routed, fresh, synced, jobs, redisVars, breaks, lost>>

\* The push to the sender's other devices: a goroutine's, which nothing waits for
\* and which changes nothing else, so that its moment does not matter.
SyncToSenderOtherDevices(m) == synced' = synced \cup {m}

\* A message goes to the users R, whether or not the push reaches them.
RouteTo(m, R) ==
  /\ routed' = [routed EXCEPT ![m] = R]
  /\ fresh' = [u \in Users |-> IF u \in R THEN fresh[u] \cup {m} ELSE fresh[u]]
  /\ SyncToSenderOtherDevices(m)
  /\ Moves(m, "routed")

\* RouteMessage, and the goroutine for the two conversations of a peer.
RoutePeer(m) ==
  /\ at[m] = "acked" /\ ~IsGroup(m)
  /\ RouteTo(m, {To(m)})
  /\ jobs' = jobs \cup {PeerUpdate(m)}
  /\ UNCHANGED <<script, members, found, redisVars, breaks, lost>>

GetGroupMembers(m) ==
  /\ at[m] = "acked" /\ IsGroup(m)
  /\ found' = [found EXCEPT ![m] = members[To(m)]]
  /\ Moves(m, "members")
  /\ UNCHANGED <<script, members, routed, fresh, synced, jobs, redisVars, breaks, lost>>

\* The query fails: the handler returns.  Nobody is sent the message, no
\* conversation shows it and the sender's other devices are not told.
GetGroupMembersFails(m) ==
  /\ at[m] = "acked" /\ IsGroup(m)
  /\ Moves(m, "failed")
  /\ UNCHANGED <<script, members, found, routed, fresh, synced, jobs, redisVars, breaks, lost>>

\* Mutant: the conversations are those of the members there are by now.
Bug_RouteGroup(m) ==
  /\ at[m] = "members"
  /\ RouteTo(m, found[m] \ {From(m)})
  /\ \E order \in Orders(members[To(m)]) : jobs' = jobs \cup {GroupUpdate(m, order)}
  /\ UNCHANGED <<script, members, found, redisVars, breaks, lost>>

\* filterOut and RouteToMultiple; the conversations are those of the same members.
RouteGroup(m) ==
  /\ at[m] = "members"
  /\ RouteTo(m, found[m] \ {From(m)})
  /\ \E order \in Orders(found[m]) : jobs' = jobs \cup {GroupUpdate(m, order)}
  /\ UNCHANGED <<script, members, found, redisVars, breaks, lost>>

-----------------------------------------------------------------------------
(* Redis *)

AfterFirst(left) == IF Len(Head(left)) = 1 THEN Tail(left) ELSE [left EXCEPT ![1] = Tail(@)]

\* One command of the pipeline under way.
Command(j) ==
  /\ j.left # <<>>
  /\ LET c == Head(Head(j.left))
     IN /\ conv' = CASE c.op = "HSet" -> [conv EXCEPT ![c.user][c.peer].last = j.msg]
                     [] c.op = "HIncrBy" -> [conv EXCEPT ![c.user][c.peer].unread = @ + 1]
                     [] OTHER -> conv
        /\ index' = IF c.op = "ZAdd" THEN [index EXCEPT ![c.user] = @ \cup {c.peer}] ELSE index
  /\ jobs' = (jobs \ {j}) \cup {[j EXCEPT !.left = AfterFirst(@)]}
  /\ UNCHANGED <<handlerVars, breaks, lost>>

\* Exec has returned: the goroutine goes on with its second pipeline, or ends.
Returns(j) ==
  jobs' = (jobs \ {j}) \cup
            (IF j.after = <<>> THEN {} ELSE {Goroutine(j.msg, j.after, <<>>)})

\* All answers are in.
Reply(j) ==
  /\ j.left = <<>>
  /\ Returns(j)
  /\ UNCHANGED <<handlerVars, redisVars, breaks, lost>>

\* The connection breaks, perhaps when all is done and only answers are missing.
Break == breaks < MaxBreaks /\ breaks' = breaks + 1

\* The client sends the pipeline again from its first command (it does so three
\* times by default; MaxBreaks is below that).
Resend(j) ==
  /\ Break
  /\ jobs' = (jobs \ {j}) \cup {[j EXCEPT !.left = j.sent]}
  /\ UNCHANGED <<handlerVars, redisVars, lost>>

\* Or Exec returns the error.  It is logged or dropped, and the second pipeline of
\* a message to a peer starts all the same.
GiveUp(j) ==
  /\ Break
  /\ lost' = TRUE
  /\ Returns(j)
  /\ UNCHANGED <<handlerVars, redisVars>>

\* Mutant: takes one message from the count.
Bug_MarkRead(u, p) ==
  /\ conv' = [conv EXCEPT ![u][p].unread = @ - 1]
  /\ fresh' = [fresh EXCEPT ![u] = {m \in @ : Thread(u, m) # p}]
  /\ UNCHANGED <<script, at, members, found, routed, synced, jobs, index, breaks, lost>>

\* MarkRead: one command, for any conversation a client names, also one that
\* does not exist, and whatever last_read_msg_id it names with it.
MarkRead(u, p) ==
  /\ conv' = [conv EXCEPT ![u][p].unread = 0]
  /\ fresh' = [fresh EXCEPT ![u] = {m \in @ : Thread(u, m) # p}]
  /\ UNCHANGED <<script, at, members, found, routed, synced, jobs, index, breaks, lost>>

\* The web service removes somebody from a group.
LeaveGroup(u, g) ==
  /\ u \in members[g]
  /\ members' = [members EXCEPT ![g] = @ \ {u}]
  /\ UNCHANGED <<script, at, found, routed, fresh, synced, jobs, redisVars, breaks, lost>>

\* GetUserConversations: the conversations of the index that have a hash, all
\* pages of them.  (A hash that only MarkRead has written is not in the index.)
GetUserConversations(u) ==
  {[peer |-> p, last |-> conv[u][p].last, unread |-> conv[u][p].unread] :
     p \in {q \in index[u] : conv[u][q].last # 0}}

\* GetTotalUnreadCount: the sum over the conversations of the index.
GetTotalUnreadCount(u) ==
  Cardinality(UNION {{p} \X (1 .. conv[u][p].unread) : p \in index[u]})

Handler(m) == \/ Accept(m) \/ RoutePeer(m) \/ GetGroupMembers(m) \/ GetGroupMembersFails(m)
              \/ RouteGroup(m)
Job(j) == Command(j) \/ Reply(j)

ConvNext ==
  \/ \E m \in ConvMsgs : Handler(m)
  \/ \E j \in jobs : Job(j) \/ Resend(j) \/ GiveUp(j)
  \/ \E u \in Users, p \in Peers : MarkRead(u, p)
  \/ \E u \in Users, g \in Groups : LeaveGroup(u, g)

\* Workers and goroutines run on.
HandlersRun == \A m \in ConvMsgs : WF_convVars(Handler(m))
JobsRun ==
  \A m \in ConvMsgs : WF_convVars(\E j \in {k \in jobs : k.msg = m} : Job(j))

ConvSpec == ConvInit /\ [][ConvNext]_convVars /\ HandlersRun /\ JobsRun

-----------------------------------------------------------------------------
(* Properties *)

ConvTypeOK ==
  /\ \A m \in ConvMsgs : at[m] \in {"queued", "acked", "members", "routed", "failed"}
  /\ \A m \in ConvMsgs : found[m] \subseteq Users /\ routed[m] \subseteq Users
  /\ synced \subseteq ConvMsgs
  /\ \A u \in Users, p \in Peers : conv[u][p].unread \in Nat
  /\ \A u \in Users : index[u] \subseteq Peers

RoutedIn(u, p) == {m \in ConvMsgs : u \in routed[m] /\ Thread(u, m) = p}

\* Nobody is told of more unread messages in a conversation than were routed to
\* them, but for one more with every pipeline that was sent again (conversation.go:66,
\* :85), however updates, reads and leaves interleave.  And nobody is told of too few:
\* once no update is under way and none was given up, the total counts every message
\* routed to a user since they last marked its conversation, also for those who have
\* left a group in between.
UnreadIsRouted ==
  /\ \A u \in Users, p \in Peers : conv[u][p].unread <= Cardinality(RoutedIn(u, p)) + breaks
  /\ jobs = {} /\ ~lost => \A u \in Users : GetTotalUnreadCount(u) >= Cardinality(fresh[u])

\* The users whose conversation lists a message belongs in, with the conversation.
Concerned(m) ==
  IF IsGroup(m) THEN found[m] \X {To(m)} ELSE {<<From(m), To(m)>>, <<To(m), From(m)>>}

\* A message that was acknowledged is routed, and in the end its conversation is in
\* the lists of both ends, or of all members of its group, its sender included, with a
\* message to show -- except when the members cannot be read (chat_handler.go:72) or a
\* pipeline was given up.
ConversationsListed ==
  \A m \in ConvMsgs : at[m] = "acked" ~>
    \/ lost \/ at[m] = "failed"
    \/ /\ at[m] = "routed"
       /\ \A x \in Concerned(m) : \E c \in GetUserConversations(x[1]) : c.peer = x[2]
=============================================================================
