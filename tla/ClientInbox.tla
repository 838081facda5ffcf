----------------------------- MODULE ClientInbox ------------------------------
(***************************************************************************)
(* What the desktop-web client shows of chats: messageStore keeps the      *)
(* history of every conversation, chatStore the conversations with their   *)
(* unread counts and the one that is open, which stays open when the chat  *)
(* page is left.  A push is handled once by every listener; the chat page  *)
(* adds a listener whenever it is mounted, and what comes before it is     *)
(* mounted for the first time nobody handles.                              *)
(***************************************************************************)
EXTENDS Integers, Sequences, FiniteSets

CONSTANTS
  Peers,          \* users one chats with
  Nobody,
  MaxMessages,    \* bound on the messages a peer sends, and on one's own
  MaxMounts,      \* bound on how often the page is mounted
  MaxChatPushes   \* bound on the pushes that arrive

ASSUME InboxBounds == {MaxMessages, MaxMounts, MaxChatPushes} \subseteq Nat /\ Nobody \notin Peers

VARIABLES
  listeners,      \* how many times initListener has run
  history,        \* messages: per peer the sequence of [id, status]
  conversations,  \* the list: [peer, unread], the last one made first (the order by
                  \* updatedAt in which it is shown is left out)
  active,         \* activeConversationId
  arrived,        \* per peer the number of messages it has sent
  sending,        \* one's own messages whose write is awaited: <<peer, id>>
  own,            \* number of one's own messages
  pushCount,      \* number of pushes that arrived
  missed,         \* ghost: per peer the messages that came while its conversation
                  \* was not open, and that it has not been opened since
  unheard,        \* ghost: per peer the messages that came before there was a listener
                  \* and did not come again
  came,           \* ghost: per peer the pushes a listener handled since its conversation
                  \* was last marked as read
  failed          \* ghost: one's own messages whose write failed

inboxVars == <<listeners, history, conversations, active, arrived, sending, own, pushCount,
               missed, unheard, came, failed>>

InboxInit ==
  /\ listeners = 0 /\ conversations = <<>> /\ active = Nobody
  /\ history = [p \in Peers |-> <<>>]
  /\ arrived = [p \in Peers |-> 0] /\ came = arrived
  /\ missed = [p \in Peers |-> {}] /\ unheard = missed
  /\ sending = {} /\ failed = {} /\ own = 0 /\ pushCount = 0

(* ----- chatStore ----- *)

Find(convs, p) == {i \in DOMAIN convs : convs[i].peer = p}

\* updateConversation with another unread count.
UpdateConversation(convs, p, unread) ==
  [i \in DOMAIN convs |->
     IF convs[i].peer = p THEN [convs[i] EXCEPT !.unread = unread] ELSE convs[i]]

MarkAsRead(convs, p) == UpdateConversation(convs, p, 0)

\* A click on a conversation.
SetActiveConversation(p) ==
  /\ Find(conversations, p) # {}
  /\ active' = p
  /\ conversations' = MarkAsRead(conversations, p)
  /\ missed' = [missed EXCEPT ![p] = {}]
  /\ came' = [came EXCEPT ![p] = 0]
  /\ UNCHANGED <<listeners, history, arrived, sending, own, pushCount, unheard, failed>>

Known(p) == Find(conversations, p) # {}

\* A click on a friend, on the chat page: a conversation there is becomes active,
\* and is not marked as read.
AddConversationFromFriend(p) ==
  /\ listeners > 0
  /\ active' = p
  /\ conversations' = IF Known(p) THEN conversations
                      ELSE <<[peer |-> p, unread |-> 0]>> \o conversations
  /\ missed' = [missed EXCEPT ![p] = {}]
  /\ UNCHANGED <<listeners, history, arrived, sending, own, pushCount, unheard, came, failed>>

(* ----- messageStore ----- *)

\* The page's effect.
InitListener ==
  /\ listeners < MaxMounts /\ listeners' = listeners + 1
  /\ UNCHANGED <<history, conversations, active, arrived, sending, own, pushCount,
                 missed, unheard, came, failed>>

AddMessage(msgs, msg) ==
  IF \E i \in DOMAIN msgs : msgs[i].id = msg.id THEN msgs ELSE Append(msgs, msg)

\* Mutant: a conversation other than the one that is open counts as read.
Bug_UnreadAfter(p, unread) == IF active = Nobody THEN unread + 1 ELSE 0

UnreadAfter(p, unread) == IF active = p THEN 0 ELSE unread + 1

\* One listener's handleChatPush, on the history and the conversations it finds.
HandleChatPush(st, p, id) ==
  [history |-> [st.history EXCEPT ![p] = AddMessage(@, [id |-> id, status |-> "sent"])],
   conversations |->
     IF Find(st.conversations, p) = {}
     THEN <<[peer |-> p, unread |-> 1]>> \o st.conversations
     ELSE LET existing == CHOOSE i \in Find(st.conversations, p) : TRUE
          IN UpdateConversation(st.conversations, p,
                                UnreadAfter(p, st.conversations[existing].unread))]

\* What the listeners make of a push, one after the other.
AllHandle(p, id) ==
  LET handled[n \in 0 .. listeners] ==
        IF n = 0 THEN [history |-> history, conversations |-> conversations]
        ELSE HandleChatPush(handled[n - 1], p, id)
  IN handled[listeners]

\* A push arrives: a new message of a peer, or one that came before, when logic
\* sends it to this device again.
ChatPush(p, id) ==
  /\ pushCount < MaxChatPushes /\ pushCount' = pushCount + 1
  /\ id \in 1 .. arrived[p] + 1 /\ id <= MaxMessages
  /\ arrived' = [arrived EXCEPT ![p] = IF id > @ THEN id ELSE @]
  /\ history' = AllHandle(p, id).history
  /\ conversations' = AllHandle(p, id).conversations
  /\ missed' = IF active = p THEN missed ELSE [missed EXCEPT ![p] = @ \cup {id}]
  /\ unheard' = [unheard EXCEPT ![p] = IF listeners = 0 THEN @ \cup {id} ELSE @ \ {id}]
  /\ came' = [came EXCEPT ![p] = IF listeners = 0 THEN @ ELSE @ + 1]
  /\ UNCHANGED <<listeners, active, sending, own, failed>>

OwnId(n) == MaxMessages + n

\* sendMessage up to its await.
SendMessage ==
  /\ active # Nobody /\ own < MaxMessages
  /\ own' = own + 1
  /\ sending' = sending \cup {<<active, OwnId(own + 1)>>}
  /\ history' = [history EXCEPT ![active] =
                   AddMessage(@, [id |-> OwnId(own + 1), status |-> "pending"])]
  /\ UNCHANGED <<listeners, conversations, active, arrived, pushCount,
                 missed, unheard, came, failed>>

SetStatus(msgs, id, status) ==
  [i \in DOMAIN msgs |-> IF msgs[i].id = id THEN [msgs[i] EXCEPT !.status = status] ELSE msgs[i]]

UpdateMessageStatus(msgs, id, status) == SetStatus(msgs, id, status)

\* After the await: updateLastMessage, or the message is marked as failed.  Nothing
\* ever marks it as sent.
Sent(p, id) ==
  /\ <<p, id>> \in sending /\ sending' = sending \ {<<p, id>>}
  /\ \/ UNCHANGED <<history, failed>>
     \/ /\ history' = [history EXCEPT ![p] = UpdateMessageStatus(@, id, "failed")]
        /\ failed' = failed \cup {<<p, id>>}
  /\ UNCHANGED <<listeners, conversations, active, arrived, own, pushCount, missed, unheard, came>>

InboxNext ==
  \/ InitListener \/ SendMessage
  \/ \E p \in Peers :
       \/ SetActiveConversation(p) \/ AddConversationFromFriend(p)
       \/ \E id \in 1 .. MaxMessages : ChatPush(p, id)
       \/ \E n \in 1 .. MaxMessages : Sent(p, OwnId(n))

InboxSpec == InboxInit /\ [][InboxNext]_inboxVars

(* ----- properties ----- *)

\* Types, a conversation is listed once, and the open one is listed.
InboxTypeOK ==
  /\ \A i, j \in DOMAIN conversations : conversations[i].peer = conversations[j].peer => i = j
  /\ active # Nobody => Find(conversations, active) # {}
  /\ \A i \in DOMAIN conversations : conversations[i].unread \in Nat

Ids(msgs) == {msgs[i].id : i \in DOMAIN msgs}

\* The history of p has every message once, and of p's the ones that came, but for
\* those that came only before the page was mounted.
HistoryTrue(p) ==
  /\ \A i, j \in DOMAIN history[p] : history[p][i].id = history[p][j].id => i = j
  /\ Ids(history[p]) \cap (1 .. MaxMessages) = (1 .. arrived[p]) \ unheard[p]

\* What was missed and heard of is counted, at most once per listener and push
\* since the conversation was marked as read.
CountTrue(p) ==
  LET heard == missed[p] \ unheard[p]
  IN /\ heard # {} =>
          \E i \in Find(conversations, p) : conversations[i].unread >= Cardinality(heard)
     /\ \A i \in Find(conversations, p) : conversations[i].unread <= listeners * came[p]

\* One's own message shows as failed if its write failed, else as pending; what a
\* peer sent is sent.
StatusTrue(p) ==
  \A i \in DOMAIN history[p] :
    LET m == history[p][i]
    IN m.status = IF m.id <= MaxMessages THEN "sent"
                  ELSE IF <<p, m.id>> \in failed THEN "failed" ELSE "pending"

\* However many listeners there are and however often a push comes, the history
\* of a conversation has each message that came once (messageStore.ts addMessage),
\* except those that came before the chat page was mounted for the first time
\* (pages/Chat/index.tsx:34), which are lost unless they come again.  A message that
\* was heard while its conversation was not open is counted until the conversation
\* is opened: no switch between conversations, and no push to another one, hides it;
\* but every listener counts every push, one that came before too.  A message
\* shows as failed exactly if its own write failed.
InboxIsTrue == \A p \in Peers : HistoryTrue(p) /\ CountTrue(p) /\ StatusTrue(p)
===============================================================================
