# im-go: a TLA+ model of the messaging and room services

im-go is an instant-messaging system with mahjong rooms. Clients hold a
WebTransport session to an **access** node; access nodes and **logic** nodes talk
over NATS; state that outlives a process is in Redis and PostgreSQL; **web** is a
REST service for accounts, friends and groups.

    client == WebTransport ==> access-go == NATS im.logic.upstream.* ==> logic-go
    client <== stream ======== access-go <= NATS im.access.<node>.downstream = logic-go
                                  |                                          |
                                  +---- Redis: location of each user --------+
                                                       logic-go ---> PostgreSQL: messages

This directory holds the TLA+ modules, the TLC configurations that check them and
the TLAPS proofs. `PROJECT.json` maps every definition to the source lines it
models, lists the runs, the mutants that show each property to notice a defect, the
hazards of the code and the theorems.

Running it: `tlc -config Room.cfg MCRoom.tla` (`PROJECT.json` says which module goes with
which `X.cfg`), `tlapm RoomProofs.tla` and the other proof modules likewise.

## 1. Inventory

Paths are relative to `src/project`.

| Component | State it keeps | Operations | Hard behaviour | What makes it correct | Status |
|---|---|---|---|---|---|
| room (`logic-go/internal/room`, `handler/room_handler.go`) | map of rooms; per room players, seats, readiness, status, lastActive | CREATE, JOIN, LEAVE, READY, CHANGE_SEAT, START_GAME; eviction | requests on one room run on many NATS workers; the seat scan takes no lock; copy, recipients and broadcast come at three moments after the change; eviction decides and removes at two moments | no user and no seat twice; a running game's table is frozen; a push of the newest version is tried to every member | modelled |
| message batcher (`service/message_batcher.go`) | bounded channel, blocked senders, the worker's batch | SaveMessage, flush on size or tick, Stop, context cancelled | full channel; two ways to end; a batch that fails | order, exactly one flush per message, nothing running after Stop, everything written or refused in the end | modelled |
| chat pipeline (`nats/subscriber.go`, `handler/chat_handler.go`, `cmd/logic/main.go`) | msgChan, the worker goroutines, who was acknowledged | NATS callback, worker, SaveMessage, ACK; shutdown | back-pressure from the batcher; the shutdown order of main | a message is in one place; what is acknowledged is kept until the node is told to stop; shutdown waits for the right things | partly |
| conversations (`service/conversation.go`, `service/group.go`) | per user a sorted set of conversations, per conversation a hash with unread count and last message | update for sender and receivers, MarkRead, total unread | pipelines are not transactions, and are sent again or given up when the connection breaks; several workers and devices; members that leave | unread counts are what was routed, up to the pipelines sent again; a message that was acknowledged gets into the lists of all it concerns | partly |
| locations and routing (`service/location.go`, `dispatcher.go`, `router.go`, `handler/user_handler.go`, access `downstream_handler.go`) | per logic node a cache of user locations | lookup, dispatch, invalidation by a disconnect event | a lookup that overtakes the event; pushes older than the connection they name | a push never reaches another user | partly |
| task scheduler (`logic-go/internal/task`) | 60 slots, current slot, task channel, workers | AddTask, RemoveTask, Tick, Submit, Start, Stop | slot computed outside the lock that guards it; Submit blocks the tick loop | a task runs once, not before its delay, not a turn late unless its slot had just been passed; Stop ends | modelled |
| game manager and service (`logic-go/internal/game`) | map of games, engine of each, dirty flags | start, act, evict, shut down | concurrent starts of one room; eviction against a running action | one game per room, nobody acts in one that is not dealt | modelled |
| mahjong engine (`game/mahjong/core`, `htmajong`, `thmahjong`) | deck, hands, melds, discards, current player, pending tasks | draw, discard, pong, kong, chi, ting, pass, timeout; win check and settlement | claims of several players for one tile; slices that share an array; the search for melds | the deck stays as shuffled and the tiles of who moves are kept; what is newly offered is admitted; winning hands are exactly the decomposable ones | modelled |
| access connections (`access-go/internal/connection`, `server`, `handler/auth_handler.go`, `redis/client.go`) | connections, conns by id, conns by user and platform; location keys in Redis with a TTL | accept, authenticate and replace, heartbeat sweep, end of session | three goroutines clean up the same connection; Redis errors; restarts | the maps agree; an open connection is found; an ended one is forgotten; a location names its owner | modelled |
| access worker pool and data path (`workerpool/pool.go`, `handler/handler.go`, `connection/connection.go`) | task queue, workers, writeChan per connection, the client's stream | read a frame, Submit, handle, answer, Send, writeLoop, Close, Shutdown | Submit against close; a client that does not read; two writers on one stream | a request is in one place; pushes keep their order; only a stalled client or a shutdown keeps what is queued from being handled | modelled |
| snowflake ids (`shared/snowflake`) | last time, sequence | Generate | sequence overflow, the wait for the next millisecond, restart | ids are unique and follow time | modelled |
| web accounts and tokens (`web-go/internal/service/auth.go`, `service/user.go`, `middleware/auth.go`, `repository/token.go`) | rows of users with their profiles; in Redis two keys per token and `user:info` | register, login, check and renew, logout, expiry, change of profile | every handler is several calls to Redis and PostgreSQL; a profile is read, changed and written back | one good token per user and platform; a logged-out token stays refused; no change of a profile is lost unless two overlapped | partly |
| web friends (`service/friend.go`, `repository/friend.go`) | rows of requests and of friendships | send, accept, reject, delete | concurrent requests in both directions; transactions that overlap | friendship is accepted, mutual, and requested once | modelled |
| desktop client (`desktop-web/src/services/transport`, `stores`) | login state, transport, heartbeat; histories, conversations, unread counts | login, connect, disconnect, push, open a conversation, send | awaits inside connect; listeners that are added again, or not yet | one session; logout closes it; no message that was heard twice or hidden | partly |
| web groups, configuration and start-up, flatbuffers code | - | - | - | - | not modelled, see section 5 |

How they interact: access publishes client requests to NATS and logic's queue group
takes each once; logic publishes answers and pushes to the subject of an access node,
at most once and without a reply; access writes locations to Redis and logic reads
and caches them, cleared by a UserOffline event; handlers of logic share the room map,
the location cache, the game map and the batcher; after the ACK of a chat message its handler routes it
and a goroutine of its own updates the conversations. START_GAME of a room ends in
`GameService.StartGame`, which only broadcasts the start (its comment leaves setting up the engine to a caller of
`MahjongService.StartGame`, of which the repository has none).
Nothing in the repository starts the task scheduler yet. The web service, the id
generators and the client touch the others only through tokens, ids and frames.

## 2. Modules and what they stand for

| Module | Models | Run by |
|---|---|---|
| `RoomTable` | what a room promises: an atomic table of players with a phase | (abstract specification) |
| `Room` | one HT_MAHJONG room under concurrent requests and eviction | `MCRoom` |
| `RoomProofs` | theorems about `Room`, and that it implements `RoomTable` | TLAPS |
| `MessageBatcher` | the batcher, its callers, its worker and its two ways to end | `MCLogicServices` |
| `MessageBatcherProofs` | theorems about `MessageBatcher` | TLAPS |
| `Chat` | subscriber, workers, shutdown; EXTENDS `MessageBatcher` and uses its actions | `MCChat` |
| `ChatProofs` | theorems about `Chat`; EXTENDS `MessageBatcherProofs` | TLAPS |
| `Conversation` | routing of a chat message and the conversation lists | `MCLogicServices` |
| `TimeWheel` | the task scheduler: wheel, tick loop, worker pool | `MCLogicServices` |
| `LogicServicesProofs` | theorems about `TimeWheel`, `Conversation` and `MCLogicServices` | TLAPS |
| `GameTable` | the map of games and concurrent starts | `MCGames` |
| `Mahjong` | the engine of both rule sets | `MCGames` |
| `Winning` | winning hands and what a win is worth | `MCGames` |
| `GamesProofs` | theorems about `GameTable`, `Mahjong`, `Winning` and `MCGames` | TLAPS |
| `Access` | sessions, Manager, heartbeat checker, location keys | `MCEdge`, `MCAccess`, `MCPresence` |
| `AccessProofs` | theorems about `Access` and `Presence` | TLAPS |
| `AccessStream` | the data path of an access node | `MCEdge` |
| `Presence` | the location cache, pushes and events of logic; EXTENDS `Access` | `MCPresence` |
| `Snowflake` | the id generator | `MCWeb` |
| `Accounts` | accounts and access tokens of web-go | `MCWeb` |
| `Profiles` | profiles in the rows of users and in `user:info` | `MCWeb` |
| `Friends` | friend requests and friendships | `MCWeb` |
| `ClientConnection` | the transport of the desktop client | `MCEdge` |
| `ClientInbox` | the message and conversation stores of the client | `MCWeb` |
| `EdgeProofs` | theorems about `AccessStream`, `ClientConnection` and `MCEdge` | TLAPS |
| `WebProofs` | theorems about the modules of `MCWeb` and about `MCWeb` | TLAPS |

`MCRoom`, `MCChat`, `MCAccess` and `MCPresence` instantiate one system each. `MCLogicServices`,
`MCGames`, `MCEdge` and `MCWeb` put side by side services that share no state: a
variable `part`, fixed in the initial state, says which of them moves in a behaviour while the
others rest. This is a way to check several specifications in one run, not a claim that they
interact; the state space is the sum of theirs and not the product.

**Room.** `players` is the slice `roomInfo.Players`, in order, because `Leave` shifts it and the
unlocked scan of `AllocateSeat` walks it by index. A request is a program counter
`pc[r]`: `lookup` (room found), `scan` (inside `AllocateSeat`), `apply` (about to take
`Room.mu`), `copy`, `members`, `push`. The scan is a data race. It is modelled by `window`: the scan
fixes the slice length when it begins, and each element may be seen with any value it has
had until the scan ends; an old backing array keeps old values, so an in-place delete and
an append both fit. A torn slice header (pointer of one slice with the length of
another) is left out. `ver` counts changes; a broadcast carries the version it copied. A push either gets
through, and the client then shows what it brought, be it newer or older than what it showed (`mahjongRoomService.ts:55`), or is
lost, because the lookup failed, the user has no location (`router.go:56`) or the publish failed (`dispatcher.go:40`); the code
logs that and goes on, and so does `SendRoomPush`. Of the newest version the history variables remember to whom a push
was tried (`told`), who shows it (`shown`), whose push was lost (`lost`) and whether another broadcast was running when it was made
(`crossed`). The devices of a user are taken as one. A refused request answers its caller and changes nothing.

**MessageBatcher.** `queue` is `msgChan`, `sendq` the goroutines blocked sending to it in
Go's first-come order, `batch` the worker's slice. `flush` of the code is two
moments: entered (`worker = "flush"`, with the context it uses fixed by `doomed`) and ended
(`FlushEnds`), between which callers run. PostgreSQL's answer is a choice: the pgx batch
is one implicit transaction, refused outright if its context is already cancelled.
`handed` and `flushed` are history: order of hand-over and of the end of the flush; `refused` has the messages of batches
that PostgreSQL refused while the context lived.

**Chat.** The NATS client runs one callback at a time. Its non-blocking send drops a
message when `msgChan` is full. A worker calls `SaveMessage` (an action of
`MessageBatcher`), waits until it has returned, and acknowledges. Shutdown is `main`:
`Cancel`, `Unsubscribe`, `CloseBuffer`, `StopBatcher` (after all workers have
exited), `Exit`. A send on the closed channel is a panic and ends the process.

**Conversation.** `at[m]` is where the handler of message `m` is, `found[m]` the members of the group it has
read, `routed[m]` the users it was sent to. The updates of the conversations run in
goroutines (`jobs`, with the commands they still have to send), because the code starts them with `go`.
A pipeline is a sequence of commands, each a step (`Command`), and
`Reply` its answers. The connection may break at any command, or when all are done and only answers are missing. The Redis client then
sends the whole pipeline again (`Resend`), also what was carried out, so that an HINCRBY may count a message twice; or it returns an
error that is logged (`GiveUp`). go-redis retries three times by default; `MaxBreaks` is one, below that (a second break
does again what the first does, and the proofs are for any number). That commands of an attempt that timed out are carried
out after those of the next one is left out. A job lists its commands user by user: for a message to a peer these are two pipelines, of which the
second starts also when the first has failed; for a group they are one, over the members in any order (`Orders`). `conv` and `index` are the Redis hashes and sorted sets; the score by time is left out.
`MarkRead` sets a count to zero at any moment and for any name a client sends, also of a conversation that does not exist. The push to the
sender's other devices is part of the routing step, since nothing waits for it or depends on it; members leave a group between two messages (`LeaveGroup`,
the web service's part, taken from the rows the query reads).

**TimeWheel.** `AddTask` reads `currentSlot` under one lock and inserts under another, so it is two actions
(`AddTask`, `SlotAddTask`), as are `RemoveTask` / `SlotRemoveTask` and a tick (`AdvanceTick`,
`GetAndClear`). The tick loop then submits the tasks of the slot one by one (`Submit`), each blocking
while `taskChan` is full. `age` and `waited` are history, capped at `SlotCount`. `Stop` is the
order of the code: the tick loop exits, then the pool is cancelled and its workers leave, with or without tasks in
`taskChan`, then the channel is closed.

**GameTable.** One room. A StartGame is `Load`, `LoadOrStore`, `SetEngine` and `InitMahjongGame`,
each under a lock of its own, so that several calls interleave between them. `HandlePlayerAction` is any
action or reader of the game; `evictor` is what the eviction loop collected under one lock and removes
under another. Games of two rooms share nothing.

**Mahjong.** `Deal` cuts all hands and the deck from one shuffled array, and Go's `append` writes into that
array while a slice has capacity. So `cells` is the array, a hand is `[off, len]`, and growing, sorting
and removing write to `cells` as the code does. `Move(p)` is a call of `ExecuteAction` by player `p`,
with the judge's `tasks` and the next `current`; `TaskTimeout` is `ProcessTaskTimeout`. The rule set
(`rules`) is chosen in the initial state. A call that is refused changes nothing and is no step. `SortTiles`
is sorting by counting: the n-th place gets the kind that fewer than n tiles come before and n or more do not come after.

**Winning.** A hand is the number of tiles of each kind. `CheckBasicWin` is the code's backtracking search
(`Melds`, a recursive function of the tally, for the recursion of `checkMianZi`), `IsWinningShape` the definition it is compared with, the other operators are the patterns and the settlements
of the two rule sets. The state machine only enumerates hands, tile by tile.

**Access.** A connection is one goroutine (`handleSession`) with its state in `st[c]`; `who[c]`
is its node, id and user. The three maps of `Manager` are `conns` (by id) and
`userConns` (by user and platform; the nested map of the code is never left with an empty
inner map that a lookup could tell from a missing one). `handleAuth` is two moments: `Bind`
(under the manager's lock, yields the connection it replaces) and `Kick` /
`Register`. The session's defer is two moments, `Unregister` (Redis) and `Leave` (event and
Remove); a Redis error in the first ends it early, as in the code. The checker lists,
then handles each connection in two moments. `Expire` is the TTL of the key running out.

**AccessStream.** Clients are authenticated. `reader[c]` is the goroutine of `HandleStream`, `worker[w]` a
goroutine of the pool with its task and whether it is before, between or after the two writes of
its answer; `half` and `torn` record who is between a header and a body and where something came in.
`writing[c]` is `writeLoop`, `callback` the NATS callback that blocks in `Send` when `writeChan` is full.
`Stall` and `Resume` are a client that stops reading and, perhaps, reads on: nothing makes it, since writes have no deadline
(`handler.go:195`, `connection.go:120`) and keepalives keep such a connection open; `BeginShutdown` / `Shutdown` cancel,
close the queue and wait. A Submit on the closed channel panics, which ends that reader.

**Presence.** `cache[l][u]` is `sync.Map` of a logic node, `lookups` the goroutines between
reading Redis and storing, `pushes` the downstream messages on their way, in no order.
`offlines[u]` counts UserOffline events not yet handled; the queue group gives each to one
logic node. `HandleDownstream` finds a connection by id alone, so an address is right as long as
the connection it names belongs to the user.

**Accounts.** A handler is a sequence of calls; each is an action, and `handler[h]` carries what it has
read: login is `LoginCheck`, `GetOldToken`, `DeleteOldToken`, `SaveToken`; the middleware is
`TokenAuth`, then `Renew` or `Logout`. `Fail` is a database or Redis error at any of them. Keys expire with the clock `now`.
`SaveToken` and `RefreshTokenExpire` are pipelines of two commands and each taken as
one step (`token.go:44`, `:132`); this hides a moment of a round trip at most in which one of a token's two keys is there and
the other is not yet, or not any more. `loggedOut` and `overlapped` are history.

**Profiles.** `profile[u]` is the nickname and avatar of a row, `userInfo[u]` their copy in Redis, which logic shows
to the others in a room. UpdateProfile is two actions, the read of the row and the write of all it has read
and changed. A login reads the row and writes `user:info` later (`SaveUserInfo`), after the steps on tokens that are
in `Accounts`; nothing else writes it. `asked`, `had`, `newest`, `mixed` and `loginsRaced` are history: the last change that named a
field, the profiles a row has had in order, which of them is the newest that was saved to `user:info`, and for whom two updates, or
two logins, were under way at once.

**Friends.** Each SQL statement is an action. `writes[h]` are the rows of an open transaction; a row
written there is locked for other transactions, and statements see what is committed. `InsertFriend` is
the INSERT ... ON CONFLICT DO NOTHING, which does nothing on a row that exists, marked deleted or not.
`SQLFails` ends a handler and undoes its transaction. `raced` remembers which calls
overlapped, so that properties can say "unless".

**Snowflake.** Generate is one step (`Generate`), or two when the sequence is used up (`waiting`, then
`NextMillisecond`). `issued` and `twice` are history; a restart forgets `lastTime` and `sequence` and happens later
than the last id.

**ClientConnection, ClientInbox.** JavaScript runs one piece at a time; `connect` is cut at its three awaits.
All calls of `connect` share the manager's fields, so `call[k]` is local and `transport`,
`sendWriter` etc. are not. `overlapped` says that two connects ran at once. In the inbox a push is handled once per
listener, and by nobody before the chat page is mounted for the first time (`pages/Chat/index.tsx:34`). A conversation stays
open when the page is left. `missed` is what came while its conversation was not open, `unheard` what came while there
was no listener and not again, `came` the pushes that were handled since the conversation was marked as read, `failed` one's own messages whose write
failed.

## 3. Runs

| Run | Instance | Shows |
|---|---|---|
| `Room` | 3 users, 2 requests at once, 2 seats, CHANGE_SEAT to -1 or 1, 5 changes, symmetry | `TypeOK`, `LatestIsPushed`, and that `Room` implements `RoomTable` (in which nobody sits twice, no seat is shared and a running game is frozen) |
| `RoomLive` | 2 users, 2 requests, 1 seat, 5 changes, no symmetry | `NobodyLeftOut`, `InactiveRoomEvicted` |
| `Chat` | 3 messages, 2 workers, buffer, channel and batch of 1, failing database, SIGTERM at any moment | `ChatTypeOK`, `OnePlace`, `AckedIsKept`, `StoppedWhenQuiet`, `Answered` |
| `LogicServices` | batcher: 4 messages, batches of 2, channel of 1, failing database; wheel: 2 tasks, 1 worker, 2 slots, delays 1 and 2; conversations: 2 users, 1 group, 2 messages, two scripts, 1 break | `ServicesTypeOK`, `InOrderOnce`, `EventuallyFlushed`; `ExecutedOnce`, `OnTime`, `AddedRuns`; `UnreadIsRouted`, `ConversationsListed` |
| `Games` | engine: 3 players, hands of 4, three decks of 16 per rule set, 4 moves; table: 3 starts; winning: six kinds, hands of 14 | `GamesTypeOK`, `TilesConserved`, `OffersMatch`, `OneDealtGame`, `BasicWinIsComplete`, `WinPays` |
| `Access` | `PresenceSpec`: 2 connections, 2 users, 1 access and 1 logic node, Redis errors, 1 restart, symmetry | `OpenIsFound`, `LocationNamesOwner`, `NoMisdelivery` |
| `Edge` | maps: 2 connections of one user, Redis errors, 1 restart; data path: 1 stream, 2 workers, queue of 1, writeChan of 2, 2 requests, 2 pushes; client: 3 connects | `EndedIsForgotten`; `RequestInOnePlace`, `PushesInOrder`, `QueuedIsHandled`; `OneSession`, `LogoutCloses` |
| `Web` | accounts: 1 name, 2 devices, 2 handlers, clock up to 3; profiles: 1 user, 3 handlers, 2 logins, 2 changes; friends: 3 users, 2 handlers, 2 requests, 5 calls; ids: 2 processes, sequence 0..3, clock up to 3; inbox: 2 peers, 2 messages, 2 mounts, 3 pushes; symmetry in handlers and devices | `WebTypeOK`, `AccountsSound` (`GoodTokens` and `ProfilesKept`), `FriendshipSound`, `IDsUnique`, `InboxIsTrue` |
| `ChatShutdownEnds` | 3 messages, 1 worker | **finding 1**: shutdown can hang |
| `AccessOpenIsLocated` | 2 connections of one user | **finding 2**: a reconnect loses its location |
| `FriendsAgain` | 2 users, 1 handler, 2 requests | **finding 3**: friends who part cannot become friends again |
| `FramesWhole` | 1 client, 2 workers, 1 push | **finding 4**: a frame comes between header and body of another |

Every property of a passing run has a mutant in `PROJECT.json`: a defect of the kind the code could
have (a dropped check, a swapped order), which the run detects.

Why the bounds are enough to be interesting.

- *Room*: two seats and three users let a third JOIN find a full table or, through a seat of -1, a room
  with more members than seats; five changes are exactly create, join, two READYs and a start,
  with every shorter mix of leaves and moves. One seat in `RoomLive` reaches a start in three
  changes and leaves two for what follows.
- *Batcher and Chat*: a channel of one with batches of two has the worker flushing, the channel full and a
  sender blocked with four messages; in `Chat` three messages fill batch, channel and sender.
- *TimeWheel*: with two slots a delay of 1 and of `SlotCount` are both there, and two tasks with
  one worker and a channel of one reach the blocked Submit.
- *Conversation*: a message between users and one in a group, or two in one group, are the pairs of
  updates that meet in one hash. One break is one pipeline that is sent again, or given up, at any of its commands.
- *Mahjong*: five tiles win (a run or triplet and a pair), so that pong, kong, chi, ting and
  the robbed kong are reached within four moves; of the decks one gives every hand all
  kinds, one gives triplets, one lets the second player take the first's fourth tile. Hands of
  four out of one array overlap as hands of 13 do. *Winning* uses full hands, over the upper end
  of a suit (6 to 9), a lone kind and a wind: runs at the edge of a suit, ambiguous splits and both rule sets' extra
  patterns are there, other suits are copies.
- *Access*: two connections are one that is replaced and one that replaces it, or two users' own.
  One restart numbers connections anew.
- *Data path*: two workers and a push are the three writers that can meet on one stream; a queue of one
  and two requests make Submit block; writeChan of two keeps an order to be broken (it is not filled: two pushes are all). With one
  connection the workers that a stalled client holds are those of its own requests; that clients of others suffer
  takes a second connection, which the proofs have and the run has not.
- *Client*: three connects are a login, one that overlaps it and one after a logout.
- *Web*: two devices on one platform are two logins that meet, or a logout beside a renewal; two friend
  handlers are any two transactions that meet, with a third user to be confused with; profiles of two users share
  nothing, so one is enough, and three handlers are two updates that overlap beside a login; a clock
  of 3 is beyond the life of a token (2); four ids exhaust a millisecond.

`MaxVer`, `MaxRestarts`, `MaxMoves`, `MaxGames`, `MaxFrames`, `MaxPushes`, `MaxConnects`, `MaxTime`, `MaxRequests`,
`MaxCalls`, `MaxLogins`, `MaxEdits`, `MaxClock`, `MaxMessages`, `MaxMounts`, `MaxChatPushes` and `MaxBreaks` bound only how long a behaviour is, in guards.

Every run sets `CHECK_DEADLOCK FALSE` because each system may really stop: a room that is evicted
(or at `MaxVer`), a batcher, scheduler or node that has been shut down, connections that are used up,
a client at the last of its calls, a hand of 14 tiles. What must not stop is stated as liveness.

**Fairness.** Goroutines run: a request that has been accepted (`Serve`), the eviction loop, the batcher's
worker, the NATS callback, the handlers and their conversation jobs, the tick loop, `main` once signalled, and
the client's connect once started. Arrivals, signals, clients that end or stall their stream,
Redis and PostgreSQL errors, panics and restarts are never forced. The Go `select` picks any ready
case, so a worker's fairness is over its whole step, not per case. Strong fairness is assumed in four places,
where a step is disabled again and again by others: the heartbeat checker does in the end find a connection
timed out whose handler is gone, although its sweep may be busy with others each time; the workers and write
loops of an access node get to write to a client that stalls and reads on again and again (that it reads on is not
assumed: one that keeps its connection alive and never reads does use up workers, and `QueuedIsHandled` says so); a worker of
the time wheel, which competes for the channel, gets a task; and the tick loop, whose `select` is ready for the stop
whenever it comes round, sees it.

**Findings** (`PROJECT.json` has the quotations):

1. On SIGTERM `main` cancels the context the batcher's worker listens to before the handlers
   are done (`cmd/logic/main.go:148`). A handler that blocks on the full channel is never released, and
   `subscriber.Stop` waits for it.
2. When a user reconnects, the old session's defer deletes the new one's location key
   (`server/server.go:142`). Heartbeats only EXPIRE the key, so it stays away: the user is online
   but gets no pushes.
3. Deleting a friendship marks its rows; accepting a new request inserts with ON CONFLICT DO NOTHING
   (`repository/friend.go:160`), reports success, and the two are not friends.
4. `sendFrame` writes header and body in two calls without a lock (`handler/handler.go:195`), while other workers and the
   write loop use the same stream.

Other behaviour met while modelling and kept in the models, without a property against it:

- *Logic.* Eviction removes a room, or a game, that has just become active (`room/manager.go:113`,
  `game/manager.go:106`). A game can start with a fifth member not ready. `IsHost` is set for the creator in
  Join only, so nobody can start once the creator has left (`room.go:100`). START_GAME has changed the room
  when its broadcast fails (`operations.go:246`). Broadcasts that overlap may leave an older picture of the table on a screen, and a push
  that fails is not repeated (`router.go:56`). Stop of the batcher leaves what is in its channel
  (`message_batcher.go:133`); a failed batch is dropped (`:196`); the last flush after a cancellation uses the
  cancelled context and stores nothing, although comments there promise to flush what remains (`:127`, `:133`), and `main` always
  cancels first; an ACK comes before the row is stored. `subscriber.Stop` closes `msgChan` while a
  callback may still send (`subscriber.go:160`). `last_msg_id` of a conversation may go back (`conversation.go:65`).
  A pipeline that is sent again counts a message twice (`conversation.go:66`, `:85`). When the members of a group cannot be read, an
  acknowledged message is shown to nobody (`chat_handler.go:72`). MarkRead sets the count to zero whatever message it names (`conversation.go:103`).
- *Locations.* A location looked up before a disconnect is cached after the event has cleared the cache
  (`location.go:47`); a second platform of a cached user gets no pushes; two access nodes keep a connection of
  the same user and platform each; after a restart connection ids start again. `sendToConnection` of an access node
  forwards chat pushes and message ACKs only (`downstream_handler.go`), so pushes of rooms and games reach no client; and
  `GameService.BroadcastGameEvent` reads its recipients from a set of users of the room in Redis that nothing writes.
- *Tasks and games.* A delay of `SlotCount` may run a turn early, and a task added while its slot is being passed waits a
  turn (`wheel.go:42`). `RemoveTask` looks in the wrong slot after a tick (`wheel.go:60`). Hands overlap in
  memory, and a hand that grows past its cut writes over the first tiles of the next one (`deck.go:62`). Offered claims stay in
  PendingTasks when the turn has moved on (`engine.go:101`), and a kong is admitted with any tile the client names. Win and QiangKong have no case in ExecuteAction (`htmajong/actions.go:187`), and
  `ProcessTaskTimeout` has no caller.
- *Access.* Workers leave with tasks in the queue at a shutdown, although a comment says they are waited for (`pool.go:104`); Submit may
  send on the closed channel. A client that keeps its connection alive and reads nothing holds the workers that answer it, and the
  NATS callback once its `writeChan` is full. Requests of one client run in any order (`handler.go:109`). A push that comes
  before `SetClientStream` is dropped (`connection.go:112`).
- *Web and client.* Two logins at once leave two good tokens. Two UpdateProfiles at once lose one of the changes;
  UpdateProfile does not touch `user:info` (`service/user.go:45`), so a room shows the profile as of the last login, or an older one if two
  logins overlapped; `docs/web-layer-architecture.md:778` has an update delete the cached copy. An error between the statements of Accept leaves an accepted
  request without a friendship (`service/friend.go:99`). The web and logic services give their generators the same number,
  1 (`cmd/web/main.go:82`, `cmd/logic/main.go:70`), so ids are unique per process only. The client does not reconnect
  after a lost connection (`WebTransportManager.ts:293`), listeners are never removed, so that a push counts once per mount of the
  page, what comes before the first mount is lost to the client, and overlapping connects can leave a session that nobody owns.

## 4. Proofs

| Theorem | States | In |
|---|---|---|
| `RoomTyped` | `Spec => []TypeOK` | `RoomProofs` |
| `RoomMembersDistinct` | `Spec => []MembersDistinct` | |
| `RoomSeatsDistinct` | `Spec => []SeatsDistinct` | |
| `RoomLatestIsPushed` | `Spec => []LatestIsPushed` | |
| `RoomGameFrozen` | `Spec => GameFrozen` | |
| `RoomImplementsTable` | `Spec => ImplementsTable` | |
| `BatcherTyped` | `BatcherSafety => []BatcherTypeOK` | `MessageBatcherProofs` |
| `BatcherInOrderOnce` | `BatcherSafety => []InOrderOnce` | |
| `BatcherNeverFlushedTwice` | `BatcherSafety => []NeverFlushedTwice` | |
| `BatcherQuietAfterStop` | `BatcherSafety => []QuietAfterStop` | |
| `BatcherFlushedIsKept` | `BatcherSafety => []FlushedIsKept` | |
| `ChatTyped` | `ChatSpec => []ChatTypeOK` | `ChatProofs` |
| `ChatImplementsBatcher` | `ChatSpec => BatcherSafety` | |
| `ChatOnePlace` | `ChatSpec => []OnePlace` | |
| `ChatAckedIsKept` | `ChatSpec => []AckedIsKept` | |
| `ChatStoppedWhenQuiet` | `ChatSpec => []StoppedWhenQuiet` | |
| `WheelTypes` | `WheelSpec => []WheelTypeOK` | `LogicServicesProofs` |
| `WheelExecutedOnce` | `WheelSpec => []ExecutedOnce` | |
| `WheelOnTime` | `WheelSpec => []OnTime` | |
| `ConversationTypes` | `ConvSpec => []ConvTypeOK` | |
| `ConversationUnread` | `ConvSpec => []UnreadIsRouted` | |
| `ServicesTyped` | `ServicesSpec => []ServicesTypeOK` | |
| `ServicesSound` | the safety properties of the run `LogicServices`, and `FlushedIsKept` | |
| `AccessTyped` | `AccessSpec => []AccessTypeOK` | `AccessProofs` |
| `AccessMapsAgree` | `AccessSpec => []MapsAgree` | |
| `AccessOpenIsFound` | `AccessSpec => []OpenIsFound` | |
| `AccessLocationNamesOwner` | `AccessSpec => []LocationNamesOwner` | |
| `PresenceNoMisdelivery` | `PresenceSpec => []NoMisdelivery` | |
| `StreamTyped` | `StreamSpec => []StreamTypeOK` | `EdgeProofs` |
| `StreamRequestInOnePlace` | `StreamSpec => []RequestInOnePlace` | |
| `StreamPushesInOrder` | `StreamSpec => []PushesInOrder` | |
| `ClientOneSession` | `ConnectionSpec => []OneSession` | |
| `EdgeSound` | the invariants of the run `Edge` | |
| `SnowflakeTyped` | `SnowflakeSpec => []SnowflakeTypeOK` | `WebProofs` |
| `SnowflakeUnique` | `SnowflakeSpec => []IDsUnique` | |
| `SnowflakeFollowsTime` | `SnowflakeSpec => IDsFollowTime` | |
| `FriendsSound` | `FriendsSpec => []FriendshipSound` | |
| `TokensGood` | `AccountsSpec => [](AccountsTypeOK /\ GoodTokens)` | |
| `ProfilesSound` | `ProfilesSpec => [](ProfilesTypeOK /\ ProfilesKept)` | |
| `InboxTrue` | `InboxSpec => [](InboxTypeOK /\ InboxIsTrue)` | |
| `WebTyped` | `WebSpec => []WebTypeOK` | |
| `AccountsAreSound` | `WebSpec => []AccountsSound` | |
| `GameTyped` | `GameSpec => []GameTypeOK` | `GamesProofs` |
| `GameOneDealt` | `GameSpec => []OneDealtGame` | |
| `MahjongTyped` | `MahjongSpec => []MahjongTypeOK` | |
| `MahjongTilesConserved` | `MahjongSpec => TilesConserved` | |
| `MahjongOffersMatch` | `MahjongSpec => OffersMatch` | |
| `WinningComplete` | `WinningSpec => []BasicWinIsComplete` | |
| `WinningPays` | `WinningSpec => []WinPays` | |
| `GamesArePlayed` | `GamesSpec => MahjongSpec /\ GameSpec /\ WinningSpec` | |
| `GamesTyped` | `GamesSpec => []GamesTypeOK` | |

`BatcherSafety` is `BatcherSpec` without its fairness, so that a system the batcher is part of can be shown to
imply it.

They hold for any users, seats, number of concurrent requests or handlers, batch size, channel capacity,
connections, nodes, restarts, starts of a game, node numbers and width of the sequence, tasks, slots and workers, users,
groups, messages and breaks, frames, listeners and mounts, players, decks and sizes of a hand, and for any value of the bounds. The
assumptions are the named ASSUMEs of the modules (finite set of requests, positive capacities, a
`None` that is no connection and no user, a `NoGame` that is no call and no game, a `Nothing` that is no push, an
"exited" that names no task, finitely many users who write, kinds of tiles with a suit of 0 to 3 and a value of 1 to 9 as
`GenerateDeck` makes them, decks with more tiles than are dealt, a winning hand of a pair and threes), which TLC evaluates in the runs.

`MembersDistinct` and `SeatsDistinct` are inductive with `TypeOK`: whatever the racy
scan returns, `Room.Join` and `Room.ChangeSeat` look again under the lock, and `Leave`
only shifts the slice (lemmas about `Append`, an updated element and `Without`).

`LatestIsPushed` speaks of quiet moments only, so it needs an invariant about all moments.
`Announced` has three parts: `NoRoomYet` (before CREATE nothing has happened); `NobodyMissed`: for each member of a listed
room, either a push of the newest version has been tried to them, or some running request will still do it -
one that is to copy the room, or one that holds the newest copy and has not read the
recipients, or one that holds it and has the member on its list (`Owed`); and `NothingCrosses`: while the newest change has
overlapped no other broadcast, every copy under way is of the newest version, so that whoever it was tried to shows it or
it was lost. The copy is taken after the change and the recipients are read after the copy; exchanging those breaks the step of
`BroadcastToRoom`.

`BatcherInOrderOnce` rests on the type invariant (a sender is blocked only on a full channel)
and on the fact that a receive and the entry of the longest blocked sender are one step (lemmas
`ChannelSave`, `ChannelTake` about concatenation).

`RoomGameFrozen` is an action property. Lemma `StatusChange` says which
steps touch the status and `PlayersChange` which touch the players; with the type invariant
(what `Leave` shifts and `Ready` toggles keeps users and seats) each step of a playing room is frozen.

`BatcherNeverFlushedTwice` needs a strengthening about messages not yet written: `Fresh`, the
concatenation of what was handed over and what blocked senders hold has no duplicates. Together
with `InOrderOnce` it gives the property, since what is flushed is a prefix of what was handed
over. `QuietAfterStop` is inductive as it stands.

`RoomImplementsTable` reads the list of players as a function from users to seats, which is
one only because no user is in the list twice (`Distinct`). One lemma per kind of change
(`SeatingAppend`, `SeatingWithout`, `SeatingExcept`, `SeatingReady`) says what it does to that
function, so that each locked change is a step of `RoomTable`. The seat a JOIN brings
from its unlocked scan must be a seat of the table: `SeatFits` carries that from `AllocateSeat` to
`Join`.

The theorems about `Access` share `Indexed`: a node lists its own connections only, a handler
that has begun has an identity, a user's entry never names a connection that has not
authenticated, and `MapsAgree`. From it `RemoveEffect` follows: `Manager.Remove`
clears the entries that name the connection and no others. `OpenIsFound` speaks of served
connections; `BoundIsFound` extends it back to the moment `BindUser` returns, and `OldIsLocal`
says that the connection a new one is about to close is of the same node, so that a crash takes
both or neither. `LocationNamesOwner` needs `Numbered`: ids are below the node's
counter and different, and every location names the connection that wrote it. Its
hypothesis "no restart" is where `connIDCounter` starting from 1 again bites.

`BatcherFlushedIsKept` needs `NotInVain`: while the context lives no flush is under way with a cancelled one, so a flush that ends writes
its rows or PostgreSQL has refused them. It ends at the cancel, because what follows is lost indeed; `ElemsConcat` carries it over
concatenation.

`PresenceNoMisdelivery` rests on the theorems about `Access`, whose invariant a step of `Presence` keeps. `AllOwned`
says of every address in a cache, in a lookup and in a push that it is that of a connection its
user has bound, perhaps long ago. An address enters only from Redis, where `LocationNamesOwner` holds; `OwnedStays`
says that a connection keeps its node, id and user for ever; and as ids are different on a node until it restarts, the
connection found by id is that one (`OwnedNames`).

`SnowflakeUnique` needs `Below`: what a process has issued lies below the id it would give next, because
a millisecond has room for more ids than the sequence has values (`SpanEnough`).

`GameOneDealt` adds to the property `EngineIsSet` (a call between setting and initialising finds an engine) and
the types of what a call holds.

`FriendsSound` has the largest invariant, one named part per thing a handler holds between two
statements: `AnswersKnown` (the request it answers is accepted before it writes), `RowsHeld` and `HeldOnce` (the rows it has
written are of its own pair, as it found them, and locked), `RacesSeen` (what overlaps is in `raced`),
`BothOrNeither` (without a race the second row of a transaction goes the way of the first) and
`PendingSeen` (a send that has looked found nothing, and nobody has sent since).

`ChatImplementsBatcher` is a refinement without a mapping: `Chat` has the batcher's variables, and `Carrying` (a worker
that saves has a message) is what makes a worker's step one of `SaveMessage`. The other theorems about `Chat` then use those about
the batcher. `ChatAckedIsKept` needs `AckedReturned` (who is acknowledged has been handed over) and takes from the batcher that what was
handed over is flushed, in the batch or in the channel (`InOrderOnce`), and that what was flushed is kept (`FlushedIsKept`). `ChatStoppedWhenQuiet` needs
`WorkersGone` (main reaches the stop only when every worker has exited) and `Blocked` (whoever waits for room is a worker that
saves). `ChatOnePlace` is `Placed` and `NoDoubles`: a message is with NATS, the callback, the buffer, one worker or
past them, no two of these, and not twice in the buffer.

The theorems about `TimeWheel` have `PlacesInv` and `ClockInv`. `PlacesInv` is `ExecutedOnce` without counting:
the slots, the batch, the channel, the workers and the tasks that ran are disjoint, each has a task once, and a task not added or
said to be removed is in none. `ClockInv` ties a task to its slot: `Due` says that while it is
younger than a turn, current slot + delay - slot - age is a multiple of the wheel's size, and the ticks it has waited with the ticks
until its slot comes (`Left`) are within one turn. `TargetIs` is the arithmetic of the slot computed when it is added. `Due`
holds from `AddTask` on although the insertion comes later, which is what a lock already released could break.

`ConversationUnread` has `CountInv`: for every user and peer the unread count plus the messages whose HINCRBY is still to come
(`Uncounted`) is at most what was routed and the number of breaks, and, while no pipeline has been given up, at least what was routed since
the last mark; `JobsInv` says
that a pipeline counts only for those its message was routed to and holds no command twice, so that carrying out one command takes
exactly one message from `Uncounted`. `IndexInv` says that, unless a pipeline was given up, a routed message is listed or its ZADD is to come. Sending a pipeline again adds its
message to `Uncounted` once for each user, which the one more break pays for. The total over a
user's list is a sum; the proof gives a bijection between the pairs of a conversation and a number up to its count and the messages
routed, so no induction over the list is needed.

`StreamRequestInOnePlace` is `TaskInv`: the frames read are parted (`Parted`) into those with a reader, in the queue, at workers,
handled and refused, and nothing is refused before the pool is cancelled. `StreamPushesInOrder` is `PushInv`: per connection what
is written, what the write loop holds, what is queued and what the callback holds rise in this order. `StreamTyped` adds
`HeaderWritten`: a stream is between header and body of exactly the workers that are.

`ClientOneSession` is `ConnectionInv`, which says of a client whose connects have not overlapped where its calls are: all but the last
are over (`EarlierOver`), the manager names the last unless it was aborted (`TransportIsLast`), what its status says of it
(`LastCall`), and the heartbeat runs for a call that has ended well (`OneTimer`). No await is a place where another call could
have come in between, because that would have set `overlapped`.

`TokensGood` has two parts per user and platform, as long as no two logins overlapped: `Named` (the good tokens are the one
user:token names, which does not expire before it) and `OneLogin` (one handler logs in, and once it has read the old token, the good
tokens are the one it will delete). `ProfilesSound` has `RowOf` and `InHand`: what a login has read the row has had, and not before the
newest that was saved, if it runs alone; and an update that runs alone still has the row as it is.

`InboxTrue` is about a loop: each listener handles a push in turn, and the number of listeners is any. The state after it is
`handled[listeners]` of a recursive function, and the claim about it is proved by induction: `NatSetInduction` says of a set with 0
and with each successor that it has all of Nat, a statement without an operator parameter, which follows from the library's
theorem that < is well-founded. `AfterPush` is what holds after n listeners: one copy of the message, an unread count raised by
at most n, and by at least one if n is not 0 and the conversation is not open.

The theorems about `Mahjong` have `MahjongInv`: the types, that every hand's slice lies in front of the deck in the shared
array, and `DiscardOnTop`: the last discard is the top of its player's pile. A hand may overlap the next one's, so what a call writes
is bounded by the slice it grows or shrinks, never by the owner of the place (`HandTurns`, `HandStep`). `TilesConserved` is shown call
by call: `TurnOf` says what the hand, the pile and the melds of the player get of a kind, what was drawn and what was taken from the
pile of another, and that the sums agree; `KnownTurn` turns it into the count over all that lies open. That count is one of
numbered pairs, so that one more tile is one more element (`NumberedMoved`), without an induction over players. Nothing like
it is true of the hands of the other players. `OffersMatch` needs `AvailableHolds`, `JudgedIsLegal` (what a judged claim offers is counted
in the same slice that validation reads) and `ClaimsAreOffered` for the other direction.

`WinningComplete` is about a recursion on tallies: `checkMianZi` takes a triplet or a run away and calls itself. That
the recursive function is what its equation says cannot be had from the library, so the proof gives a solution (`Good`: a tally
is good if it splits into chosen runs and triplets) that meets the equation (`GoodIsFound`), and shows it is the
only one, by a least tally on which two would differ (`MeldsAre`, from the library's theorem that < is well-founded).
`GoodIsFound` is the argument for the search itself: the first tile of a good hand is in a triplet or starts a
run (`FirstSplits`), since no run can come before it (`NothingBefore`), and a rest that splits still does with the
triplet or the run put back (`TripletBack`, `RunBack`), so that trying both there loses no hand and adds none.

`ServicesTyped`, `ServicesSound`, `EdgeSound`, `WebTyped`, `AccountsAreSound`, `GamesArePlayed` and `GamesTyped` carry the theorems over to the compositions the runs check.

`MembersDistinct`, `SeatsDistinct`, `GameFrozen`, `BatcherTypeOK`, `NeverFlushedTwice`, `QuietAfterStop`, `FlushedIsKept`,
`AccessTypeOK`, `MapsAgree`, `IDsFollowTime`, `SnowflakeTypeOK`, `WheelTypeOK`, `ConvTypeOK`, `StreamTypeOK`, `MahjongTypeOK` and `GameTypeOK` are not
properties of a run in their own name: the first three are part of what `ImplementsTable` checks, the type invariants are mostly conjuncts
of those of the composed runs, the others are steps on the way or proved only (`FlushedIsKept` is what `AckedIsKept` rests on).

Only model-checked: all liveness (fairness and ENABLED are out of TLAPS's reach), and the four findings.

## 5. Not modelled, and why

- *Web groups* (`web-go/internal/repository/group.go`): nothing in the repository calls it, so there is no
  behaviour to model. What logic reads of the groups is in `Conversation`.
- *Configuration, start-up and HTTP plumbing*: read once, no state afterwards. The shutdown order of `main` is in
  `Chat`, that of an access node in `AccessStream`.
- *FlatBuffers code*: generated. Frames are whole requests or pushes, except in `AccessStream`, where the two writes
  of a frame are apart.
- *Pages of the client*, its friend store and its HTTP client: rendering and single requests.
- *Passwords, disabled users*, the refresh token (no route takes it), history queries and lists: reads, or writes of
  single rows.
- *Within the modelled parts*: payloads and error texts are abstracted; the torn slice header of
  the seat scan (pointer of one slice with the length of another) is left out; scores, times and ids in
  conversations are numbers of messages; the clock of `Snowflake` does not step back.
- *NATS*: a message is taken by one subscriber, or lost when its node is down; loss between several NATS servers and
  reconnects of the NATS client are not considered.
- *Composition*: `Room` ends at "dispatched towards a user" and `Presence` begins with a push. Composing
  them would make "dispatched" into "delivered if the location is right"; the product of the two state
  spaces is too large for the instances above, and neither reads the other's state.
