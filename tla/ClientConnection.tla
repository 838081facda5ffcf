--------------------------- MODULE ClientConnection ---------------------------
(***************************************************************************)
(* The desktop-web client's connection: authStore says whether the user is *)
(* logged in, IMProvider connects or disconnects when that changes,        *)
(* imStore keeps the status the pages see and WebTransportManager the      *)
(* transport, the stream and the heartbeat.  JavaScript runs one piece at  *)
(* a time, and connect has three awaits (the transport is ready, the       *)
(* stream exists, the auth frame is written) between which anything else   *)
(* may run; all calls share the manager's fields.                          *)
(***************************************************************************)
EXTENDS Integers, FiniteSets

CONSTANT MaxConnects   \* bound on the calls of connect

ASSUME MaxConnectsAssumption == MaxConnects \in Nat

VARIABLES
  loggedIn,     \* authStore.isAuthenticated
  store,        \* imStore.status
  status,       \* the manager's status
  call,         \* per call of connect where it is
  net,          \* per call the state of the WebTransport it made
  on,           \* per call the transport its stream is on
  transport,    \* this.transport, a call's or 0 for null
  controller,   \* the call that made this.abortController
  aborted,      \* calls whose AbortController is aborted
  sendWriter,   \* the transport sendWriter writes to, 0 for null
  receiveReader, \* likewise receiveReader
  isReceiving,
  intervals,    \* heartbeat timers that run
  heartbeat,    \* heartbeatInterval is set
  overlapped    \* ghost: a connect has begun while another was under way

clientConnVars == <<loggedIn, store, status, call, net, on, transport, controller, aborted,
                    sendWriter, receiveReader, isReceiving, intervals, heartbeat, overlapped>>
streamState == <<sendWriter, receiveReader, isReceiving, intervals, heartbeat>>
managerState == <<transport, controller, aborted>>

Calls == 1 .. MaxConnects
UnderWay(k) == call[k] \in {"ready", "stream", "auth"}
OpenSessions == {k \in Calls : net[k] = "open"}

ConnectionInit ==
  /\ loggedIn = FALSE /\ store = "disconnected" /\ status = "disconnected"
  /\ call = [k \in Calls |-> "none"] /\ net = call
  /\ on = [k \in Calls |-> 0]
  /\ transport = 0 /\ controller = 0 /\ aborted = {}
  /\ sendWriter = 0 /\ receiveReader = 0 /\ isReceiving = FALSE
  /\ intervals = 0 /\ heartbeat = FALSE
  /\ overlapped = FALSE

(* ----- login and logout, with the effect of IMProvider ----- *)

\* imStore.connect and the manager's connect up to its first await.  When the
\* manager has a connection already it returns, and imStore takes that for
\* success.
Login ==
  /\ ~loggedIn /\ loggedIn' = TRUE
  /\ IF store \in {"connecting", "authenticated"}
     THEN UNCHANGED <<store, status, call, net, managerState, overlapped>>
     ELSE IF status \in {"connected", "connecting"}
     THEN store' = "authenticated" /\ UNCHANGED <<status, call, net, managerState, overlapped>>
     ELSE \E k \in Calls :
            /\ \A j \in Calls : call[j] = "none" <=> j >= k
            /\ store' = "connecting" /\ status' = "connecting"
            /\ call' = [call EXCEPT ![k] = "ready"]
            /\ net' = [net EXCEPT ![k] = "connecting"]
            /\ transport' = k /\ controller' = k
            /\ overlapped' = (overlapped \/ \E j \in Calls : UnderWay(j))
            /\ UNCHANGED aborted
  /\ UNCHANGED <<on, streamState>>

\* Mutant: the timer goes on.
Bug_StopHeartbeat == UNCHANGED <<intervals, heartbeat>>

StopHeartbeat ==
  /\ intervals' = IF heartbeat THEN intervals - 1 ELSE intervals
  /\ heartbeat' = FALSE

\* disconnect: a transport that is still connecting is left to connect.
Logout ==
  /\ loggedIn /\ loggedIn' = FALSE
  /\ StopHeartbeat
  /\ aborted' = aborted \cup ({controller} \ {0})
  /\ sendWriter' = 0 /\ receiveReader' = 0
  /\ net' = IF status = "connected" /\ transport # 0
            THEN [net EXCEPT ![transport] = "closed"] ELSE net
  /\ transport' = 0 /\ isReceiving' = FALSE
  /\ status' = "disconnected" /\ store' = "disconnected"
  /\ UNCHANGED <<call, on, controller, overlapped>>

(* ----- connect, from its awaits on ----- *)

\* The catch clause, and that of imStore.
Catch(k) ==
  /\ call' = [call EXCEPT ![k] = "failed"]
  /\ status' = "disconnected" /\ store' = "error"

\* Mutant: connect does not look whether it was cancelled.
Bug_ConnectCancelled == FALSE

\* signal.aborted of the controller the manager has by now.
ConnectCancelled == controller \in aborted

\* After transport.ready.
Ready(k) ==
  /\ call[k] = "ready" /\ net[k] \in {"open", "closed"}
  /\ \/ /\ net[k] = "closed"
        /\ Catch(k) /\ UNCHANGED <<net, on, transport>>
     \/ /\ net[k] = "open" /\ ConnectCancelled
        /\ net' = [net EXCEPT ![k] = "closed"] /\ transport' = 0
        /\ Catch(k) /\ UNCHANGED on
     \/ /\ net[k] = "open" /\ ~ConnectCancelled /\ transport = 0
        /\ Catch(k) /\ UNCHANGED <<net, on, transport>>
     \/ /\ net[k] = "open" /\ ~ConnectCancelled /\ transport # 0
        /\ status' = "connected"
        /\ call' = [call EXCEPT ![k] = "stream"] /\ on' = [on EXCEPT ![k] = transport]
        /\ UNCHANGED <<store, net, transport>>
  /\ UNCHANGED <<loggedIn, controller, aborted, streamState, overlapped>>

\* After createBidirectionalStream; send refuses when the manager is no longer
\* connected.
InitializeStream(k) ==
  /\ call[k] = "stream" /\ net[on[k]] \in {"open", "closed"}
  /\ IF net[on[k]] = "closed"
     THEN Catch(k) /\ UNCHANGED <<sendWriter, receiveReader>>
     ELSE /\ sendWriter' = on[k] /\ receiveReader' = on[k]
          /\ IF transport = 0 \/ status # "connected"
             THEN Catch(k)
             ELSE call' = [call EXCEPT ![k] = "auth"] /\ UNCHANGED <<status, store>>
  /\ UNCHANGED <<loggedIn, net, on, managerState, isReceiving, intervals, heartbeat, overlapped>>

\* After the auth frame is written: nobody waits for the answer.  A write that
\* was under way when the transport closed may have ended well or not.
Authenticated(k) ==
  /\ call[k] = "auth"
  /\ \/ /\ call' = [call EXCEPT ![k] = "done"]
        /\ isReceiving' = (isReceiving \/ receiveReader # 0)
        /\ intervals' = intervals + 1 /\ heartbeat' = TRUE
        /\ store' = "authenticated"
        /\ UNCHANGED <<status, sendWriter>>
     \/ /\ net[on[k]] = "closed"
        /\ Catch(k) /\ sendWriter' = 0
        /\ UNCHANGED <<isReceiving, intervals, heartbeat>>
  /\ UNCHANGED <<loggedIn, net, on, managerState, receiveReader, overlapped>>

(* ----- the network ----- *)

NetBecomes(k, state) ==
  /\ net' = [net EXCEPT ![k] = state]
  /\ UNCHANGED <<loggedIn, store, status, call, on, managerState, streamState, overlapped>>

NetAnswers(k) == net[k] = "connecting" /\ \E s \in {"open", "closed"} : NetBecomes(k, s)

\* The server closes the session, it restarts, or the network is gone.  The read
\* loop ends, whether its read throws or is done: handleIncomingStream catches
\* its own errors, so handleDisconnect never runs and no field changes.
NetLost(k) == net[k] = "open" /\ NetBecomes(k, "closed")

\* A heartbeat cannot be written.
HeartbeatFails ==
  /\ intervals > 0 /\ status = "connected"
  /\ sendWriter # 0 /\ net[sendWriter] = "closed"
  /\ sendWriter' = 0
  /\ UNCHANGED <<loggedIn, store, status, call, net, on, managerState, receiveReader, isReceiving,
                 intervals, heartbeat, overlapped>>

Connecting(k) == Ready(k) \/ InitializeStream(k) \/ Authenticated(k)

ConnectionNext ==
  \/ Login \/ Logout \/ HeartbeatFails
  \/ \E k \in Calls : Connecting(k) \/ NetAnswers(k) \/ NetLost(k)

\* Promises are settled and their continuations run; a timer fires.
ConnectionFairness ==
  /\ \A k \in Calls : WF_clientConnVars(Connecting(k)) /\ WF_clientConnVars(NetAnswers(k))
  /\ WF_clientConnVars(HeartbeatFails)

ConnectionSpec == ConnectionInit /\ [][ConnectionNext]_clientConnVars /\ ConnectionFairness

(* ----- properties ----- *)

\* Unless connects overlapped, the client holds one session at most, and it is
\* the one this.transport names, so disconnect closes it; one that is still
\* named by nothing belongs to a connect that will close it.  Likewise one
\* heartbeat timer runs at most, and the manager holds the handle to stop it.
OneSession ==
  overlapped \/
  /\ Cardinality(OpenSessions) <= 1
  /\ \A k \in OpenSessions : k = transport \/ (call[k] = "ready" /\ k \in aborted)
  /\ intervals <= (IF heartbeat THEN 1 ELSE 0)

\* A user who logs out has no session in the end, also when a connect was under
\* way (WebTransportManager.ts connect checks whether it was aborted), unless
\* connects overlapped.
LogoutCloses == (~loggedIn) ~> (loggedIn \/ overlapped \/ OpenSessions = {})
===============================================================================
