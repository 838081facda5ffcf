------------------------------- MODULE MCEdge -------------------------------
(* The two ends of a connection: the maps and the data path of an access node *)
(* and the connection of the desktop-web client.  They are checked apart: a   *)
(* behaviour runs one of them and the others rest.                            *)
EXTENDS Access, AccessStream, ClientConnection

VARIABLE part

edgeVars == <<part, accessVars, streamVars, clientConnVars>>

EdgeInit ==
  /\ part \in {"access", "stream", "connection"}
  /\ AccessInit /\ StreamInit /\ ConnectionInit

EdgeNext ==
  /\ UNCHANGED part
  /\ \/ /\ part = "access" /\ AccessNext
        /\ UNCHANGED <<streamVars, clientConnVars>>
     \/ /\ part = "stream" /\ StreamNext
        /\ UNCHANGED <<accessVars, clientConnVars>>
     \/ /\ part = "connection" /\ ConnectionNext
        /\ UNCHANGED <<accessVars, streamVars>>

EdgeSpec ==
  /\ EdgeInit /\ [][EdgeNext]_edgeVars
  /\ AccessFairness /\ ConnectionFairness
  /\ \A c \in StreamConns : WF_streamVars(part = "stream" /\ HandleStream(c))
  /\ NodeRuns
=============================================================================
