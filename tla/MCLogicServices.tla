--------------------------- MODULE MCLogicServices ---------------------------
(* Services of a logic node that share no state: the message batcher, the     *)
(* task scheduler and the conversations.  A behaviour runs one of them and    *)
(* the others rest.                                                           *)
EXTENDS MessageBatcher, TimeWheel, Conversation

VARIABLE part

TwoDelays == {1, 2}

TwoUsers == {"a", "b"}
OneGroup == {"g"}
Two == 1 .. 2
Script(x) == [m \in Two |-> IF m = 1 THEN [from |-> "a", to |-> x] ELSE [from |-> "b", to |-> "g"]]
PeerAndGroup == {Script("b"), Script("g")}

servicesVars == <<part, batcherVars, wheelVars, convVars>>

ServicesInit ==
  /\ part \in {"batcher", "scheduler", "conversations"}
  /\ BatcherInit /\ WheelInit /\ ConvInit
  /\ part # "conversations" => script = Script("g")

ServicesNext ==
  /\ UNCHANGED part
  /\ \/ /\ part = "batcher" /\ BatcherNext
        /\ UNCHANGED <<wheelVars, convVars>>
     \/ /\ part = "scheduler" /\ WheelNext
        /\ UNCHANGED <<batcherVars, convVars>>
     \/ /\ part = "conversations" /\ ConvNext
        /\ UNCHANGED <<batcherVars, wheelVars>>

ServicesSpec ==
  /\ ServicesInit /\ [][ServicesNext]_servicesVars
  /\ BatcherFairness /\ WF_wheelVars(part = "scheduler" /\ AdvanceTick) /\ WheelRuns
  /\ \A m \in ConvMsgs : WF_convVars(part = "conversations" /\ Handler(m))
  /\ JobsRun

\* The types of the three services, and the bounds of their queues and counters.
ServicesTypeOK == BatcherTypeOK /\ WheelTypeOK /\ ConvTypeOK
=============================================================================
