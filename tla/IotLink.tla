------------------------------ MODULE IotLink -------------------------------
(***************************************************************************)
(* Three parts of iot_link: the firmware update, the queue it gets its     *)
(* messages from, and the AT client.  The update is over what the queue    *)
(* promises (PacketQueue), and IotQueue keeps that promise for any tasks;  *)
(* the AT client shares nothing with them.  So they run side by side, and  *)
(* a behaviour uses one of them.                                           *)
(***************************************************************************)
EXTENDS IotQueue, Pcp, AtClient

VARIABLE uses   \* which of them the application uses; rigid

vars == <<pcpVars, queueVars, atVars, uses>>

\* The choices a behaviour does not use are made in one way.
Init == /\ PcpInit /\ QueueInit /\ at_init
        /\ uses \in {"update", "queue", "commands"}
        /\ uses # "update" => faults = CHOOSE f \in FaultSets : TRUE
        /\ uses # "commands" => prompt

Next == \/ uses = "update" /\ PcpNext /\ UNCHANGED <<queueVars, atVars, uses>>
        \/ uses = "queue" /\ QueueNext /\ UNCHANGED <<pcpVars, atVars, uses>>
        \/ uses = "commands" /\ AtNext /\ UNCHANGED <<pcpVars, queueVars, uses>>

Spec == Init /\ [][Next]_vars

FairSpec == Spec /\ (uses = "update" => PcpFairness)
=============================================================================
