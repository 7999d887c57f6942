--------------------------- MODULE MCAgentWorker ---------------------------
(* The agents of one location work off the runs of one monitor.            *)
EXTENDS AgentWorker, TLC

CONSTANTS m1, l1, k1, a1, a2
MCAssigned == {<<m1, l1>>}
MCAgentLocation == [a \in Agent |-> l1]
MCAgentKinds == [a \in Agent |-> {k1}]
MCMonitorKind == [m \in Monitor |-> k1]
MCInterval == [m \in Monitor |-> 1]
MCSymmetry == Permutations(Agent)
=============================================================================
