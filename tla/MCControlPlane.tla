--------------------------- MODULE MCControlPlane ---------------------------
(* One monitor at one location, with the replicas and agents of the cfg.    *)
EXTENDS ControlPlane

CONSTANTS m1, l1, k1, i1, s1, a1, a2
MCAssigned == {<<m1, l1>>}
MCAgentLocation == [a \in Agent |-> l1]
MCAgentKinds == [a \in Agent |-> {k1}]
MCMonitorKind == [m \in Monitor |-> k1]
MCInterval == [m \in Monitor |-> 1]
MCProbeTimeout == [m \in Monitor |-> 0]
MCThresholds == [m \in Monitor |-> [failures |-> 2, recoveries |-> 1]]

\* Bound: two runs are enqueued, each leased at most twice.
FewRuns ==
  /\ Cardinality({r \in Run : runs[r].status # "absent"}) <= 2
  /\ \A r \in Run : runs[r].attempt <= 2

\* Only the steps of the scheduler and of the agents, which owe nothing, can
\* leave the bound: no step that fairness demands is cut off.
MCControlSpec == ControlInit /\ [][ControlNext /\ FewRuns']_controlVars /\ ControlFairness

\* The scheduler has enqueued the runs of times 0 and 1 and then
\* the replica that ran it is gone (Replica is empty in that cfg).
MCEnqueuedInit ==
  /\ now = 1
  /\ runs = [r \in Run |-> IF r.at <= 1
                          THEN [AbsentRow EXCEPT !.status = "available"]
                          ELSE AbsentRow]
  /\ results = [r \in Run |-> NoResult]
  /\ claimAt = [a \in Agent |-> NoRead]
  /\ grants = {}
  /\ nextRun = [m \in Monitor |-> 2]
  /\ tickAt = [i \in Replica |-> NoTick]
  /\ due = [i \in Replica |-> {}]
  /\ ProjectionInit

\* Bounds: an agent works on one run, so two results come from two agents, and
\* its probe ended after the lease began, as with clocks that agree.
OneRunEach == \A g, h \in grants : g.agent = h.agent => g = h
FinishedAfterLease ==
  \A r \in Run : ResultExists(r) => results[r].finished + LeaseDuration >= runs[r].expires
OrderlyAgents == OneRunEach /\ FinishedAfterLease

MCStaleSpec == MCEnqueuedInit /\ [][ControlNext]_controlVars /\ ControlFairness
=============================================================================
