---------------------------- MODULE MCProjection ----------------------------
(* One monitor with two required locations, or with one optional location. *)
EXTENDS Projection

CONSTANTS m1, l1, l2, s1
MCTwoLocations == {<<m1, l1>>, <<m1, l2>>}
MCOneLocation == {<<m1, l1>>}
MCNone == {}
MCInterval == [m \in Monitor |-> 1]
MCProbeTimeout == [m \in Monitor |-> 0]
MCThresholds == [m \in Monitor |-> [failures |-> 2, recoveries |-> 1]]
=============================================================================
