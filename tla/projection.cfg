\* Two required locations, one sweeper, deadlines three units after a probe.
SPECIFICATION ProjectionSpec
CONSTANTS
  m1 = m1
  l1 = l1
  l2 = l2
  s1 = s1
  Monitor = {m1}
  Location = {l1, l2}
  Assigned <- MCTwoLocations
  Required <- MCTwoLocations
  Interval <- MCInterval
  ProbeTimeout <- MCProbeTimeout
  Thresholds <- MCThresholds
  LeaseDuration = 1
  Sweeper = {s1}
  MaxTime = 4
  CounterModulus = 3
  Skew = 0
INVARIANTS
  MonitorMatchesLocations
  IncidentMatchesMonitor
  LostLocationHasIncident
PROPERTIES
  StaleOnlyWhenOverdue
  EventsChain
CHECK_DEADLOCK FALSE
