\* Two replicas, two monitors of interval 1 and 2, one row per tick; two
\* sessions, three results of any outcomes.
SPECIFICATION ReplicasSpec
CONSTANTS
  m1 = m1
  m2 = m2
  l1 = l1
  k1 = k1
  s1 = s1
  s2 = s2
  NoAgent = NoAgent
  Agent = {}
  Monitor = {m1, m2}
  Location = {l1}
  Assigned <- MCAssigned
  AgentLocation <- MCAgentLocation
  AgentKinds <- MCAgentKinds
  MonitorKind <- MCMonitorKind
  LeaseDuration = 1
  Grace = 1
  MaxTime = 3
  Slots <- MCSlots
  Replica <- Server
  Interval <- MCInterval
  DueLimit = 1
  Session <- Server
  ProbeResult = {1, 2, 3}
  Thresholds <- MCThresholds
  CounterModulus = 5
INVARIANTS
  RunsOnGrid
  DroppedOnlyForLater
  CommittedTogether
  NoIncidentConflict
  NoDoubleCount
PROPERTIES
  ScheduleNeverRewinds
  DueIsScheduled
  SweepReplacesListedRow
  SessionEnds
CHECK_DEADLOCK FALSE
