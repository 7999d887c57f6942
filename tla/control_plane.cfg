\* One replica and one agent with two runs; deadlines are three units after a
\* probe.
SPECIFICATION MCControlSpec
CONSTANTS
  m1 = m1
  l1 = l1
  k1 = k1
  i1 = i1
  s1 = s1
  a1 = a1
  a2 = a2
  NoAgent = NoAgent
  Agent = {a1}
  Monitor = {m1}
  Location = {l1}
  Assigned <- MCAssigned
  Required <- MCAssigned
  AgentLocation <- MCAgentLocation
  AgentKinds <- MCAgentKinds
  MonitorKind <- MCMonitorKind
  Interval <- MCInterval
  ProbeTimeout <- MCProbeTimeout
  Thresholds <- MCThresholds
  LeaseDuration = 1
  Grace = 1
  MaxTime = 3
  Slots = {0, 1, 2, 3}
  Replica = {i1}
  DueLimit = 1
  Sweeper = {s1}
  CounterModulus = 4
  Skew = 0
  UploadDelay = 1
INVARIANT DeadlineFromResult
PROPERTY StaleDetected
CHECK_DEADLOCK FALSE
