\* Two agents of one location work on one enqueued run each; deadlines are
\* three units after a probe.
SPECIFICATION MCStaleSpec
CONSTANTS
  m1 = m1
  l1 = l1
  k1 = k1
  i1 = i1
  s1 = s1
  a1 = a1
  a2 = a2
  NoAgent = NoAgent
  Agent = {a1, a2}
  Monitor = {m1}
  Location = {l1}
  Assigned <- MCAssigned
  Required <- MCAssigned
  AgentLocation <- MCAgentLocation
  AgentKinds <- MCAgentKinds
  MonitorKind <- MCMonitorKind
  Interval <- MCInterval
  ProbeTimeout <- MCProbeTimeout
  Thresholds <- MCThresholds
  LeaseDuration = 1
  Grace = 1
  MaxTime = 4
  Slots = {0, 1, 2, 3, 4}
  Replica = {}
  DueLimit = 1
  Sweeper = {s1}
  CounterModulus = 4
  Skew = 0
  UploadDelay = 1
PROPERTY StaleOnlyAfterSilence
CONSTRAINT OrderlyAgents
CHECK_DEADLOCK FALSE
