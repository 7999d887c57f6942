\* Two agents, two runs, a queue of two, one mishap.
SPECIFICATION WorkerSpec
CONSTANTS
  m1 = m1
  l1 = l1
  k1 = k1
  a1 = a1
  a2 = a2
  NoAgent = NoAgent
  Agent = {a1, a2}
  Monitor = {m1}
  Location = {l1}
  Assigned <- MCAssigned
  AgentLocation <- MCAgentLocation
  AgentKinds <- MCAgentKinds
  MonitorKind <- MCMonitorKind
  Interval <- MCInterval
  LeaseDuration = 1
  Grace = 1
  MaxTime = 2
  Slots = {0, 1}
  QueueCap = 2
  MaxFaults = 1
INVARIANTS
  QueueWithinCapacity
  ResolvedByLastLease
PROPERTIES
  TakeoverOnlyAfterExpiry
  KeepsRunPromise
  KeptUntilStored
  UploadEnds
CHECK_DEADLOCK FALSE
