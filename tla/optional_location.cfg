\* A monitor whose only location is optional (requiredLocation: false).
SPECIFICATION ProjectionSpec
CONSTANTS
  m1 = m1
  l1 = l1
  l2 = l2
  s1 = s1
  Monitor = {m1}
  Location = {l1}
  Assigned <- MCOneLocation
  Required <- MCNone
  Interval <- MCInterval
  ProbeTimeout <- MCProbeTimeout
  Thresholds <- MCThresholds
  LeaseDuration = 1
  Sweeper = {s1}
  MaxTime = 4
  CounterModulus = 4
  Skew = 0
INVARIANT OptionalNeverNotifies
CHECK_DEADLOCK FALSE
