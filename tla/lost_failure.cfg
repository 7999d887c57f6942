\* Two sessions, two results.
SPECIFICATION Spec
CONSTANTS
  t1 = t1
  t2 = t2
  t3 = t3
  Session = {t1, t2}
  ProbeResult = {1, 2}
  Thresholds <- MCThresholds
  CounterModulus = 5
INVARIANT EveryResultCounts
CHECK_DEADLOCK FALSE
