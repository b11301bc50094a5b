CONSTANTS
  s1 = s1
  s2 = s2
  Slot = {s1, s2}
  Steps = 2
  Iterations = 2
SPECIFICATION ExecutorSpec
CHECK_DEADLOCK FALSE
INVARIANTS
  ReportTruthful
PROPERTIES
  StopCutsDrain
