\* None, and two intervals of which both are over within the time observed.
SPECIFICATION Spec
CONSTANTS
  NbPorts = 2
  LcoreOf <- MCLcoreOf
  StatsPort = 0
  MaxLcores = 3
  Asked = {0, 1, 2}
  Second = 2
  DrainTsc = 2
  MaxIteration = 3
  MaxTime = 10
  MaxCount = 2
CHECK_DEADLOCK FALSE
INVARIANTS ReportBetween EveryInterval
