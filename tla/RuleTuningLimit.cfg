\* Two critics on three shipped rules, over two days and a restart.
CONSTANTS
  Rules = {1, 2, 3}
  System = {1, 2, 3}
  Shipped <- ShippedRules
  History <- FalseAlarms
  Critics = {sched, metric}
  Metric = metric
  Answers = {"KEEP", "LOWER", "DISABLE"}
  Consensus = TRUE
  Conservatism = "moderate"
  MaxChanges = 1
  MinSamples = 1
  FpPercent = 50
  Burst = 3
  Edits <- AnEdit
  MaxTime = 2
  MaxOps = 0
  MaxCycles = 3
  MaxFaults = 1
SPECIFICATION Spec
INVARIANT DailyChangesBounded
CHECK_DEADLOCK FALSE
