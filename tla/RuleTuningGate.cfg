\* One critic cycle on a rule users confirmed and one they did not.
CONSTANTS
  Rules = {1, 2}
  System = {1, 2}
  Shipped <- ShippedRules
  History <- OneGoodRule
  Critics = {sched}
  Metric = metric
  Answers = {"KEEP", "LOWER", "DISABLE"}
  Consensus = TRUE
  Conservatism = "moderate"
  MaxChanges = 1
  MinSamples = 1
  FpPercent = 50
  Burst = 3
  Edits <- AnEdit
  MaxTime = 1
  MaxOps = 0
  MaxCycles = 1
  MaxFaults = 0
SPECIFICATION Spec
PROPERTY CyclesComplete
CHECK_DEADLOCK FALSE
