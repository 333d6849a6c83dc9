\* Two critics, a shipped rule and users' rules, with requests in between.
CONSTANTS
  Rules = {1, 2, 3}
  System = {1}
  Shipped <- ShippedRules
  History <- NoisyRules
  Critics = {sched, metric}
  Metric = metric
  Answers = {"KEEP", "LOWER", "DISABLE"}
  Consensus = TRUE
  Conservatism = "moderate"
  MaxChanges = 2
  MinSamples = 2
  FpPercent = 50
  Burst = 3
  Edits <- AnEdit
  MaxTime = 1
  MaxOps = 2
  MaxCycles = 2
  MaxFaults = 1
SPECIFICATION Spec
INVARIANTS TypeOK VersionsContinue
PROPERTIES FreezeHolds CriticNeverEnables RestartKeepsTuning
CHECK_DEADLOCK FALSE
