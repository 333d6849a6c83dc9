\* A compaction pass that read its jobs before an actor cycle committed.
CONSTANTS
  d1 = d1
  r1 = r1
  none = none
  custom = custom
  MaxJobs = 2
  Devices = {d1}
  NoDevice = none
  Rules = {r1}
  Custom = custom
  Submissions <- Alerts
  Outcomes = {"TP", "FP"}
  BatchLimit = 2
  Compactors = {sched}
  Api = api
  Worker = FALSE
  MaxTime = 1
  MaxFaults = 0
  MaxVerdicts = 1
  MaxCollapsed = 3
SPECIFICATION Spec
PROPERTY OnlyPendingIsCompacted
CHECK_DEADLOCK FALSE
