\* The agent is the only worker: three jobs, two overlapping compactors.
CONSTANTS
  MaxJobs = 3
  d1 = d1
  r1 = r1
  none = none
  custom = custom
  Devices = {d1}
  NoDevice = none
  Rules = {r1}
  Custom = custom
  Submissions <- Alerts
  Outcomes = {"TP", "FP"}
  BatchLimit = 2
  Compactors = {api, sched}
  Api = api
  Worker = FALSE
  MaxTime = 2
  MaxFaults = 1
  MaxVerdicts = 1
  MaxCollapsed = 3
SPECIFICATION Spec
INVARIANTS TypeOK CompactedIsRepresented OneFindingPerJob CountersMatchVerdicts CollapsesAreCounted
PROPERTY WorkedOnce
CHECK_DEADLOCK FALSE
