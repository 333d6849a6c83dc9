\* The one-finding claim of models.py:283 against an external worker.
CONSTANTS
  d1 = d1
  r1 = r1
  none = none
  custom = custom
  MaxJobs = 1
  Devices = {d1}
  NoDevice = none
  Rules = {r1}
  Custom = custom
  Submissions <- Alerts
  Outcomes = {"TP", "failed"}
  BatchLimit = 2
  Compactors = {api, sched}
  Api = api
  Worker = TRUE
  MaxTime = 0
  MaxFaults = 0
  MaxVerdicts = 1
  MaxCollapsed = 3
SPECIFICATION Spec
INVARIANT OneFindingPerJob
CHECK_DEADLOCK FALSE
