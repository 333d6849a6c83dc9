\* An external worker claims jobs and files verdicts beside the agent.
CONSTANTS
  d1 = d1
  r1 = r1
  none = none
  custom = custom
  MaxJobs = 2
  Devices = {d1}
  NoDevice = none
  Rules = {r1}
  Custom = custom
  Submissions <- AlertsAndQuestions
  Outcomes = {"failed"}
  BatchLimit = 1
  Compactors = {api, sched}
  Api = api
  Worker = TRUE
  MaxTime = 1
  MaxFaults = 1
  MaxVerdicts = 1
  MaxCollapsed = 1
SPECIFICATION FairSpec
INVARIANT CompactedIsRepresented
PROPERTIES TakenUpUnlessOutranked ClaimsAreReclaimed
CHECK_DEADLOCK FALSE
