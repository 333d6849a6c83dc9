\* A syslog thread and the event loop while the rules API edits a rule, whose new
\* version only logs.
CONSTANTS
  Workers = {w1}
  Loop = loop
  Rules = {r1}
  Groups = {g1}
  Ports = {p1}
  Direct = {r1}
  Windowed = {}
  ByPort = {}
  Cooldown <- CooldownOf
  CooldownTicks = 2
  Logs = {1}
  Threshold = 2
  Window = 1
  MaxAge = 1
  Pruning = FALSE
  TTL = 1
  Critic = TRUE
  Start = 2
  MaxTime = 5
  MaxLag = 1
  MaxVersion = 1
  MaxEvents = 3
  MaxFaults = 1
SPECIFICATION Spec
INVARIANTS TypeOK StalenessIsBounded SilenceHasRecord
PROPERTY CooldownPerThread
CHECK_DEADLOCK FALSE
