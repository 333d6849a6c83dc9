\* Two syslog threads and the event loop on a rule with a cooldown, after one tick.
CONSTANTS
  Workers = {w1, w2}
  Loop = loop
  Rules = {r1}
  Groups = {g1}
  Ports = {p1}
  Direct = {r1}
  Windowed = {}
  ByPort = {}
  Cooldown <- CooldownOf
  CooldownTicks = 1
  Logs = {}
  Threshold = 2
  Window = 1
  MaxAge = 1
  Pruning = FALSE
  TTL = 1
  Critic = FALSE
  Start = 1
  MaxTime = 3
  MaxLag = 1
  MaxVersion = 0
  MaxEvents = 2
  MaxFaults = 0
SYMMETRY Symmetry
SPECIFICATION Spec
PROPERTY CooldownRespected
CHECK_DEADLOCK FALSE
