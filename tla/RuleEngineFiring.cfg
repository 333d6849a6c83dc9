\* Two syslog threads on one windowed rule nobody edits, and sweeps of the windows.
CONSTANTS
  Workers = {w1, w2}
  Loop = loop
  Rules = {r1}
  Groups = {g1}
  Ports = {p1}
  Direct = {}
  Windowed = {r1}
  ByPort = {}
  Cooldown <- CooldownOf
  CooldownTicks = 2
  Logs = {}
  Threshold = 2
  Window = 1
  MaxAge = 4
  Pruning = TRUE
  TTL = 1
  Critic = FALSE
  Start = 2
  MaxTime = 6
  MaxLag = 1
  MaxVersion = 0
  MaxEvents = 3
  MaxFaults = 0
SYMMETRY Symmetry
SPECIFICATION Spec
INVARIANT WindowHolds
CHECK_DEADLOCK FALSE
