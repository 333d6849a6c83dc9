SPECIFICATION BoundedSpec
CONSTANTS
  Shapes <- LoggedShapes
  Modes = {"file", "udp"}
  UdpQueueMax = 1
  MaxRead = 2
  MaxLines = 4
  MaxIntakeFaults = 2
  ArpMacs = {"m1", "m2", "m3", "h"}
  Ips = {"i1", "i2"}
  HostMacs = {"h"}
  Uses <- TrueUses
  Whitelist = {"i2"}
  ProxyLimit = 1
  MaxStable = 2
  Clients = {"c1", "c2"}
  Infra = {"d1", "d2"}
  MaxListings = 2
  MaxEpoch = 1
  MaxReports = 3
  Gathers <- TaskGroups
  Ports = {"p1", "p2"}
  Pairs = {"q1", "q2", "q3"}
  Streams = {"s1", "s2"}
  SeenMax = 2
  MaxPolls = 3
  MaxFailures = 1
  Macs = {"a", "b"}
  Reporters = {"t1", "t2"}
  HintedTypes = {"ap"}
  Guesses = {"phone"}
  Choices = {"server"}
  UserTypes = {"iot", ""}
  UserRoles = {"server", ""}
  PerCycle = 1
  MaxSessions = 4
  Callers = {"t1", "t2", "t3"}
  Tolerance = 2
  MaxBackoff = 3
  Pause <- DoublingPause
  MaxFails = 4
  DefaultWorks = FALSE
  MaxChatMessages = 3
  MaxQuestions = 3
  MaxClears = 1
  MaxCommits = 1
  MaxFiles = 3
  MaxSyncFaults = 2
  MaxFindings = 3
  MaxAborts = 1
  Keys = {"url", "enabled", "password", "whitelist"}
  Values = {"empty", "text", "digits", "yes", "no", "items"}
  Typed <- FormValues
  Accepts <- ValidSettings
  Env = {"password"}
  Bridged = {"url"}
  Fallback <- Defaults
  MaxConfigFaults = 2
  Viewers = {"v1", "v2", "v3"}
  MaxListeners = 2
  LineQueueMax = 1
  Capacity = 1
  MaxLogged = 2
  Studied = {{"unifi"}}
INVARIANT StateChangeRecorded
CHECK_DEADLOCK FALSE
