SPECIFICATION Spec
CONSTANTS
  a = a
  b = b
  viewer = viewer
  None = None
  Challenges <- One
  HostPorts = {1, 2}
  Internal = {80}
  Viewers <- OneViewer
  TTL = 1
  ExtendBy = 1
  ExtendWindow = 1
  ExtendCooldown = 1
  RestartCooldown = 1
  CanRestart <- One
  AutoHeal = TRUE
  Legacy <- Nobody
  Ops = {"up", "down", "restart", "extend", "daemon", "sync", "status"}
  Faults = {"build", "up", "down", "bind", "save", "probe", "exit", "crash"}
  MaxTries = 2
  MaxTime = 3
  MaxRows = 2
INVARIANTS
  PortsMatchContainer
  DeadlineBounded
  NoEarlyStop
PROPERTIES
  RestartPreserves
