SPECIFICATION Spec
CONSTANTS
  a = a
  b = b
  viewer = viewer
  None = None
  Challenges <- One
  HostPorts = {1, 2}
  Internal = {80}
  Viewers <- Nobody
  TTL = 1
  ExtendBy = 1
  ExtendWindow = 1
  ExtendCooldown = 1
  RestartCooldown = 1
  CanRestart <- One
  AutoHeal = TRUE
  Legacy <- One
  Ops = {"up", "down", "restart", "extend", "daemon"}
  Faults = {"build", "up", "bind", "exit"}
  MaxTries = 2
  MaxTime = 3
  MaxRows = 2
PROPERTIES
  ExpiredContainerStops
  LockReleased
  LegacyGetsDeadline
  ImplementsLease
