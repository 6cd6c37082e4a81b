SPECIFICATION Spec
CONSTANTS
  a = a
  b = b
  viewer = viewer
  None = None
  Challenges <- Both
  HostPorts = {1, 2}
  Internal = {80}
  Viewers <- Nobody
  TTL = 1
  ExtendBy = 1
  ExtendWindow = 1
  ExtendCooldown = 1
  RestartCooldown = 1
  CanRestart <- Both
  AutoHeal = TRUE
  Legacy <- Nobody
  Ops = {"up", "down", "restart", "daemon"}
  Faults = {"build", "up", "bind", "exit"}
  MaxTries = 2
  MaxTime = 2
  MaxRows = 2
INVARIANTS
  TypeOK
  RunningPortsDisjoint
  NoOrphanContainer
PROPERTIES
  ImplementsLease
SYMMETRY Symmetric
