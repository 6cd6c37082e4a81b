SPECIFICATION Spec
CONSTANTS
    Challenges = {c1, c2}
    HostPorts = {h1}
    Providers = {"bore"}
    Pids = {q1, q2}
    Tokens = {}
    MaxSessions = 1
    Viewers = {v1}
    BaseIp = TRUE
    Ops = {"up", "down", "daemon", "ps"}
    Faults = {"exit", "crash", "dies", "reuse", "row"}
    Enabled = {c1}
    AutoHeal = TRUE
    MaxAttempts = 2
    MaxRows = 1
    None = None
    c1 = c1
    c2 = c2
    h1 = h1
    q1 = q1
    q2 = q2
    v1 = v1
INVARIANT TypeOK
PROPERTY SweepSparesRecorded TunnelsHeal StrayTunnelsGo
