SPECIFICATION SafetySpec
CONSTANTS
    Challenges = {c1, c2}
    HostPorts = {h1, h2}
    Providers = {"pinggy"}
    Pids = {q1, q2}
    Tokens = {t1}
    MaxSessions = 1
    Viewers = {}
    BaseIp = FALSE
    Ops = {"up", "down", "restart", "daemon", "unexport", "test", "export"}
    Faults = {"crash", "dies", "start", "runtime", "probe", "attempt"}
    Enabled = {}
    AutoHeal = TRUE
    MaxAttempts = 2
    MaxRows = 1
    None = None
    c1 = c1
    c2 = c2
    h1 = h1
    h2 = h2
    q1 = q1
    q2 = q2
    t1 = t1
SYMMETRY Symmetry
INVARIANT NoStrayExport
PROPERTY TokensNotOverbooked DownSweepsClean SweepSparesRecorded
