SPECIFICATION SafetySpec
CONSTANTS
    Ports = {p1, p2}
    Hosts = {h1, h2}
    Pids = {q1, q2}
    Ops = {"up", "down", "unexport", "cycle"}
    Faults = {"spawn", "dies", "exit", "reuse"}
    Enabled = {p1, p2}
    AutoHeal = TRUE
    None = None
    p1 = p1
    p2 = p2
    h1 = h1
    h2 = h2
    q1 = q1
    q2 = q2
SYMMETRY Symmetry
INVARIANTS TypeOK OneProcess NoForeignTraffic
PROPERTY OthersStay
