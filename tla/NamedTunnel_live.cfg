SPECIFICATION Spec
CONSTANTS
    Ports = {p1, p2}
    Hosts = {h1, h2}
    Pids = {q1}
    Ops = {"up", "cycle"}
    Faults = {"dies", "crash", "save"}
    Enabled = {p1, p2}
    AutoHeal = TRUE
    None = None
    p1 = p1
    p2 = p2
    h1 = h1
    h2 = h2
    q1 = q1
PROPERTY TunnelsHeal
