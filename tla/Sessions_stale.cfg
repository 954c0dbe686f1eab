SPECIFICATION MCSpec
CONSTANTS
    Scenes = {"two"}
    a1 = a1
    a2 = a2
    a3 = a3
    Add = {a1, a2, a3}
    Agent = {"first", "second"}
    agentOf <- TwoOfThree
    Nobody = Nobody
    MaxFailures = 1
    k1 = k1
    k2 = k2
    c1 = c1
    c2 = c2
    c3 = c3
    None = None
    Core = {k1}
    Conn = {c1, c2}
    Home <- OneHome
    ToolOnly = {}
    MaxConnections = 2
    MaxLate = 0
    MaxStartFaults = 0
    MaxLoss = 1
CHECK_DEADLOCK FALSE
INVARIANT StaleReclaimed
