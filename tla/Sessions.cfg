SPECIFICATION MCSpec
CONSTANTS
    Scenes = {"three", "two", "boot"}
    a1 = a1
    a2 = a2
    a3 = a3
    Add = {a1, a2, a3}
    Agent = {"first", "second"}
    agentOf <- TwoOfThree
    Nobody = Nobody
    MaxFailures = 1
    k1 = k1
    k2 = k2
    c1 = c1
    c2 = c2
    c3 = c3
    None = None
    Core = {k1, k2}
    Conn = {c1, c2, c3}
    Home <- TwoHomes
    ToolOnly = {c3}
    MaxConnections = 2
    MaxLate = 1
    MaxStartFaults = 1
    MaxLoss = 1
INVARIANTS OneConsumer SessionsBacked BootSafe
PROPERTIES NoForeignRemoval WindsDown
CHECK_DEADLOCK FALSE
