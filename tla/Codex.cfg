SPECIFICATION MCSpec
CONSTANTS
    Client = {"c1", "c2"}
    Job = {"j1", "j2", "j3"}
    Path = {"w1"}
    Key = {"k1"}
    Requester = {"pm", "dev"}
    Cwd <- MCCwd
    ThreadKey <- MCThreadKey
    From <- MCFrom
    Admitted = {"j1", "j2"}
    Crashing = {"c1"}
    Loads <- MCLoads
    MaxFault = 2
    MaxExpiry = 1
    Attr <- MCAttr
    Req = {"j1", "j2", "j3", "i1", "h1", "i2", "h2"}
    GLoads <- MCGLoads
    GKey = {"k1", "k2"}
    Ctx = {"ro", "rw"}
    Sid = {"s1"}
    CacheMax = 2
    GMaxFault = 1
    Jobs <- MCJobs
    Base = 4
    RefBytes = 1
    Mark = 1
    Preview = 2
    BodyCap = 16
    MaxFaults = 1
INVARIANTS BuildSafe GatewaySafe FusionSafe
PROPERTIES BuildsEnd JobsAnswered
CHECK_DEADLOCK FALSE
