SPECIFICATION MCSpec
CONSTANTS
    Emission <- MCEmission
    Class = {"loop"}
    Silent = {TRUE, FALSE}
    MissedBeats = 2
    BootGrace = 1
    LongTurn = 1
    ProgressStale = 1
    StaleCadences = 2
    AgeOut = 2
    Peers = 1
    GateMin = 2
    MaxNow = 3
    MaxBoot = 2
    MaxEvent = 3
    k1 = k1
    k2 = k2
    NoOne = NoOne
    Loads <- MCLoads
    POOL = 1
    SESSION_MAX_TURNS = 1
    THREAD_MAX_TURNS = 2
    MAX_ACTIVE = 2
    MAX_THREADS = 1
    Envelope = 2
    RefFields = 3
    TruncFields = 2
    NoOutput <- MCNoOutput
    MarkerBytes = 2
    PREVIEW_BYTES = 3
    MaxSessions = 8
    MaxFaults = 1
    Level = {0, 1, 2}
    anthropic429Hi = 1
    anthropic429Lo = 0
    codexBudgetHi = 2
    codexBudgetLo = 1
    breakerConsecutiveFailures = 2
    breakerCooldownMs = 2
    MaxClock = 3
    MaxFails = 3
    Path = {"in", "out", "sec", "up"}
    Folder <- MCFolder
    Manifest = {"in", "sec", "up", "dir"}
    Protected = {"sec"}
    Unsafe = {"up"}
    MaxWrites = 3
INVARIANTS PoolSafe ReplyFaithful GovernorSafe GuardSound
PROPERTIES VerdictIsFounded NoMaskedWedge
CONSTRAINT Undoubted
CHECK_DEADLOCK FALSE
