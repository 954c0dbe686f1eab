SPECIFICATION MCSpec
CONSTANTS
    Claimer = {c1, c2}
    Nobody = Nobody
    Ttl = 3
    Heartbeat = 2
    MaxFaults = 2
    t1 = t1
    t2 = t2
    Topic = {t1, t2}
    Bad = Bad
    NoLoad = NoLoad
    Stored0 = {t1}
    Configs <- MCConfigs
    MaxRivals = 1
    MaxWrites = 2
    None = None
    durable1 = durable1
    Arrays <- MCArrays
    Defaults <- MCDefaults
    MAX_DELIVER = 2
    MaxEdits = 2
    MaxMsg = 1
    MaxSubs = 5
    MaxChFaults = 1
    MaxNatsFaults = 1
INVARIANTS LeaseSafe ChannelSafe AdvisorySafe
PROPERTIES NoForeignRelease ChannelsConverge
CHECK_DEADLOCK FALSE
