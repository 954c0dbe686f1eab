SPECIFICATION MCSpec
CONSTANTS
    Handler = {h1, h2}
    MaxKey = 2
    Ttl = 2
    Timeout = 1
    MaxTime = 5
    MaxClock = 2
    Call = {1, 2, 3, 4}
    Menu <- MCMenu
    Self = "me"
    SigAlg = "ed25519"
    Cost = 2
    GlobalCap = 4
    GlobalRate = 2
    PeerCap = 2
    PeerRate = 1
    MaxTracked = 2
    MaxFaults = 1
    d1 = d1
    t1 = t1
    b1 = b1
    b2 = b2
    b3 = b3
    Session = {1}
    Direct = {d1, b1, b2}
    Topic = {t1, b3}
    NoMsg = NoMsg
    Flaw <- MCFlaw
    Mortal = {d1}
    Throttled = TRUE
    DedupLru = 1
    MaxDeliver = 2
    MaxAckPending = 2
SYMMETRY Symmetry
INVARIANTS BoundedStaleness NoFalseReject SendSafe FailClosed
CHECK_DEADLOCK FALSE
