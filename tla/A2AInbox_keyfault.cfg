SPECIFICATION Spec
CONSTANTS
    d1 = d1
    d2 = d2
    t1 = t1
    b1 = b1
    b2 = b2
    b3 = b3
    Session = {1}
    Direct = {d1}
    Topic = {}
    NoMsg = NoMsg
    Flaw <- MCFlaw
    Mortal = {}
    Throttled = FALSE
    DedupLru = 1
    MaxDeliver = 3
    MaxAckPending = 2
    MaxFaults = 2
INVARIANT OnlyForgeriesDropped
CHECK_DEADLOCK FALSE
