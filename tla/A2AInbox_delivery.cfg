SPECIFICATION FairSpec
CONSTANTS
    d1 = d1
    d2 = d2
    t1 = t1
    b1 = b1
    b2 = b2
    b3 = b3
    Session = {1, 2}
    Direct = {d1, d2}
    Topic = {t1}
    NoMsg = NoMsg
    Flaw <- MCFlaw
    Mortal = {d2}
    Throttled = TRUE
    DedupLru = 1
    MaxDeliver = 2
    MaxAckPending = 2
    MaxFaults = 1
INVARIANTS InboxSafe AckedWasShown
PROPERTIES Delivered
CHECK_DEADLOCK FALSE
