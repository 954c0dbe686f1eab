SPECIFICATION MCSpec
CONSTANTS
    c1 = c1
    m1 = m1
    m2 = m2
    huge = huge
    x1 = x1
    x2 = x2
    Frame = {c1, m1, m2, huge}
    Alien = {x1, x2}
    Lane <- MCLane
    Size <- MCSize
    Fault <- MCFault
    SizeCap = 1
    HighWater = 3
    MaxBytes = 9
    MaxFaults = 1
    a1 = a1
    a2 = a2
    b1 = b1
    n1 = n1
    n2 = n2
    Call = {a1, a2, b1}
    NotifOf <- MCNotifOf
    MaxSign = 2
    DedupCap = 1
    MaxConn = 2
INVARIANTS FramesSafe DeliverySafe
PROPERTIES ImplementsLanes SocketSettles
CHECK_DEADLOCK FALSE
