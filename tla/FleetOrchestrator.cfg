SPECIFICATION Spec
CONSTANTS
    Agent = {"a1", "a2", "a3"}
    Req = {"r1", "r2", "r3", "other", "rotate"}
    For <- MCFor
    Kind <- MCKind
    Denied = {"r3"}
    None = None
    Broken = Broken
    MaxFault = 2
    Loads <- MCLoads
    CanaryId <- MCCanaryId
    RunReq <- MCRunReq
INVARIANTS LauncherSafe FleetSafe
PROPERTY RunEnds
CHECK_DEADLOCK FALSE
