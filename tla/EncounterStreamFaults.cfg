SPECIFICATION Spec
CONSTANTS
    Clients = {b1}
    Instances = {s1, s2}
    None = None
    Buffer = 1
    MaxSeq = 3
    MaxDrops = 1
    Hazards = {"lateNotify", "listenerGap", "closedChannel", "failedReplay", "lateResponse"}
INVARIANTS
    TypeOK
    AppliedInOrder
CHECK_DEADLOCK FALSE
