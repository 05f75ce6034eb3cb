SPECIFICATION Spec
CONSTANTS
    Clients = {b1}
    Instances = {s1}
    None = None
    Buffer = 3
    MaxSeq = 3
    MaxDrops = 1
    Hazards = {"closedChannel"}
INVARIANTS
    PublishesToOpenChannels
CHECK_DEADLOCK FALSE
