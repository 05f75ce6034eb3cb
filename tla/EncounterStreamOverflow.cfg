SPECIFICATION FairSpec
CONSTANTS
    Clients = {b1}
    Instances = {s1}
    None = None
    Buffer = 1
    MaxSeq = 3
    MaxDrops = 0
    Hazards = {}
PROPERTIES
    EventuallySynced
CHECK_DEADLOCK FALSE
