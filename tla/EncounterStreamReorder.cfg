SPECIFICATION Spec
CONSTANTS
    Clients = {b1}
    Instances = {s1}
    None = None
    Buffer = 3
    MaxSeq = 3
    MaxDrops = 0
    Hazards = {"lateNotify"}
PROPERTIES
    CommandsBuiltOnServerState
CHECK_DEADLOCK FALSE
