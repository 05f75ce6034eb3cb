SPECIFICATION FairSpec
CONSTANTS
    Clients = {b1}
    Instances = {s1}
    None = None
    Buffer = 3
    MaxSeq = 3
    MaxDrops = 1
    Hazards = {}
INVARIANTS
    ClientStateMatchesSeq
PROPERTIES
    CommandsBuiltOnServerState
    EventuallySynced
CHECK_DEADLOCK FALSE
