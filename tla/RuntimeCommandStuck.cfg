SPECIFICATION FairSpec
CONSTANTS
    Tabs = {t2}
    Companion = {}
    Characters = {c1}
    CommandIds = {k1}
    Payloads = {p1}
    None = None
    MaxRevision = 2
    MaxCommands = 2
    MaxLosses = 1
    MaxDenials = 0
PROPERTIES
    CombatCommandsAreSettled
CHECK_DEADLOCK FALSE
