SPECIFICATION Spec
CONSTANTS
    Tabs = {t1, t2}
    Companion = {t1}
    Characters = {c1}
    CommandIds = {k1}
    Payloads = {p1, p2}
    None = None
    MaxRevision = 3
    MaxCommands = 2
    MaxLosses = 1
    MaxDenials = 1
INVARIANTS
    TypeOK
    AcceptedMeansExecuted
    RefusedMeansNever
PROPERTIES
    CommitsOnWhatWasSeen
CHECK_DEADLOCK FALSE
