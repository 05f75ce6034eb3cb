SPECIFICATION FairSpec
CONSTANTS
    Tabs = {t1}
    Companion = {t1}
    Characters = {c1, c2}
    CommandIds = {k1}
    Payloads = {p1}
    None = None
    MaxRevision = 2
    MaxCommands = 2
    MaxLosses = 1
    MaxDenials = 1
INVARIANTS
    ReceiptChecksNeverFail
PROPERTIES
    ReplayShowsCurrent
    ImplementsLedger
    CompanionCommandsAreSettled
CHECK_DEADLOCK FALSE
