SPECIFICATION Spec
CONSTANTS
    Caller = {"form", "sheet"}
    MaxAttempts = 3
    MaxVersion = 2
INVARIANTS
    EditsAreVisible
CHECK_DEADLOCK FALSE
