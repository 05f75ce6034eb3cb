SPECIFICATION Spec
CONSTANTS
    u1 = u1
    u2 = u2
    c1 = c1
    c2 = c2
    None = None
    Users = {u1, u2}
    Characters = {c1, c2}
    Encounters = {e1}
    Actors = {a1, a2}
    Controller <- MCOnePlayer
    SyncedFields = {"temp"}
    LocalFields = {"pendingSaves"}
    Values = {0, 1}
    Requests <- MCLoggedRequests
    SheetPatches <- MCSheetPatches
    MaxSeq = 3
    MaxRevision = 2
SYMMETRY MCOnePlayerSymmetry
INVARIANTS
    TypeOK
    SheetMirrorsCombatant
PROPERTIES
    RuntimeChangeMovesRevision
    LinkedRuntimeBelongsToEncounter
    JournalOnlyOfCombatants
CHECK_DEADLOCK FALSE
