SPECIFICATION LinksSpec
CONSTANTS
    u1 = u1
    u2 = u2
    c1 = c1
    c2 = c2
    None = None
    Users = {u1, u2}
    Characters = {c1, c2}
    Encounters = {e1, e2}
    Actors = {a1, a2}
    Controller <- MCController
    SyncedFields = {}
    LocalFields = {}
    Values = {0}
    Requests <- MCRequests
    SheetPatches <- MCSheetPatches
    MaxSeq = 3
    MaxRevision = 0
    Encounter = {"e1", "e2"}
    Character = {1, 2}
    Slot = {"s1", "s2"}
SYMMETRY MCSymmetry
INVARIANTS
    LinkMatchesCombatants
    OneCombatantPerCharacter
    CombatantsArePlayable
    JournalIsComplete
    NoWaitCycle
    LinksMatchUnderLocks
PROPERTIES
    StateChangeMovesSeq
CHECK_DEADLOCK FALSE
