SPECIFICATION MCSpec
CONSTANTS
    hero = hero
    monster = monster
    familiar = familiar
    Actor <- MCActor
    Owner <- MCOwner
    Attacks <- MCAttacks
    Parts <- MCParts
    Spells <- MCSpells
    Replacements <- MCReplacements
    Hazards <- MCHazards
    Reactors = {hero}
    Protectors = {hero}
    Blockers = {hero}
    Armoured = {monster}
    Topplers = {monster}
    Alert <- MCAlert
    Initiatives <- MCInitiatives
    Mortal = {monster}
    Targets <- MCTargets
    Reroll = FALSE
    MaxRound = 2
    User <- MCUser
    SessionActor <- MCSessionActor
    InitialRole <- MCInitialRole
    InitialController <- MCInitialController
    OwnerOf <- MCInitialController
    Shapes <- MCShapes
    MaxId = 2
    Tab = {"tab1", "tab2"}
    Command = {"c1", "c2", "c3"}
INVARIANTS
    TypeOK
    BlockedByPending
    LinkedEffectsHaveConcentration
    ConcentrationsDiffer
    DeadHoldNothing
    DecisionsFollowHead
    RetriesAreAnswered
PROPERTIES
    FollowUpsSurvive
    UnanswerableOnlyByAttackOrDeath
    IncapacitatedLosesConcentration
    AttacksStayUsable
    TurnPassesInOrder
    TransitionsKeepLog
    AuthorityHoldsAtCommit
    SessionsKeepLog
CHECK_DEADLOCK FALSE
