SPECIFICATION Spec
CONSTANTS
    Staff = {w1, w2}
    IndicatorTypes = {"DOMAIN"}
    Registrar = "godaddy"
    Templates <- MCTemplates
    NoName = NoName
    EntryBound = 2
    AppealBound = 1
    RequestBound = 6
    BreakBound = 1
    Partners = {w1, w2}
    KeyScopes = {"READ_TENANT_INTEL", "AGENCY_FEED"}
    FreeLimit = 1
    ProLimit = 2
    Days = 2
    DoorBound = 3
    TokenTTL = 1
    Entries = {e1, e2}
    PageSize = 1
    TimeBound = 3
    UpdateBound = 3
    Signals = {1, 3}
    KeyOf <- MCKeyOf
    NoKey = NoKey
    Alike <- MCAlike
    Enrichable = {1}
    Campaign = 2
    Scores = {40, 80}
    MAX_NODES = 4
    MIN_SIGNALS_FOR_SUGGESTION = 1
    Crew = {w1, w2}
    RunBound = 2
    MishapBound = 1
SYMMETRY Symmetry
INVARIANTS
    TypeOK
    RegistryHonest
    AppealHonoured
    DoorHolds
    FeedComplete
    GraphSound
CHECK_DEADLOCK FALSE
