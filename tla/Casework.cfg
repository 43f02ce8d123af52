SPECIFICATION Spec
CONSTANTS
    Desks = {d1, d2}
    People <- MCPeople
    LifeBound = 4
    DeathsBound = 1
    m1 = m1
    m2 = m2
    Messages = {m1, m2}
    ChannelOf <- MCChannelOf
    RetryAttempts = 3
    StallBound = 1
    DeathBound = 2
    FactBound = 3
    Telemetry = {{}, {"screenSharing"}, {"remoteAccessTools", "bankingSiteOpen", "remoteInput", "clipboardHijack"}}
    Phrases = {{"giftCard", "arrest", "actNow", "unknownPhrase"}}
    Inputs <- MCInputs
    Versions = {v1, v2}
    BookBound = 3
    LossesBound = 1
INVARIANTS
    TypeOK
    StampsAgree
    Guardrails
    Accounted
    PipelineSound
PROPERTIES
    DeliverySettles
    ScoresClimb
CHECK_DEADLOCK FALSE
