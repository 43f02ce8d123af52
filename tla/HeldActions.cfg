SPECIFICATION Spec
CONSTANTS
    h1 = h1
    p1 = p1
    v1 = v1
    v2 = v2
    c1 = c1
    r1 = r1
    r2 = r2
    NoHold = NoHold
    NoReview = NoReview
    NoRequest = NoRequest
    Deleted = Deleted
    Actions = {h1}
    Pauses = {p1}
    EditBound = 1
    Reviews = {v1}
    Contacts = {c1}
    Requests = {r1, r2}
    ElderModeEnabled = FALSE
    DefaultSettings <- MCDefault
    SavedSettings <- MCSaved
    Opened = {"SCAMHOLD"}
    FirstContacts = {"approver"}
    Risks = {"HIGH", "CRITICAL"}
    Amounts <- MCAmounts
SYMMETRY MCSymmetry
INVARIANTS TypeOK NothingPassesUnpermitted DecisionBacked EscalationRouted
PROPERTIES TighteningNeverUnblocks
CHECK_DEADLOCK FALSE
