SPECIFICATION Spec
CONSTANTS
    c1 = c1
    d1 = d1
    d2 = d2
    PURCHASABLE_PLANS = {"BASIC"}
    StripeStatuses = {"past_due"}
    CustomerBound = 2
    Calls = {c1}
    Deliveries = {d1, d2}
    NoRow = NoRow
    NoCall = NoCall
    Idle = Idle
    EventBound = 3
    FailBound = 1
    ManualBound = 1
PROPERTY AppliedOnce
CHECK_DEADLOCK FALSE
