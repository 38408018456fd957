CONSTANTS
    a1 = a1
    a2 = a2
    telegram = telegram
    webhook = webhook
    Alerts = {a1, a2}
    Sinks <- TwoSinks
    Configured = {telegram, webhook}
    Legacy = {a2}
    MaxAccepts = 2
    MaxFaults = 2
SPECIFICATION FairSpec
INVARIANTS
    ClaimMeansAccepted
PROPERTIES
    Delivers
    EventuallyAccepted
