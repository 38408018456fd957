CONSTANTS
    a1 = a1
    a2 = a2
    telegram = telegram
    webhook = webhook
    Alerts = {a1}
    Sinks <- TwoSinks
    Configured = {telegram, webhook}
    Legacy = {}
    MaxAccepts = 2
    MaxFaults = 1
SPECIFICATION Spec
PROPERTIES
    HealthyChannelNotDuplicated
