CONSTANTS
    e1 = e1
    e2 = e2
    over = over
    under = under
    l1 = l1
    l2 = l2
    NoLine = NoLine
    Refs = {e1, e2}
    Canonical <- BothToFirst
    Opportunities <- TwoRefs
    Versions = {1}
    Lines = {l1}
    MaxStake = 2
    EventCap = 2
    DailyCap = 3
    MaxDay = 1
    LosesAnswers = FALSE
    SumOf <- SumOverRows
SPECIFICATION Spec
INVARIANTS
    EventCapHolds
