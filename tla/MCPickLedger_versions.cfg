CONSTANTS
    e1 = e1
    e2 = e2
    over = over
    under = under
    l1 = l1
    l2 = l2
    NoLine = NoLine
    Refs = {e1}
    Canonical <- SameRef
    Opportunities <- OneInstrument
    Versions = {1, 2}
    Lines = {l1, l2}
    MaxStake = 2
    EventCap = 2
    DailyCap = 2
    MaxDay = 2
    LosesAnswers = TRUE
    SumOf <- SumOverRows
SPECIFICATION Spec
SYMMETRY OffersAlike
INVARIANTS
    TypeOK
    LedgerNeverForgets
    LedgerNeverStrands
    StakeIsGranted
    OneOpenPremium
    FreshAlertMatchesRow
PROPERTIES
    RowsAreNeverTakenBack
