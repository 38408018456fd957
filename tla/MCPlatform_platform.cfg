SPECIFICATION Spec
CONSTANTS
    Procs = {p, q}
    Nobody = Nobody
    Sports = 2
    MaxCharge = 1
    MaxDrops = 1
    PoolSize = 2
    Loaders = {l1, l2}
    Threshold = 2
    Cooldown = 1
    ClaimWindow = 1
    MaxFailover = 2
    MaxTrouble = 2
    Proxies = {x, y}
    Pages = {p1, p2, p3}
    MaxFetches = 2
    Codes = {c1}
    Games = {g1, g2}
    DeadMan = DeadMan
    EmptyAudits = 2
    Day = 3
    MaxRestarts = 1
    MaxUndelivered = 2
    Quotes = {q1, q2}
    Prices = {1, 2}
    NoPrice = 0
    MaxCaptures = 3
    MaxAccidents = 1
    Versions = {1, 2}
    SkipLimit = 2
    MaxPolls = 2
    MaxSlips = 1
    MaxByHand = 1
    Refs = {oddsportal, oddschecker, women}
    oddsportal = oddsportal
    oddschecker = oddschecker
    women = women
    Kickoffs = {0, 18}
    TBD = TBD
    Nowhere = Nowhere
    Tolerance = 2
    RedateWindow = 48
    Goals = {0, 1, 2, 3}
    SportCount = 2
    Interval = 2
    Budget = 3
    Patience = 3
    RunThreshold = 2
    Times = {2, 3}
    Midnight = 1
    Horizon = 5
    DayLength = 3
    Playing = 2
    SoftFloor = 0
    SettleDelay = 2
    FullFloor = 2
    ScoreWindow = 5
    VoidAge = 6
    ExpireAge = 7
    LastTick = 11
    MaxQuotes = 3
    KickoffAt = 2
    CloseGap = 1
    MaxDetections = 2
    Wagers = {w1, w2}
    Gains = {1, 2}
    MaxCorrections = 1
INVARIANTS
    TypeOK
    OneEquippedScheduler
    CyclesKeepTheirSessions
    NothingToldTwice
    MentionsMatchLosses
    CloseIsOfThePrice
    OnePremiumCounted
    DoubleHeadersStayApart
    GradesCohere
    HealthIsHonest
    NoInPlayPick
    GradedByOwnGame
    PricedGroupsAreMarkets
    TrustedIsEvidence
    OneVerdict
    LedgerAddsUp
PROPERTIES
    EverySportIsReached
    RecoveredProxyReturns
    EveryAnomalyIsTold
    KeepsHistory
    FinalCloseStands
    ResolutionIsStable
    NoPickIsForgotten
CHECK_DEADLOCK FALSE
