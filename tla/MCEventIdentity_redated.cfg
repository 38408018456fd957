SPECIFICATION IdentitySpec
CONSTANTS
    Refs = {oddsportal, oddschecker, women}
    oddsportal = oddsportal
    oddschecker = oddschecker
    women = women
    TeamsOf <- MCTeamsOf
    PairOf <- MCPairOf
    MarkersOf <- MCMarkersOf
    Kickoffs = {0, 18, 90}
    TBD = TBD
    Nowhere = Nowhere
    Tolerance = 2
    RedateWindow = 48
PROPERTY SettledEventsAreNotMoved
CHECK_DEADLOCK FALSE
