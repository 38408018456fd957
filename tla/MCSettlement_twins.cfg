SPECIFICATION Spec
CONSTANTS
    home1 = home1
    home2 = home2
    over1 = over1
    e1 = e1
    e2 = e2
    home = home
    over = over
    Picks = {home1, home2, over1}
    Events = {e1, e2}
    Bets = {home, over}
    EventOf <- TwoForks
    BetOf <- Markets
    Undated = {e2}
    Ungradeable = {over1}
    Scheduler = cycle
    Requests = {r1}
    Nobody = nobody
    Passes = 2
    MaxManual = 2
    MaxFaults = 1
INVARIANTS TypeOK CountedOnce SupersededOnProof
PROPERTIES ManualResultStands
