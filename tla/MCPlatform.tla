----------------------------- MODULE MCPlatform ------------------------------
(* The components that share no state with one another, side by side: each   *)
(* behaviour is one of part, chosen at the start, while the others stay in   *)
(* their initial state.                                                      *)
EXTENDS Integers, TLC

CONSTANTS
    Procs, Nobody, Sports, MaxCharge, MaxDrops,
    PoolSize, Loaders, Threshold, Cooldown, ClaimWindow, MaxFailover, MaxTrouble,
    Proxies, Pages, MaxFetches,
    Codes, Games, DeadMan, EmptyAudits, Day, MaxRestarts, MaxUndelivered,
    Quotes, Prices, NoPrice, MaxCaptures, MaxAccidents,
    Versions, SkipLimit, MaxPolls, MaxSlips, MaxByHand,
    Refs, oddsportal, oddschecker, women, Kickoffs, TBD, Nowhere, Tolerance, RedateWindow,
    Goals,
    SportCount, Interval, Budget, Patience, RunThreshold,
    Times, Midnight, Horizon,
    DayLength, Playing, SoftFloor, SettleDelay, FullFloor, ScoreWindow, VoidAge, ExpireAge,
    LastTick,
    MaxQuotes,
    KickoffAt, CloseGap, MaxDetections,
    Wagers, Gains, MaxCorrections

\* Two providers that spell a team differently, and the women's game of the same clubs.
TeamsOf == (oddsportal :> 1) @@ (oddschecker :> 2) @@ (women :> 1)
PairOf == [r \in Refs |-> 1]
MarkersOf == (oddsportal :> 1) @@ (oddschecker :> 1) @@ (women :> 2)

\* Whole, half and quarter lines; a spread, two totals on either side of a tennis limit.
Lines == -5 .. 5 \cup {-12, 8, 9, 10, 20}

\* Every quote is of an event of its own.
EventOf == [q \in Quotes |-> q]

\* A back-to-back, the women's game of the same clubs, and a club with a similar name.
Pairing == ("first" :> 1) @@ ("second" :> 1) @@ ("women" :> 1) @@ ("namesake" :> 2)
Held == {"first", "second"}
Markers == [g \in DOMAIN Pairing |-> IF g = "women" THEN "women" ELSE "senior"]
Likeness == {{1, 2}}
KickoffOf == ("first" :> 0) @@ ("second" :> 3) @@ ("women" :> 4) @@ ("namesake" :> 3)

\* Whole, half and level handicaps, either team giving goals; sets against games.
Of(product, unit, period, lines) ==
    {[product |-> product, unit |-> unit, period |-> period, line |-> l] : l \in lines}

MarketsOf ==
    ("soccer" :>
        Of("asian", "goals", "full", {-4, -2, 0, 2}) \cup Of("asian", "goals", "half", {-2})
        \cup Of("european", "goals", "full", {-4})
        \cup Of("total", "goals", "full", {8, 10}) \cup Of("total", "corners", "full", {10}))
    @@ ("tennis" :>
        Of("asian", "sets", "full", {-6}) \cup Of("asian", "games", "full", {-6, 6})
        \cup Of("total", "sets", "full", {10}) \cup Of("exact_sets", "sets", "full", {10})
        \cup Of("total", "games", "full", {90}))
    @@ ("basketball" :>
        Of("asian", "goals", "full", {-4, -2, 2}) \cup Of("european", "goals", "full", {-4})
        \cup Of("total", "goals", "full", {882}))

VARIABLES
    part,
    watchdog, phase, lock, clients, job, sport, charged, ledger, drops, overran,
    up, strikes, quarantined, cool, claim, cursor, flight, trouble,
    cycles, fetching, cancelled, page, lease, avoid, built, current, leases, retired,
    closed, complete,
    active, empties, deadTold, hush, pending, restarts, undelivered, seen, told, age,
    gateFirst, stored, memory, gate, offer, writing, captures, failed, doubtful, accidents,
    time, row, result, version, skipStreak, cycle, tx, polls, slips, requests, mentioned,
    missed, losses, byHand,
    minted, starts, link, settled, queue, session, resolved,
    code, final, ending, flipped, axis, slip,
    guarded, turn, elapsed, lastPoll, sinceSlot, due, failures, withheld,
    clock, directory, startsAt, step, now, kickoff, known, misled, picked,
    hour, pick, overtime, published, matchPage, captured, verdict, blind, statusless,
    sportKey, primary, board,
    instant, sighted, bet, detections, priced,
    pnl, entries, sync, corrections

Life == INSTANCE Lifecycle
Health == INSTANCE ProxyHealth
Pool == INSTANCE ProxySessions
Self == INSTANCE SelfAudit
Store == INSTANCE SnapshotStore
Close == INSTANCE CloseLine
Identity == INSTANCE EventIdentity
Grades == INSTANCE Grading
Polls == INSTANCE PollHealth
Gate == INSTANCE InPlayGate
Scores == INSTANCE ScoreSources
Market == INSTANCE MarketLines
Evidence == INSTANCE CloseEvidence
Bankroll == INSTANCE BankrollLedger

\* The settings are ones the code accepts.
ASSUME PlatformAssumption ==
    /\ Life!LifecycleAssumption /\ Self!AuditAssumption /\ Pool!SessionsAssumption
    /\ Polls!PollAssumption /\ Gate!InPlayAssumption /\ Scores!ScoreAssumption
    /\ Close!CloseAssumption /\ Evidence!EvidenceAssumption /\ Bankroll!BankrollAssumption
    /\ Identity!IdentityAssumption /\ Grades!GradeAssumption
    /\ Market!LinesAssumption /\ Health!HealthAssumption /\ Store!StoreAssumption

processVars == <<watchdog, phase, lock, clients, job, sport, charged, ledger, drops,
                 overran>>
proxyVars == <<up, strikes, quarantined, cool, claim, cursor, flight, trouble>>
sessionVars == <<cycles, fetching, cancelled, page, lease, avoid, built, current, leases,
                 retired, closed, complete>>
auditVars == <<active, empties, deadTold, hush, pending, restarts, undelivered, seen,
               told, age>>
oddsVars == <<gateFirst, stored, memory, gate, offer, writing, captures, failed,
              doubtful, accidents>>
closeVars == <<time, row, result, version, skipStreak, cycle, tx, polls, slips,
               requests, mentioned, missed, losses, byHand>>
eventVars == <<minted, starts, link, settled, queue, session, resolved>>
gradeVars == <<code, final, ending, flipped, axis, slip>>
healthVars == <<guarded, turn, elapsed, lastPoll, sinceSlot, due, failures, withheld>>
gateVars == <<clock, directory, startsAt, step, now, kickoff, known, misled, picked>>
scoreVars == <<hour, pick, overtime, published, matchPage, captured, verdict, blind,
               statusless>>
lineVars == <<sportKey, primary, board>>
evidenceVars == <<instant, sighted, bet, detections, priced>>
bankrollVars == <<pnl, entries, sync, corrections>>

vars == <<part, processVars, proxyVars, sessionVars, auditVars, oddsVars, closeVars,
          eventVars, gradeVars, healthVars, gateVars, scoreVars, lineVars,
          evidenceVars, bankrollVars>>

Parts == {"process", "proxies", "sessions", "audit", "odds", "closes", "events",
          "grades", "health", "gate", "scores", "lines", "evidence", "bankroll"}

Init ==
    /\ part \in Parts
    /\ Health!HealthInit /\ Pool!SessionsInit /\ Self!AuditInit
    /\ Close!CloseInit /\ Identity!IdentityInit /\ Gate!InPlayInit
    /\ Bankroll!BankrollInit
    /\ Life!Init /\ (part # "process" => watchdog)
    /\ Store!StoreInit /\ (part # "odds" => gateFirst)
    /\ Polls!PollInit /\ (part # "health" => guarded)
    /\ Scores!ScoreInit
    /\ part # "scores" => pick.game = "first" /\ ~pick.tennis /\ pick.gradeable /\ ~overtime
    /\ Market!LinesInit
    /\ part # "lines" => sportKey = "soccer" /\ primary = "oddschecker"
    /\ Evidence!EvidenceInit
    /\ part # "evidence" => \A s \in DOMAIN sighted : sighted[s] # instant
    /\ Grades!GradeInit
    /\ part # "grades" =>
         /\ code = "soccer" /\ ~flipped
         /\ \A team \in DOMAIN final : \A goals \in Goals : final[team] <= goals

\* All but part p stay as they are.
Only(p) ==
    /\ part = p /\ part' = p
    /\ IF p = "process" THEN TRUE ELSE UNCHANGED processVars
    /\ IF p = "proxies" THEN TRUE ELSE UNCHANGED proxyVars
    /\ IF p = "sessions" THEN TRUE ELSE UNCHANGED sessionVars
    /\ IF p = "audit" THEN TRUE ELSE UNCHANGED auditVars
    /\ IF p = "odds" THEN TRUE ELSE UNCHANGED oddsVars
    /\ IF p = "closes" THEN TRUE ELSE UNCHANGED closeVars
    /\ IF p = "events" THEN TRUE ELSE UNCHANGED eventVars
    /\ IF p = "grades" THEN TRUE ELSE UNCHANGED gradeVars
    /\ IF p = "health" THEN TRUE ELSE UNCHANGED healthVars
    /\ IF p = "gate" THEN TRUE ELSE UNCHANGED gateVars
    /\ IF p = "scores" THEN TRUE ELSE UNCHANGED scoreVars
    /\ IF p = "lines" THEN TRUE ELSE UNCHANGED lineVars
    /\ IF p = "evidence" THEN TRUE ELSE UNCHANGED evidenceVars
    /\ IF p = "bankroll" THEN TRUE ELSE UNCHANGED bankrollVars

Next ==
    \/ Only("process") /\ Life!Next
    \/ Only("proxies") /\ Health!HealthNext
    \/ Only("sessions") /\ Pool!SessionsNext
    \/ Only("audit") /\ Self!AuditNext
    \/ Only("odds") /\ Store!StoreNext
    \/ Only("closes") /\ Close!CloseNext
    \/ Only("events") /\ Identity!IdentityNext
    \/ Only("grades") /\ Grades!GradeNext
    \/ Only("health") /\ Polls!PollNext
    \/ Only("gate") /\ Gate!InPlayNext
    \/ Only("scores") /\ Scores!ScoreNext
    \/ Only("lines") /\ Market!LinesNext
    \/ Only("evidence") /\ Evidence!EvidenceNext
    \/ Only("bankroll") /\ Bankroll!BankrollNext

\* The fairness each component states, while it is the one that runs.
Fairness ==
    /\ \A p \in Procs :
        /\ WF_processVars(Only("process") /\ Life!Submit(p) /\ UNCHANGED watchdog)
        /\ WF_processVars(Only("process") /\ Life!WatchdogFires(p) /\ UNCHANGED watchdog)
    /\ WF_proxyVars(Only("proxies") /\ Health!Tick)
    /\ \A w \in Loaders :
        WF_proxyVars(Only("proxies") /\ (Health!Succeed(w) \/ Health!FailOver(w)))
    /\ WF_auditVars(Only("audit") /\ \E found \in SUBSET (Codes \cup Games), fresh \in BOOLEAN :
                   Self!Audit(found, fresh))
    /\ WF_auditVars(Only("audit") /\ \E k \in pending : Self!Confirm(k) \/ Self!Undelivered(k))
    /\ WF_scoreVars(Only("scores") /\ Scores!HourPasses)
    /\ WF_scoreVars(Only("scores") /\ Scores!Settle(FALSE))

Spec == Init /\ [][Next]_vars /\ Fairness

\* The variables of the part that runs.
TypeOK ==
    /\ part \in Parts
    /\ part = "process" => Life!TypeOK
    /\ part = "proxies" => Health!HealthTypeOK
    /\ part = "sessions" => Pool!SessionsTypeOK
    /\ part = "audit" => Self!AuditTypeOK
    /\ part = "odds" => Store!StoreTypeOK
    /\ part = "closes" => Close!CloseTypeOK
    /\ part = "events" => Identity!IdentityTypeOK
    /\ part = "grades" => Grades!GradeTypeOK
    /\ part = "health" => Polls!PollTypeOK
    /\ part = "gate" => Gate!InPlayTypeOK
    /\ part = "scores" => Scores!ScoreTypeOK
    /\ part = "lines" => Market!LinesTypeOK
    /\ part = "evidence" => Evidence!EvidenceTypeOK
    /\ part = "bankroll" => Bankroll!BankrollTypeOK

----------------------------------------------------------------------------
(* The properties of the components, under their names.                    *)

OneEquippedScheduler == Life!OneEquippedScheduler
EverySportIsReached == Life!EverySportIsReached
HealthIsHonest == Polls!HealthIsHonest
NoInPlayPick == Gate!NoInPlayPick
RecoveredProxyReturns == Health!RecoveredProxyReturns
CyclesKeepTheirSessions == Pool!CyclesKeepTheirSessions
NothingToldTwice == Self!NothingToldTwice
EveryAnomalyIsTold == Self!EveryAnomalyIsTold
KeepsHistory == Store!KeepsHistory
MentionsMatchLosses == Close!MentionsMatchLosses
CloseIsOfThePrice == Close!CloseIsOfThePrice
FinalCloseStands == Close!FinalCloseStands
OnePremiumCounted == Close!OnePremiumCounted
ResolutionIsStable == Identity!ResolutionIsStable
DoubleHeadersStayApart == Identity!DoubleHeadersStayApart
GradesCohere == Grades!GradesCohere
PricedGroupsAreMarkets == Market!PricedGroupsAreMarkets
TrustedIsEvidence == Evidence!TrustedIsEvidence
OneVerdict == Evidence!OneVerdict
LedgerAddsUp == Bankroll!LedgerAddsUp
GradedByOwnGame == Scores!GradedByOwnGame
NoPickIsForgotten == []<>(part = "scores" => Scores!Answered)
=============================================================================
