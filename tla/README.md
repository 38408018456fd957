# A verification project for sharp-ev-picks

TLA+ models of the stateful core of the recommender under `src/app`: how a poll cycle gets its odds and
decides which fixtures it may price, the mint path and its exposure ledger, the dispatch of alerts, the
closing line, settlement and grading, event identity, the odds store, the self-audit, and the life of
the process around them. TLC checks them on small instances; TLAPS proves every safety property of the
passing runs, and both refinements, for every value of the constants. The program recommends bets and
never places one, so what it must not get wrong is what it *says*: how much to stake in all, once per
opportunity, on a match that has not started, and what it later counts as won or lost.

## 1. Inventory

One asyncio process (held to one by a PostgreSQL advisory lock) runs an APScheduler with one
instance of each job, a FastAPI dashboard in the same event loop, PostgreSQL, Redis, and alert
channels (Telegram, webhook).

| component | state | operations | hard behaviour | correct when |
|---|---|---|---|---|
| exposure ledger, `risk/exposure.py` | used units per date, per date and event (memory) | reserve, release, preload | restart rebuilds it from the table; failed commits give back | table total per date and per event stays under its cap; nothing stranded |
| mint path, `pipeline.py`, `storage/repositories.py` | `picks` rows: tier, status, stake, offer, charge | insert, promote, re-price, duplicate, demote, supersede | shielded transaction under cancellation, versions, midnight, lost commit answers | one open premium row per opportunity, stake = what was granted, alert = row |
| kickoff gate, `pipeline.py`, `ingestion/base.py` | `EventDirectory` (memory), `events.starts_at` | register, refresh, load, skip started | two copies brought in step by two transactions; date-only kickoffs; restart | no pick from in-play prices |
| startup and lifespan, `main.py`, `scheduler.py` | single-instance lock, seeded flag, clients, jobs | lock, seed, start, watchdog, grace, drain, close, release | crash at any point, overlapping deployments, lock connection lost, hung fetch | one process schedules; no job without its clients; every sport is reached |
| poll health, `pipeline.py`, `api/routes.py` | `LAST_POLL` per sport | started, finished, failed; `GET /health` | records overwritten by a starting cycle, sweeps longer than the interval | a healthy engine reads ok, a dead one 503 |
| proxy registry, `ingestion/proxy_health.py` | streaks, quarantines, probe claims, cursor | select, sweep, record | claims of cancelled or unreached attempts | a recovered proxy returns |
| OddsChecker sessions, `ingestion/oddschecker.py` | sessions, leases, retired set, completeness verdict | lease, evict, release, close, gather | eviction under siblings, cancellation of a whole batch | no fetch on a closed session, no leak, verdict of this cycle |
| alert dispatch, `notifications/` | claims in Redis, the running dispatch | claim, send, release | cancellation at each await, Redis or channel failing before or after the effect, process death, expiry | no confirmed alert repeated, none suppressed unsent |
| settlement, `settlement/engine.py`, two endpoints of `api/routes.py` | status, `result_tracking`, advisory locks | cycle, settle_event, record_result | cycle and requests interleave at each statement; lock waits, deadlocks, rollback of a whole cycle | a bet counted once, a manual result stands, picks with a result get closed |
| grading, `settlement/outcomes.py` | none | settle_selection, retirements, P&L | quarter lines, three-way handicaps, swapped teams, sets against games | the legs of a market add up |
| score sources, `settlement/results.py`, `espn_scores.py`, capture in `clv_trueup.py` | `ScoreBook` of a fetch, scraped score of an event | publish, fetch, look up by name and date, capture, settle, void, expire | feeds late, partial, in another spelling or under another date; a page that shows a running score; restart | settled with the final score of its own game, or ended by age |
| closing line, `clv_trueup.py` | close columns, value_lost_at, skip streak | re-price open picks, mention lost value, finalize at settlement | mention after commit, race with settlement and with re-pricing | a mention per transition, a final close stays, a close is of the price held |
| close evidence, `edge/value.py`, `clv_trueup.py`, `repositories.py`, `backtesting/live_evidence.py` | verdict and reason beside the close | stamp at revalidation and finalization; decide again in three reports | stale rows of archived sources, re-prices and promotions, results recorded again | a counted close says something the prices held did not; writers and readers agree |
| event identity, `repositories.py`, `resolution/` | events, source links, review queue | redirect, own row, link, tier 1, tier 2, mint, re-date | two sources race to mint; placeholders; recycled references | a reference keeps its event; double-headers stay apart |
| odds store, `repositories.py`, both capture styles | `odds_snapshots`, last-seen memory | change-only append, closing odds | partial failure, commits without answer, restart | the history shows every change |
| self-audit, `maintenance/self_audit.py` | active anomalies, dead man's switch (memory) | audit, alert, consume on confirmation | flapping samples, failed dispatches | an anomaly is told once and in the end |
| bankroll ledger, `maintenance/bankroll_ledger.py` | `bankroll_ledger` with a running balance | sync by two jobs | both at once, results corrected meanwhile | every pick once, balances add up |
| market groups, four loaders of `ingestion/`, `pipeline.py`, `edge/value.py` | the quotes of a cycle | parse, canonicalize, fold, group, admit | four vocabularies for one match, legs missing, products and units under one name | what is priced as a market is one market, and one the score can grade |
| value detection, pricing, staking, models, backtesting, dashboards, scripts | none between cycles, or I/O | | floating point and parsing | not modelled, see section 8 |

Interactions: the poll cycle fetches through proxies and sessions, stores the odds, loads kickoffs,
calls persist_pick, then the ledger, then the dispatcher, then revalidates the open picks;
settlement and the dashboard write the same `picks` rows; a deployment changes the model version and
makes the next cycle supersede older rows; startup rebuilds the ledger from what all of these left
behind. The hazards that follow from this, each at its line, are in `PROJECT.json`.

## 2. Modules

| module | models |
|---|---|
| `PickLedger` | table, ledger, transaction, alert hand-off, restart |
| `AlertDispatch`, `Delivery` | dispatcher, Redis store, channels; the abstract promise it implements |
| `Settlement` | cycle and manual paths as database transactions |
| `CloseLine` | mint, revalidation and settlement over one pick's close columns |
| `CloseEvidence` | which closes count as evidence, for writers and readers |
| `Grading` | settle_selection for every market, from a score |
| `ScoreSources` | the score an open pick is settled with, and when it is given up |
| `EventIdentity` | the event row of a reference |
| `SnapshotStore`, `OddsHistory` | change-only odds store; the history it implements |
| `InPlayGate` | the kickoff a poll cycle believes |
| `Lifecycle` | process, lock, scheduler, watchdog, shutdown, two at a time |
| `PollHealth` | poll records and the verdict of `/health` |
| `ProxyHealth`, `ProxySessions` | proxy registry; session pool and page tasks of one loader |
| `MarketLines` | which quotes are priced against one another |
| `SelfAudit` | what the audit has said |
| `BankrollLedger` | the appends to the hypothetical bankroll |
| `MCPickLedger`, `MCAlertDispatch`, `MCSettlement`, `MCEventIdentity` | constants for TLC |
| `MCPlatform` | fourteen components side by side |
| `PickLedgerProofs` | theorems about `PickLedger`: types, the ledger and the two caps, rows and alerts |
| `AlertDispatchProofs`, `SettlementProofs` | theorems about `AlertDispatch` (with `Delivery`) and `Settlement` |
| `PricingProofs` | theorems about `InPlayGate`, `CloseLine`, `CloseEvidence` within the platform |
| `ServiceProofs` | theorems about `Lifecycle`, `SelfAudit`, `PollHealth`, `ProxySessions` within the platform |
| `StoreProofs` | theorems about `BankrollLedger`, `EventIdentity`, `SnapshotStore` (with `OddsHistory`) within the platform |
| `OutcomeProofs` | theorems about `ScoreSources`, `Grading`, `MarketLines` within the platform |
| `PlatformProofs` | the types of all fourteen components, and what `ProxyHealth` keeps |

Definitions whose comment starts with *Fault:* are plausible bugs. Each replaces one definition in
a check that the corresponding property then fails; no specification uses them.

Composition. `PickLedger` composes table, ledger, transactions and restart; `CloseLine` composes
minting, revalidation and settlement over one row; `Lifecycle` composes two processes, their
ledgers and the database; `Settlement` the cycle and the requests. The components that are left
share no variable, and no step of one reads another's state: the code joins them by data only (the
loader's snapshots, the verdict a loader leaves, an alert key). `MCPlatform` therefore puts them side
by side and lets one of them, `part`, run per behaviour, while the rest stay in their initial states.
An interleaving of two of them would add no behaviour to either. Each keeps its name for its
properties (`NoInPlayPick == Gate!NoInPlayPick`).

### PickLedger

`rows` is the `picks` table (a row identity is event row, instrument, version: the unique key),
`ledger` the `DailyExposureLedger`, `cycle` the `now.date()` a running cycle took, `read` the row
`persist_pick` has selected for a candidate and not written yet, `session` the transaction of
`_persist_and_reserve` from its first flush on, `settling` the rows a settlement has selected as open and
not written yet, `outbox` the staked pick on its way to the dispatcher.

- `PersistNew`, `ReadExisting` and `PersistExisting` are the body of `_persist_and_reserve` up to the
  commit. A new row is inserted and locked by one statement. An existing one is selected without a lock,
  judged by that copy (`Outcome`) and flushed by its primary key; a settlement may commit in between,
  and the flush then leaves the new status and writes everything else (`StatusLeft`).
  `PersistAndReserve` is what both share: `reserve` (`Grant`, `Reserved`), the total, the stake-zero
  demotion, the row `update_pick_stake` leaves (`StakedRow`, `Charged`) and the older versions that are
  superseded. `ReadFails` is an exception before anything is reserved. `Commit`, `Rollback` and
  `CommitInDoubt` are the three ways the commit ends; the last is a connection that fails after the
  server committed, which the except branch treats like a rollback.
- `PersistVolume`, `ReturnDuplicate` are the paths that reserve nothing.
- `Deliver` / `NotDelivered` is the dispatch as one step; `AlertDispatch` opens it.
- `EndCycle` is both the normal end and the watchdog's cancellation: it needs `read = {}` and
  `session = {}` because `_complete_before_propagating_cancellation` shields the transaction, and may drop the
  `outbox` because dispatch is not shielded.
- `SettlementReads` and `Close` are a settlement as the mint path meets it: the job, or a request that may
  come before the kickoff. It selects without a lock too, and its write waits for a session that has
  written the row. One settlement at a time looks at a row here; `Settlement` has several.
- `Crash`, `Start` (with `Seeded`) and `NextDay` are the rest of the world. Which fixtures are
  still ahead is left open.

A candidate (tier, offer, Kelly stake) is an input: how `edge/` and `risk/staking.py` compute it is
not modelled. Fractions of bankroll are whole units, so float rounding in the ledger is not.

### AlertDispatch and Delivery

`task` is the running `dispatch`: which channel, which await. Each await is a step and each can be
cancelled (`Cancel`), lose its answer (`AnswerLost`), raise before or after the effect
(`ClaimFails`, `ReleaseFails`), or be where the process dies (`Die`). `ClaimWon`, `ClaimSeen` and
`ClaimContended` are the outcomes of the WATCH/MULTI claim with its legacy key. `served`,
`confirmed` and `stranded` are history for the properties.

`Delivery` says what a reader of the dispatcher's docstring may rely on: a channel takes an alert
again only while no delivery is on record, and the record lasts until the claim expires.
`AlertDispatch` implements it (`Delivers`, with `accepted` and `confirmed` mapped to themselves):
retries, lost answers and cancellations map to further `Accept`s before a `Confirm`, `Expire`
to `Forget`.

### Settlement

A worker (the cycle `Scheduler`, or a dashboard request) has one transaction in `work`: the picks its
SELECT returned (`todo`), those of them that had a kickoff then (`guarded`), the advisory locks and
the uncommitted writes. `TurnTo`, `Lock`, `Park`/`Settle`/`Skip` and `Commit` are one iteration
of the three loops (`settle_open_picks`, `settle_event_picks`, `record_result`), which share the
guard: lock the bet, look for a settled twin, then write. Nothing a transaction wrote is visible
to others before `Commit`; a statement sees what is committed when it runs (READ COMMITTED).
`DeadlockVictim` is PostgreSQL's detector, `Fail` any other rollback.

The void and expiry passes write by the same guard as the score passes and are visits of the same
loop; the void pass has a transaction of its own in the code, which is a cycle transaction of the
model that commits after its first pass (`Commit` is always an alternative to `NextPass`).

### Lifecycle

`phase` is where `lifespan` is (waiting for the lock, seeding, serving, grace, draining, closing,
exiting), `job` the state of `poll_odds`, `sport` the one it is at. `Acquire` polls
`pg_try_advisory_lock`; `Serve` seeds the ledger and starts the scheduler; `SportDone`,
`Hang`, `WatchdogFires` are the ways of a cycle; `Stop`, `EndGrace`, `Unwound`, `EndDrain`,
`CloseClients`, `Release`, `Gone` are `_shutdown_scheduler_gracefully` and the cleanup steps in their
order. `Crash` drops the lock with the database session; `LockConnectionLost` drops it under a live
process, which the code does not notice (`drops`); `overran` are the processes that closed their
clients with a job still unwinding. A timeout is a step enabled while what it bounds runs.

### PollHealth and InPlayGate

`PollHealth` is one sweep after the other: `SweepBegins` or `SlotSkipped` at each slot of the
interval trigger, `CycleCompletes(report)` with what each ending the pipeline can report leaves on
record (`Reports`: from completeness, the share of pages missed on either side of 50 %, events listed
without odds, starvation by staleness), `CycleFails` for
exceptions and the watchdog, which `TimePasses` enforces: a guarded cycle does not outlive its
budget, an unguarded one may run for ever. The next sport starts in the step that ends the last
one, as no await separates them. `Reason`, `Hard` and `Status` are `_poll_health`.

`InPlayGate` is one fixture: what the loaders registered (`directory`), what the row says
(`startsAt`), and one poll cycle from `Fetch` to `Mint`; `Refresh` and `Load` are the transactions of
`_refresh_kickoffs` and `_load_kickoffs`, either of which may fail, and `OtherSourceWrites` resolves
another reference to the row at any moment. `Midnight` is a date without a time.

### ProxyHealth and ProxySessions

`ProxyHealth` has the slots' streaks and quarantines in ticks, the probe claims and the loaders'
attempts in `flight`: a single selection claims the probe (`_next_proxy_indexed`), a sweep filters
the rotation and claims nothing; attempts succeed, fail over, or are cancelled. The rotation a sweep gets is
the eligible slots in the order `filter_rotation` builds, stated as that order (`Before`). `ProxySessions` is a
fetch cycle of the OddsChecker loader over `_ProxySessionPool`: every await of `_run_with_session` is
a step of `page`, `Evict` retires a session on which siblings may be fetching, `Released` closes it
with its last lease, and a cancellation unwinds every task on its own.

### SelfAudit

`Audit(found, fresh)` is a run of `self_audit_job` up to its dispatches: what it found, whether odds
were fresh; `Confirm` and `Undelivered` are the dispatches of `pending`, consumed only when
confirmed. Wrong-game picks have a day of silence instead of an episode.

### BankrollLedger

`sync` is the transaction of each of the two jobs, from the advisory lock (`Lock`) over the last balance and the
results without an entry (`ReadBalance`, `ReadResults`) to the inserts (`Enter`) and `Commit`. `Record` is a
result, of the engine or of a user, or its correction, at any moment between these statements.

### SnapshotStore and OddsHistory

Both capture styles: memory updated after the write (`_persist_snapshots`) or set before it and
rolled back (`capture_once`), chosen by `gateFirst`. An event's savepoint can fail, a commit can fail
or succeed unheard. `OddsHistory` is the promise: the history shows the prices on offer in each
finished cycle as if all were written each time, except for events the cycle reports as failed
and quotes with an unheard commit. The refinement mapping rebuilds `shown` from the stored rows as
`closing_odds_from_snapshots` does: the price of the last row captured before the kickoff.

### CloseLine

`row` is a pick per strategy version with price, tier, status, close and `snap` (the close is from the
snapshot history). The poll cycle detects (`persist_pick`'s outcomes and the supersession of older
versions), revalidates all open picks in one commit, then mentions the crossings. That commit may
fail, or be durable without the cycle learning of it (`RevalidationUnheard`). The settlement
job and a request read, decide and flush on connections of their own; a flush writes only the
columns a session changed, over what was committed since it read.

### CloseEvidence

One pick against the sources that can price its close: `sighted` is when a source's newest row was
captured, by a scrape or, for Pinnacle, into an archive that a scrape does not refresh. `Insert` (also the
promotion of a volume row) and `Reprice` are the two ways a price is taken, `Revalidate`, `Settle` and
`Refinalize` (a request that records a result again) the writers of a close. `Stamped` is any anchor
among the rows at hand with the verdict `Independent` and the `Reason` the code writes with it;
`Finalized` knows which rows are too old and which would echo the mint. `CountsInHeadline`,
`CountsInCells` and `CountsInReport` are `_aggregate_settled`, `_settled_close_is_trusted` and
`SettledPickRow.sharp_close`. `priced` remembers every price held, for `TrustedIsEvidence`: the code keeps
only the last anchor.

### EventIdentity and Grading

`EventIdentity` is `_get_or_create_event`, in the code's order: redirect, own row (with the re-date
guard), link, tier 1, tier 2, mint; each session reads, decides and later writes. `Grading` enumerates
markets, sides and lines for every score and grades all legs of a market (`slip`) as
`settle_selection` and `settle_selection_retired` do.

### ScoreSources

One open pick and the games it can be mistaken for. `Publish` is a feed listing a game (in its own or
another spelling, or under the local date), `Fetches` what one cycle's `load_scores` may get of that:
any part, since a date or a source may fail and the cache may be old. `Lookup` is `ScoreBook.lookup`
with its order (exact names, then names alike; own date, then the neighbours unless both answer).
`Register` is what any poll leaves of the pick's match page in the `EventDirectory`, `Capture` the job
that fetches it after the match and reads the directory, whatever the fetch brought. `Settle` is a
cycle: void by age, feeds, scraped scores, expiry, in this order. `blind` and `statusless` record what
the sources withheld, for `GradedByOwnGame`.

### MarketLines

One match and a set of quotes on it: a quote is what a provider shows of a market, with any non-empty
part of its legs. `OddsChecker`, `OddsPortal`, `Arcadia` and `Betfair` are what the parsers keep of a
quote and the group and selection they write; a row remembers in `leg` what was really quoted, which no
step of the model reads. `Folded` is `fold_injected_group_details` with `canonical_market_detail`,
`GroupsOf` the grouping, `Candidates` the groups `event_fair_probs` gives a fair price
(`SpreadPairCoherent`, `Anchored`) and the candidate boundary lets through (`Settleable`, `GameLine`,
`IntegerTotal`, `Offered`). Prices are data: a book with all the selections may always anchor.
`PricedGroupsAreMarkets` compares the groups with the legs behind them.

## 3. Runs

| run | instance | properties |
|---|---|---|
| `bets` | 3 bets on 2 events, stake 2, event cap 3, daily cap 4, one date | `DailyCapHolds`, `EventCapHolds` |
| `versions` | 1 bet, 2 versions, 2 offers, 2 dates, lost commit answers | the remaining `PickLedger` properties |
| `fanout` | 2 alerts (one legacy), 2 channels, 2 faults, 2 deliveries counted | `ClaimMeansAccepted`, `Delivers`, `EventuallyAccepted` |
| `twins` | 1 fixture forked on 2 events, one of them first without kickoff, a second market; cycle of 2 passes, 2 requests, 1 fault | all `Settlement` safety |
| `closing` | the same, both events dated, every market gradeable, 1 request served, no fault, fair | `EventuallyClosed` |
| `platform` | the fourteen components of `MCPlatform`, bounds below | `TypeOK` and their 22 properties |
| `requote`, `displaced`, `merged`, `report`, `cancelled`, `redated` | smallest instance that shows it | the findings of section 5 |

What `platform` shows, part by part:

| part | instance | properties |
|---|---|---|
| process | 2 overlapping processes, 2 sports, 1 charge, 1 lost lock connection | `OneEquippedScheduler`, `EverySportIsReached` |
| health | 2 sports, interval 2, budget 3, patience 3, escalation at 2 | `HealthIsHonest` |
| gate | 2 kickoffs, a bare date, one tick after the last kickoff | `NoInPlayPick` |
| proxies | 2 slots, 2 loaders, threshold 2, 2 troubles | `RecoveredProxyReturns` |
| sessions | 2 proxies, 3 pages, 2 cycles | `CyclesKeepTheirSessions` |
| audit | 1 code, 2 wrong-game picks, dead man after 2, 2 undelivered, 1 restart | `NothingToldTwice`, `EveryAnomalyIsTold` |
| bankroll | 2 picks, 2 amounts, 1 correction | `LedgerAddsUp` |
| odds | 2 quotes of 2 events, 2 prices, 3 captures, 1 accident | `KeepsHistory` (implements `OddsHistory`) |
| closes | 2 versions, skip limit 2, 2 polls, 1 slip, 1 request | `MentionsMatchLosses`, `CloseIsOfThePrice`, `FinalCloseStands`, `OnePremiumCounted` |
| evidence | kickoff at 2, a close no older than 1, 2 detections, an archived sharp, a scraped sharp and soft books | `TrustedIsEvidence`, `OneVerdict` |
| events | 3 references: two spellings of one fixture, a women's game of the same clubs | `ResolutionIsStable`, `DoubleHeadersStayApart` |
| grades | up to 3 goals, whole, half and quarter lines, both sides of the tennis limit | `GradesCohere` |
| scores | a back-to-back, the women's game of the clubs, a club of a similar name; days of 3 ticks, void after 6, expiry after 7 | `GradedByOwnGame`, `NoPickIsForgotten` |
| lines | 3 sports; whole, half and level handicaps either way, three-way, sets against games, corners, a half; 3 quotes | `PricedGroupsAreMarkets` |

Why these bounds reach the interesting cases. In `bets` three stakes of 2 do not fit the daily cap of 4
nor two of them the event cap of 3: full, clipped and zero grants all occur, on one event and across
events, before and after a restart, and a settled row still counts. `versions` separates the offers
(re-pricing), the versions (superseding, both directions after a redeployment) and the dates (a cycle
that runs over midnight, a charge that restarts), all on one opportunity because each of those
mechanisms concerns one. Its two offers are interchangeable (`OffersAlike`), since the code only asks
whether two of them are the same; it is the only run with a symmetry, and has no liveness property.
`fanout` needs two channels for partial fan-out, two alerts for the order of dispatches and two faults
for a cancellation on top of a failure. In `twins` two forks and three transactions at once are what a
circle of lock waits and a stale SELECT need; the third pick makes the cycle hold a lock of another bet.
In `platform` two processes suffice because the lock is pairwise; two sports because a sweep longer than
the interval skips a slot and one sport can hide another's record (the health part was also run with one
and with three sports); three pages over two proxies put siblings on an evicted session; a reference has
at most two other rows to be mistaken for. Three quotes are what a wrong fold needs: a native group, a
row adopted into it, and a soft offer (`lines` was also run alone with four).

Named bounds: `MaxDay`, `MaxStake` with the caps in units, `MaxAccepts`, `MaxFaults`, `Passes` (2
of the up to 3 SELECTs in one settlement transaction), `MaxManual`, `MaxCharge`, `MaxDrops`,
`MaxTrouble`, `MaxFetches`, `MaxRestarts`, `MaxUndelivered`, `MaxCaptures`, `MaxAccidents`, `MaxPolls`,
`MaxSlips`, `MaxByHand`, `Horizon`, `LastTick`, `MaxQuotes`, `KickoffAt`, `MaxDetections`,
`MaxCorrections`. A bounded counter only stops the environment; no property is about
reaching it. Ages in `PollHealth` saturate one above the ceiling and runs at the threshold, which no
comparison of the code distinguishes from more. Only `platform` disables the deadlock check: the
bounded parts and the grading of one slip come to an end.

## 4. Fairness

`AlertDispatch!Fairness`: awaited calls return (every one has a timeout: WF on `Step`), the
scheduler fires on an interval and dispatches what still qualifies (SF per alert, since the one
running dispatch may be another's), and a channel that is tried again and again takes the alert in
the end (SF per key). Nothing is assumed about expiry; faults are finite by `MaxFaults`.

`Settlement!FairSpec`: the job fires again and again (WF `BeginCycle`), PostgreSQL queues lock
waiters, so a transaction that can proceed again and again does (SF per worker) and breaks every
circle of waiters (WF `DeadlockVictim`). `EventuallyClosed` excludes picks whose market no score
settles; the code leaves those open for a person until their void or expiry age.

`Lifecycle`: the interval trigger submits, and `asyncio.wait_for` fires (WF on `Submit` and
`WatchdogFires`); nothing is assumed about a fetch, which may hang. `ProxyHealth`: time passes and an
attempt ends, each having a timeout (WF on `Tick` and on success or failover). `SelfAudit`: the job
is scheduled and a dispatch returns (WF); that a dispatch is not refused for ever is the bound
`MaxUndelivered`. `ScoreSources`: time passes and the settlement job runs, with feeds that are not
all down (WF on `HourPasses` and `Settle(FALSE)`); nothing is assumed about what a feed publishes.
`MCPlatform` states the same conditions for the part that runs. `PickLedger` and
the other components have safety properties only.

## 5. Where the code and its own words differ

1. `requote`: a re-dispatched duplicate quotes this cycle's unclipped Kelly stake, while
   `update_pick_stake` promises that the reported stake cannot diverge from the grant.
2. `displaced`: a new version's candidate supersedes the open premium row before the ledger grants
   it nothing and it becomes a stake-zero volume row: an open premium pick displaced by the shadow
   tier, which `_supersede_older_versions` says never happens.
3. `merged`: the ledger counts per loader reference, rows go to the resolved event. Two references
   of one fixture get a cap each, and the event's total exceeds the cap that config.py says two
   selections on one match can never jointly exceed. A restart seeds by the resolved event and
   restores the right count.
4. `report`: a channel without a token keeps its claim after a send that returned False, and the
   next dispatch reports it as delivered because "this channel already accepted the alert".
5. `cancelled`: a cancellation between the channel's acceptance and its answer releases the claim,
   and a channel that never failed gets the alert twice.
6. `redated`: `refresh_event_kickoffs`, run for every scraped event, and the link redirect of
   `_get_or_create_event` write a new kickoff without `_redate_allowed`: an event with settled picks is
   moved by any distance, which the comment on `_EVENT_REDATE_GUARD_WINDOW` says is never absorbed
   silently.

The positive properties are stated so that these six do not hide in them: `FreshAlertMatchesRow`
excludes re-dispatched duplicates (1), `EventCapHolds` is checked where every reference has its own row
(3), `DailyCapHolds` counts `leaked`, the grants released by commits whose answer was lost, and
`CountedOnce` / `SupersededOnProof` except picks that got a result while their kickoff was unknown
(`loose`), for which the code says the guard does not apply. `ResolutionIsStable` and
`DoubleHeadersStayApart` do not depend on kickoffs staying put (6). `HealthIsHonest` calls a clean
engine "ok" only under settings whose poll interval is no longer than a cycle's budget (300 and 900
seconds by default); see below. `GradesCohere` leaves out the draw leg of a three-way handicap on an
event that lists the teams the other way round (`DrawOnFlippedEvent`): it is graded against the event's
home team. `CloseIsOfThePrice`, `FinalCloseStands` and `OnePremiumCounted` leave out picks a request
settled (`byHand`), which may be before their kickoff, while the cycle has them in hand: what the cycle
then writes over them no property excludes. `RowsAreNeverTakenBack` keeps the status of a row that is
closed while `persist_pick` has its copy, and not its tier, stake and line. `NoInPlayPick` leaves out a
cycle whose refresh failed or after whose refresh another source wrote (`misled`). `GradedByOwnGame`
allows another game's score of the same category where the sources had no clear row of the own one, and
a running score that came without a status and outlasted the floors in the directory, because the fetch
after the match brought nothing. `PricedGroupsAreMarkets` takes both teams of a three-way handicap whose
draw leg nobody quotes for the whole market (`Exhausts`), and leaves out the level Asian line of soccer
(`GradedAsQuoted`); see below.

Seen while modelling, without a run of their own:

- A pick settled by hand between the SELECT of `persist_pick` and its flush is promoted or re-priced all
  the same: the settled row gets a new tier, line, stake and charge and loses its close. The test at
  tests/test_persistence.py:808 says that past "alerted" a premium detection "is a plain duplicate",
  which is so when the settlement comes before the SELECT. In the same way a revalidation that has
  selected a pick as open writes the close columns of one settled by hand meanwhile, against "Settled
  picks are frozen" (clv_trueup.py:7).
- A settlement cycle that has selected a pick as open settles it although a new version has superseded it
  meanwhile: `_settle_one` does not look at the status again.
- The comment on the mentions (clv_trueup.py:514) says that if the commit raises, "the next cycle simply
  re-detects the same transition and retries the mention". When the commit is durable and only its answer is
  lost, `value_lost_at` is set and the mention is never sent; `MentionsMatchLosses` counts it as missed.
- No setting is refused that makes the poll interval longer than the watchdog's budget. From four sports on
  a sweep and the wait before the next one can then exceed the ceiling of `_poll_health`: an engine whose
  every cycle is clean reads "partial", with a sport's last finish called stale (found in the proof of
  `Health_IsHonest`; TLC shows it with four sports, a budget of 3 and an interval of 4).

- A single sport whose every cycle fails reads "partial" (200) while a new cycle is in flight:
  `record_poll_failure` stamps `finished_at`, and the flag a starting cycle keeps counts as soft. The
  docstring of `_poll_health` calls that class a completed cycle or a fresh heartbeat.
- A failed kickoff refresh is only logged, and the persisted kickoff is then preferred to the fresh
  one in memory: a match moved forward can be priced for a cycle, against the "must never mint" of the
  in-play gate (pipeline.py:2168).
- Expiry "never" takes a pick whose result is pending or ambiguous (config.py:1359,
  `report_and_expire`). An ambiguous lookup returns None like a missing one, and a score that was
  refused is out of the sources' window before the void age: both are ended as unanswered.
- `lookup` takes a row with exactly our names of an adjacent date before a row with similar names of
  the own date, although its docstring lets the own date win.
- A feed that lost one date, or is late with it, lets the second game of a back-to-back be settled with the
  first one's score; so can the scraped page of another open pick, whose names need no matching.
- A tennis pick whose page gave a score is skipped by the void pass and not graded by that score: only
  expiry ends it.
- A level Asian handicap of soccer ("A +0", "B +0") from OddsChecker is coherent and is priced as the
  two-way market it is. `_settle_spreads` then grades it like the three-way one: a draw is LOST, not PUSH.
- The two team legs of a European handicap whose draw leg nobody quotes pass `spread_pair_coherent` as a
  pair, which its docstring calls exclusive and exhaustive. Only the bounds on the overround, on prices
  that leave a third outcome out, stand between that pair and a fair price.
- `record_result` writes a corrected P&L over the old one, but `sync_bankroll_ledger` appends only picks that
  have no entry yet: after a correction the ledger keeps the first P&L, although its docstring says it can
  never disagree with the performance report (maintenance/bankroll_ledger.py:10).
- `bankroll_ledger_report` orders the entries by `occurred_at` and reports the last one's balance. The
  seed carries the time of the first sync, the entries behind it the earlier times their picks were
  settled: right after activation the current balance is the starting balance.
- With `stake_same_event_rho` > 0 and the uncertainty shrink on (both are off by default), a cell without
  trusted picks shrinks a stake to zero and the haircut of its event is missing from the multipliers.

## 6. Proved

Every theorem is about a component's specification (for the fourteen small components, about
`MCPlatform`'s, in which one of them runs) and for every value of the constants that satisfies the
named assumptions. TLC evaluates those assumptions on the runs' instances. Each follows the same argument: an
inductive invariant, shown of the initial states and of every action by itself, that implies the
property; an action property is then shown of a step from a state of the invariant.

### PickLedger

`PickLedgerAssumption` (the order of the caps is what `config.py` validates) and `SumAssumption`, what
SQL's SUM over one value per row does: zero on zeros, and changing one row changes the sum by the
difference. On the instances SUM is a fold.

- `Typing`, `Invariance`, `DailyCap_Holds`, `Ledger_NeverForgets`, `DailyCap_Strict` (without lost
  commit answers the cap is strict). `TypeOK` alone is not inductive: that a demotion keeps the row's
  charge below its stake, or that a commit cannot overfill a row, depends on what an open transaction
  may hold. Nor is the row in the table any longer the one the transaction judged. `IInv` adds
  `SoundReads` (the copy it holds of an open row differs from the row at most in the status, because
  nothing else writes tier, stake, line or charge, and the candidate is one to promote or re-price,
  `Ready`), `SoundRows` (a charge never exceeds the stake, only premium rows are charged, never to a
  date that has not come), `SoundCycle` and `SoundSessions` (at most one transaction, of the running
  cycle, whose row adds exactly its grant to the charge of its date). `DailyCapHolds` is not inductive
  either: the cap is enforced on the ledger, not on the table. `CapInv` carries `FitsDailyCap` (ledger
  and table fit the cap up to what leaked) with `Remembers` (the ledger is at least table plus in-flight
  grant on every date still to come or in use).
- `Stake_IsGranted`, `One_OpenPremium`, `FreshAlert_MatchesRow`, `Rows_AreNeverTakenBack`
  from `TableInv`, which adds to the first three what an open transaction has locked: the status it will
  leave is the row's, every other open premium row of the bet is one it will supersede, and the alert it
  will hand over quotes the row it will commit (`SoundLocks`). A transaction that has read has written
  nothing (`ReadsAlone`), and a row a settlement has in hand exists (`SoundSettling`).
- `Ledger_NeverStrands` from `BackedInv`, the other direction of `Remembers`: what the
  ledger counts is in the table or in flight. It needs that no row is charged to a date after the running
  cycle's (`ChargedByCycle`), because a charge that restarts on a new date leaves the old one.
- `EventCap_Holds`, under `OwnEvents`: the loaders report a match under the reference of its event row.
  Where they do not, the cap fails (`merged`, section 5). `EventInv` is `CapInv` per match.

### AlertDispatch and Settlement

- `Claim_MeansAccepted` and `Implementation` (`AlertDispatch` implements `Delivery`: every step is an
  acceptance, a confirmation, an expiry, or a stutter). `Inv` says what each await may find: while a
  dispatch sends, its claim is in Redis and belongs to no delivery on record, and whatever is on record
  was accepted and still has its claim.
- `Type_OK`, `Counted_Once`, `Superseded_OnProof`, `ManualResult_Stands` for any picks, bets, events,
  requests and passes. The settled-twin check is made long before the commit, so `Inv` carries that its
  verdict stays true (`KeepsDecision`: the lock on the bet is held from the check on, and locks exclude
  each other), that a pick to be superseded keeps its twin's result (`HasProof`) and that the engine
  inserts results only where none is (`Inserts`).

### The components of the platform

- `No_InPlayPick`: `GateInv` says that between refresh and load the row holds what the scraper reported,
  and that a cycle prices by no later kickoff than the one known when it was loaded, unless `misled`.
- `Close_IsOfThePrice`, `Mentions_MatchLosses`, `One_PremiumCounted`, `Final_CloseStands`: `CloseInv`
  relates what a cycle or a session read to the committed row. The price it read is still the row's
  (`CycleHolds`, `TxHolds`), because a cycle that prices began before kickoff and is over before
  settlement is due (`CycleTimely`).
- `Trusted_IsEvidence`, `One_Verdict`: `EvidenceInv` says that the verdict stamped beside a close is the
  one the row, as it stands, would get now.
- `One_EquippedScheduler`: whoever is past the lock holds it or lost it (`LifeInv`), and a job outlives
  the scheduler only where it overran the drain.
- `Nothing_ToldTwice`: what was said of an anomaly is active, or silenced for exactly as long as its
  episode can go on (`AuditInv`).
- `Health_IsHonest`, for any number of sports. That a clean engine is never stale is a bound on time:
  `PollInv` bounds the age of each sport's finish by the turns of the sports after it, the wait for the
  next slot, the turns before it and what has passed of the running one. Its largest value is
  the ceiling or less when `Interval <= Budget`, which is why the property says so.
- `Cycles_KeepTheirSessions`, for finite `Pages`: `SessionsInv` counts every session built as current,
  retired or closed, every lease as one page's, and the sessions of a proxy by the evictions, of which a
  page makes two at most.
- `Ledger_AddsUp`: at any time at most one job holds the advisory lock, and what it has written continues
  the committed book in order (`BookInv`): opened once, each pick once, balances carried on.
- `Resolution_IsStable`, `DoubleHeaders_StayApart`: `IdentityInv` says that a link leads from a reference
  without a row to a row of the same markers, and that a decision still to be written is about the
  reference's home; only the poll cycle decides on unknown references, so no other session's decision
  is overtaken. `MarkersOf` may be any function here.
- `Store_KeepsHistory`: the store implements `OddsHistory`, step by step. A price remembered is the close of a
  kickoff right after the last finished cycle, unless a commit was not heard of (`StoreInv`); rows of
  one quote have different times, so the last one is unique.

### What a pick is worth, and the types of the platform

- `Graded_ByOwnGame`, for any games, kickoffs, markers and likenesses of names: `ScoreInv` says that a page
  that calls the match over shows no running score, and that a captured running score came without a
  status, after the floor for such pages. The rest is what `Lookup` prefers: where the own game has a clear
  row (`Sighted`), none of the three places it looks in answers with another (`SightedAnswers`).
- `Grades_Cohere`, for every score, line, sport, ending and order of teams: `GradesInv` says that a slip is
  all legs of one market, graded from the same score. The sum over two or three legs is unrolled
  (`SumUnfolds`); two sides cancel component by component (`ComponentsCancel`), so a quarter line, the mean of
  two components, does too, and what is ungradeable for one leg is for the other (`RefusedTogether`).
- `Priced_GroupsAreMarkets`, for any menus and any number of quotes: every row is of one of five kinds, told
  apart by the space its provider files it under (`RowOK`: totals, three-way, injected, native, first
  half), and folding moves it only into a group of a kind it fits (`FoldedRowOK`). Per kind, a group that passes
  `SpreadPairCoherent` and the candidate boundary has legs of one market, and `Anchored` leaves none out.
- `Type_OK`, the type invariant of the run, as `PlatformInv`: the invariants above and what they left out. A
  slot a sweep tries is a slot because a finite set of slots can be listed in the order of a measure
  (`Sortable`: in a smallest set that cannot be, removing the least member leaves one that can). The rows
  that a cycle or a transaction of `CloseLine` has read are rows (`CycleTyped`, `TxTyped`), and a price is lost
  no more often than there were polls (`LossesBound`). A cycle of the store is under way only while
  a capture is left (`StoreRest`), and no event row is minted twice (`IdentityRest`).

Assumptions on constants, all of them evaluated on the run's instance: the numbers of the platform are
natural numbers, and positive where `config.py` validates it (`HealthAssumption`: threshold, quarantine
and failover limit have `ge=1`, and a registry without slots is never asked); scores are counted from
zero and lines are integers of quarters (`GradeAssumption`); a day has a length (`ScoreAssumption`).
`LinesAssumption` says what books list, which the code takes for granted as well: no three-way handicap
of nothing and none in tennis, totals and exact sets above zero, exact sets of the whole match, and no
total of games at 4.5 or less, where the code takes a total without an axis for one of sets.

## 7. Model-checked only

- Liveness under fairness, which this prover does not reason about (no ENABLED): `EventuallyAccepted`,
  `EventuallyClosed`, `EverySportIsReached`, `RecoveredProxyReturns`, `EveryAnomalyIsTold`,
  `NoPickIsForgotten`.
- The six disagreements of section 5, each of which is a counterexample.

That a proof covers every value of the constants says nothing of what a model leaves out: section 8 applies
to the theorems as to the runs.

## 8. Not modelled, and abstractions

Not modelled: pricing, de-vigging, staking, statistical models (real-valued, stateless between
cycles; a candidate is their result); request formats of the loaders and their parsers beyond
handicap and total lines (network I/O); the
discovery of fixtures; historic loaders, the rest of backtesting, scripts, research (offline); dashboard reads;
message texts; checks of settings at startup; the log filter of skipped slots. By lines this is most of the
repository: page parsers, numeric models, report queries and settings keep no state between two calls and
meet no other actor, so a model of them would only restate them.

Abstractions that bear on what is shown:

- In `PickLedger` the flushes of `persist_pick` and `update_pick_stake` are one step with the grant: the row
  is locked from the first on. Only one settlement at a time has a row in hand, and what it
  writes besides the status is in `CloseLine` and `Settlement`.
- `Displace` in `Settlement` does not overlap an uncommitted write of the same row.
- Twins' kickoffs lie within `_dedup_tolerance`; whether a pick has a score is read when the pick is
  visited, not once per pass.
- One dispatch runs at a time in `AlertDispatch`; other jobs dispatch other keys.
- Rows written before the charge columns existed (the seed's legacy branch) do not occur.
- `CloseLine` has one opportunity with a known kickoff, and a cycle begun before kickoff ends before
  `SETTLE_DELAY` has passed; the off-window second revalidation, the cap's denial, the choice of the
  anchor and the drift rows are left out.
- In `CloseEvidence` the fill is at a soft book, every writer records the anchor's book, a close the
  writers refuse as implausible is no close, and rows of one old parser's product mismatch are left out.
- `ProxySessions` has one batch of pages; warm-up retries and the listing pass are left out, and which
  proxy a lease takes is any. In `ProxyHealth` the Betfair loader's own cursor is an arbitrary base.
- `SelfAudit` leaves out two throttled notices (listing recovery, proxy headroom), `Lifecycle` the cron
  jobs, `SnapshotStore` the liquidity columns and the age limit of a close, `Grading` the commission,
  rounding to cents.
- `ScoreSources` has one pick; pages of other picks' events show finals, no two games end with the same
  score (which would make an ambiguous lookup harmless), the retirement and walkover rows of tennis are
  rows like others, and a void or expired pick's P&L is `Settlement`'s.
- `MarketLines` has handicaps and totals; moneylines and draw-no-bet have no lines, double chance is
  derived, and team totals are never priced. The legacy grid page, Betfair's runner names and best-of-five
  matches are left out; one soft book with all the selections may anchor where the code takes the median
  of three, so more groups are priced than in the code.
- In `BankrollLedger` picks enter in any order: the code's order is by a settlement time users choose.
  The report of the ledger is left out.
- `PollHealth` has no invalid or future timestamps and no readiness cache. `InPlayGate` has one fixture
  and no re-date guard; its `now` is the cycle's, alerts leave later.

## 9. Plan

Done: all modules of section 2, and a proof of every safety property that a passing run checks, invariants
and action properties, of both refinements and of the types.

Left, in order of what they would say: the positive halves of section 5 (for instance, that an event with
settled picks is moved only by the two paths that skip `_redate_allowed`); the ordering of the bankroll
report; the off-window revalidation and the drift rows in `CloseLine`; the listing pass in `ProxySessions`. The
liveness properties wait for a prover that handles fairness.
