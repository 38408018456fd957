----------------------------- MODULE PickLedger -----------------------------
(***************************************************************************)
(* The mint path of a premium or volume pick: the picks table, the daily   *)
(* exposure ledger, the shielded persist-and-reserve transaction of the    *)
(* poll cycle, the hand-off of the alert, and the restart that rebuilds    *)
(* the in-memory ledger from the table.  An existing row is read without a *)
(* lock and written later, by its key: a settlement may come in between.   *)
(*                                                                         *)
(*   app/pipeline.py              run_value_pipeline, _persist_and_reserve *)
(*   app/storage/repositories.py  persist_pick, update_pick_stake          *)
(*   app/risk/exposure.py         DailyExposureLedger                      *)
(*   app/scheduler.py             seed_exposure_ledger                     *)
(*                                                                         *)
(* Fractions of bankroll are whole units.  A "line" is the pair (bookmaker,*)
(* decimal odds) of an offer.  The alert's delivery is one step here;      *)
(* module AlertDispatch opens it up.                                       *)
(***************************************************************************)
EXTENDS Integers

CONSTANTS
    Refs,            \* fixture references the loader reports (PickOut.event_id)
    Canonical,       \* [Refs -> Refs]: external_ref of the event row a reference resolves to
    Opportunities,   \* pairs <<reference, instrument>> the poll cycle can price
    Versions,        \* model versions a deployment can carry
    Lines,           \* offers (bookmaker, odds)
    NoLine,          \* the line of a row that does not exist
    MaxStake,        \* MAX_RECOMMENDED_STAKE_PERCENT, in units
    EventCap,        \* MAX_EVENT_EXPOSURE_PERCENT, in units
    DailyCap,        \* MAX_DAILY_EXPOSURE_PERCENT, in units
    MaxDay,          \* bound: UTC dates 1 .. MaxDay
    LosesAnswers,    \* the database connection may fail after the server committed
    SumOf(_)         \* PostgreSQL's SUM over one value per row of the picks table

Days == 1 .. MaxDay

\* The unique key of the picks table: event row, instrument, model version.
RowIds == { <<Canonical[o[1]], o[2], v>> : o \in Opportunities, v \in Versions }

\* What the modelled code guarantees of its settings (app/config.py validates
\* the order of the three caps) and of the database's SUM.
ASSUME PickLedgerAssumption ==
    /\ Canonical \in [Refs -> Refs]
    /\ \A o \in Opportunities : o[1] \in Refs
    /\ NoLine \notin Lines
    /\ MaxStake \in Nat /\ EventCap \in Nat /\ DailyCap \in Nat /\ MaxDay \in Nat \ {0}
    /\ MaxStake <= EventCap /\ EventCap <= DailyCap
    /\ LosesAnswers \in BOOLEAN

ASSUME SumAssumption ==
    /\ SumOf([r \in RowIds |-> 0]) = 0
    /\ \A f \in [RowIds -> 0 .. MaxStake] :
          /\ SumOf(f) \in Nat
          /\ \A r \in RowIds, c \in 0 .. MaxStake :
                SumOf([f EXCEPT ![r] = c]) = SumOf(f) - f[r] + c

VARIABLES
    rows,      \* committed picks table: [RowIds -> Row]
    day,       \* UTC wall-clock date
    version,   \* model version of the deployed process
    up,        \* the process runs, its ledger is seeded
    ledger,    \* in-memory DailyExposureLedger: used and byEvent
    cycle,     \* now.date() of the running poll cycle, 0 when none runs
    todo,      \* opportunities the running cycle has not handled yet
    read,      \* a candidate with the row persist_pick has read for it (at most one)
    session,   \* the _persist_and_reserve transaction that has written (at most one)
    settling,  \* rows a settlement has read as open and not written yet
    outbox,    \* the staked pick about to be dispatched (at most one)
    claims,    \* alert keys a channel has accepted
    grants,    \* history: units the ledger granted to each row, committed
    leaked     \* history: units handed back although their row was committed

vars == <<rows, day, version, up, ledger, cycle, todo, read, session, settling,
          outbox, claims, grants, leaked>>

----------------------------------------------------------------------------
(* The table.                                                              *)

Absent == [tier |-> "none", status |-> "absent", stake |-> 0, line |-> NoLine,
           chargedOn |-> 0, charge |-> 0]

Row == [tier : {"none", "volume", "premium"},
        status : {"absent", "alerted", "superseded", "settled"},
        stake : 0 .. MaxStake, line : Lines \cup {NoLine},
        chargedOn : 0 .. MaxDay, charge : 0 .. MaxStake]

Open(r) == rows[r].status = "alerted"

Closings == {"settled", "superseded"}

Closed(r) == rows[r].status \in Closings

Candidate == [ref : Refs, sel : {o[2] : o \in Opportunities},
              tier : {"volume", "premium"}, line : Lines, stake : 1 .. MaxStake]

RowOf(c) == <<Canonical[c.ref], c.sel, version>>

\* Fault: a promotion or new version spares premium rows whatever its tier.
OlderOpenSparesPremium(id, tier) ==
    { r \in RowIds : /\ r[1] = id[1] /\ r[2] = id[2] /\ r[3] # id[3]
                     /\ Open(r) /\ rows[r].tier # "premium" }

\* _supersede_older_versions: the open rows of the same opportunity under
\* another version; a volume pick spares premium rows.
OlderOpen(id, tier) ==
    { r \in RowIds : /\ r[1] = id[1] /\ r[2] = id[2] /\ r[3] # id[3]
                     /\ Open(r)
                     /\ tier = "premium" \/ rows[r].tier # "premium" }

\* persist_pick's classification of a candidate by the row it has read under its key.
MayUpgrade(c, old) ==
    c.tier = "premium" /\ old.tier = "volume" /\ old.status = "alerted"

MayReprice(c, old) ==
    /\ c.tier = "premium" /\ old.tier = "premium" /\ old.status = "alerted"
    /\ old.line # c.line

Outcome(c, old) ==
    IF old.status = "absent" THEN "inserted"
    ELSE IF MayUpgrade(c, old) THEN "upgraded"
    ELSE IF old.stake <= 0 THEN "duplicate_denied"
    ELSE IF MayReprice(c, old) THEN "repriced"
    ELSE "duplicate"

\* Fault: a charge of an earlier date is carried over to the new date.
ChargedAcrossDays(old, d, granted) ==
    IF granted = 0 THEN [on |-> old.chargedOn, amount |-> old.charge]
    ELSE [on |-> d, amount |-> old.charge + granted]

\* update_pick_stake's durable exposure charge.
Charged(old, d, granted) ==
    IF granted = 0 THEN [on |-> old.chargedOn, amount |-> old.charge]
    ELSE IF old.chargedOn = d THEN [on |-> d, amount |-> old.charge + granted]
    ELSE [on |-> d, amount |-> granted]

\* Fault: the promotion writes the status as well.
StatusReopened(id) == "alerted"

\* A promotion and a re-price do not write the status, so their flush leaves it as
\* the row, by then, has it; an insert sets it.
StatusLeft(id) == IF rows[id].status = "absent" THEN "alerted" ELSE rows[id].status

\* Fault: a re-priced row keeps the line it was first recommended at.
StakedRowOldLine(c, old, d, total, granted) ==
    [tier |-> "premium", status |-> StatusLeft(RowOf(c)), stake |-> total,
     line |-> IF old.tier = "premium" THEN old.line ELSE c.line,
     chargedOn |-> Charged(old, d, granted).on,
     charge |-> Charged(old, d, granted).amount]

\* The rows a transaction commits: the reserved total at the candidate's line, a new
\* volume row, the stake-zero volume row of a candidate the ledger granted nothing.
StakedRow(c, old, d, total, granted) ==
    [tier |-> "premium", status |-> StatusLeft(RowOf(c)), stake |-> total, line |-> c.line,
     chargedOn |-> Charged(old, d, granted).on,
     charge |-> Charged(old, d, granted).amount]

VolumeRow(c) ==
    [tier |-> "volume", status |-> "alerted", stake |-> c.stake, line |-> c.line,
     chargedOn |-> 0, charge |-> 0]

DemotedRow(c, old) ==
    [old EXCEPT !.tier = "volume", !.status = StatusLeft(RowOf(c)), !.stake = 0,
                !.line = c.line]

----------------------------------------------------------------------------
(* The ledger.                                                             *)

EmptyLedger == [used |-> [d \in Days |-> 0],
                byEvent |-> [d \in Days |-> [e \in Refs |-> 0]]]

AtMost(a, b) == IF a <= b THEN a ELSE b
NotBelowZero(a) == IF a < 0 THEN 0 ELSE a

\* DailyExposureLedger.reserve: the grant, bounded by the daily and the event room.
Grant(d, want, ref) ==
    AtMost(want, AtMost(NotBelowZero(DailyCap - ledger.used[d]),
                        NotBelowZero(EventCap - ledger.byEvent[d][ref])))

\* reserve adds its grant; release takes it back, clamped at zero.
Reserved(d, granted, ref) ==
    [used |-> [ledger.used EXCEPT ![d] = @ + granted],
     byEvent |-> [ledger.byEvent EXCEPT ![d][ref] = @ + granted]]

\* Fault: a failed persist forgets to hand its grant back.
ReleasedNothing(d, granted, ref) == ledger

Released(d, granted, ref) ==
    [used |-> [ledger.used EXCEPT ![d] = NotBelowZero(@ - granted)],
     byEvent |-> [ledger.byEvent EXCEPT ![d][ref] = NotBelowZero(@ - granted)]]

\* What seed_exposure_ledger sums: the premium rows charged on a date.
ChargeIn(row, d) ==
    IF row.tier = "premium" /\ row.chargedOn = d THEN row.charge ELSE 0

ChargeOn(d) == [r \in RowIds |-> ChargeIn(rows[r], d)]

ChargeOnEvent(d, e) ==
    [r \in RowIds |-> IF r[1] = e THEN ChargeOn(d)[r] ELSE 0]

\* Fault: the seed counts only the rows that are still open.
SeededFromOpenRows ==
    LET counted(ids) == [r \in RowIds |-> IF Open(r) /\ r \in ids THEN ChargeOn(day)[r] ELSE 0]
    IN  [used |-> [EmptyLedger.used EXCEPT ![day] = SumOf(counted(RowIds))],
         byEvent |-> [EmptyLedger.byEvent EXCEPT
                        ![day] = [e \in Refs |-> SumOf(counted({r \in RowIds : r[1] = e}))]]]

\* Fault: the seed restores the daily total and forgets the per-event one.
SeededDailyOnly ==
    [used |-> [EmptyLedger.used EXCEPT ![day] = SumOf(ChargeOn(day))],
     byEvent |-> EmptyLedger.byEvent]

\* The ledger rebuilt at startup for today, per day and per events.external_ref.
Seeded ==
    [used |-> [EmptyLedger.used EXCEPT ![day] = SumOf(ChargeOn(day))],
     byEvent |-> [EmptyLedger.byEvent EXCEPT
                    ![day] = [e \in Refs |-> SumOf(ChargeOnEvent(day, e))]]]

----------------------------------------------------------------------------
(* The poll cycle.                                                         *)

Events == { Canonical[e] : e \in Refs }

Idle == up /\ cycle # 0 /\ read = {} /\ session = {} /\ outbox = {}

\* Candidate c is next.  A cycle handles an opportunity at most once; its order (volume
\* inline, premium by raw Kelly) and which fixtures are still ahead are left open.
Take(c) ==
    /\ Idle
    /\ <<c.ref, c.sel>> \in todo
    /\ todo' = todo \ {<<c.ref, c.sel>>}

Init ==
    /\ rows = [r \in RowIds |-> Absent]
    /\ day = 1
    /\ version \in Versions
    /\ up = FALSE
    /\ ledger = EmptyLedger
    /\ cycle = 0 /\ todo = {}
    /\ read = {} /\ session = {} /\ settling = {} /\ outbox = {}
    /\ claims = {}
    /\ grants = [r \in RowIds |-> 0]
    /\ leaked = [d \in Days |-> 0]

\* run_value_pipeline takes its `now` once, after the fetch.
StartCycle ==
    /\ up /\ cycle = 0
    /\ cycle' = day /\ todo' = Opportunities
    /\ UNCHANGED <<rows, day, version, up, ledger, read, session, settling, outbox,
                   claims, grants, leaked>>

\* The cycle's last candidate is done, or the watchdog cancels the cycle, or a
\* dispatch raises: a cancellation waits for an open session, never for a dispatch.
EndCycle ==
    /\ cycle # 0 /\ read = {} /\ session = {}
    /\ cycle' = 0 /\ todo' = {}
    /\ outbox' = {}
    /\ UNCHANGED <<rows, day, version, up, ledger, read, session, settling, claims,
                   grants, leaked>>

\* A volume candidate: its own session, no reservation, no alert.
PersistVolume(c) ==
    /\ Take(c) /\ c.tier = "volume"
    /\ Outcome(c, rows[RowOf(c)]) = "inserted"
    /\ rows' = [r \in RowIds |->
                   IF r = RowOf(c) THEN VolumeRow(c)
                   ELSE IF r \in OlderOpen(RowOf(c), c.tier)
                   THEN [rows[r] EXCEPT !.status = "superseded"]
                   ELSE rows[r]]
    /\ UNCHANGED <<day, version, up, ledger, cycle, read, session, settling, outbox,
                   claims, grants, leaked>>

\* Fault: a price move asks for the difference, negative when Kelly shrank.
RequestedDifference(c, old) ==
    IF Outcome(c, old) = "repriced" THEN c.stake - old.stake ELSE c.stake

\* What _persist_and_reserve asks of the ledger: the stake, or on a price move
\* only the increase over what the row already holds.
Requested(c, old) ==
    IF Outcome(c, old) = "repriced" THEN NotBelowZero(c.stake - old.stake) ELSE c.stake

\* Fault: a price move recommends the new Kelly stake, clipped or not.
TotalUnclipped(c, old, granted) ==
    IF Outcome(c, old) = "repriced" THEN c.stake ELSE granted

Total(c, old, granted) ==
    IF Outcome(c, old) = "repriced" THEN old.stake + granted ELSE granted

\* The copy of the candidate that the dispatcher gets: its line, this stake.
AlertFor(c, old, stake) ==
    [id |-> RowOf(c), ref |-> c.ref, line |-> c.line, stake |-> stake,
     outcome |-> Outcome(c, old)]

\* The transaction of a premium candidate from its flushes to the commit: nobody
\* else sees its writes, the rows it writes are locked.
SessionFor(c, old, granted) ==
    LET total == Total(c, old, granted) IN
    [id |-> RowOf(c), ref |-> c.ref, day |-> cycle, granted |-> granted,
     alert |-> IF total = 0 THEN {} ELSE {AlertFor(c, old, total)},
     row |-> IF total = 0 THEN DemotedRow(c, old)
             ELSE StakedRow(c, old, cycle, total, granted),
     displaced |-> IF Outcome(c, old) = "repriced" THEN {} ELSE OlderOpen(RowOf(c), c.tier)]

\* The flush of the row, the older versions, reserve, update_pick_stake.
PersistAndReserve(c, old) ==
    LET granted == Grant(cycle, Requested(c, old), c.ref) IN
    /\ session' = {SessionFor(c, old, granted)}
    /\ ledger' = Reserved(cycle, granted, c.ref)

\* A new row is inserted and locked by one statement.
PersistNew(c) ==
    /\ Take(c) /\ c.tier = "premium"
    /\ Outcome(c, rows[RowOf(c)]) = "inserted"
    /\ PersistAndReserve(c, rows[RowOf(c)])
    /\ UNCHANGED <<rows, day, version, up, cycle, read, settling, outbox, claims,
                   grants, leaked>>

\* An existing row is read without a lock, and judged by that copy ...
ReadExisting(c) ==
    /\ Take(c) /\ c.tier = "premium"
    /\ Outcome(c, rows[RowOf(c)]) \in {"upgraded", "repriced"}
    /\ read' = {[cand |-> c, old |-> rows[RowOf(c)]]}
    /\ UNCHANGED <<rows, day, version, up, ledger, cycle, session, settling, outbox,
                   claims, grants, leaked>>

\* ... and written by its primary key, whatever has become of it by then.
PersistExisting(x) ==
    /\ PersistAndReserve(x.cand, x.old)
    /\ read' = {}
    /\ UNCHANGED <<rows, day, version, up, cycle, todo, settling, outbox, claims, grants,
                   leaked>>

\* The transaction raises before it has reserved anything.
ReadFails ==
    /\ read # {} /\ read' = {}
    /\ UNCHANGED <<rows, day, version, up, ledger, cycle, todo, session, settling, outbox,
                   claims, grants, leaked>>

\* A duplicate reserves nothing and hands the candidate itself to the dispatcher.  (A
\* volume duplicate and a duplicate_denied one change nothing: no step is needed.)
ReturnDuplicate(c) ==
    /\ Take(c) /\ c.tier = "premium"
    /\ Outcome(c, rows[RowOf(c)]) = "duplicate"
    /\ outbox' = {AlertFor(c, rows[RowOf(c)], c.stake)}
    /\ UNCHANGED <<rows, day, version, up, ledger, cycle, read, session, settling, claims,
                   grants, leaked>>

\* The table once session t is committed.
Written(t) ==
    [r \in RowIds |-> IF r = t.id THEN t.row
                      ELSE IF r \in t.displaced THEN [rows[r] EXCEPT !.status = "superseded"]
                      ELSE rows[r]]

Committed(t) ==
    /\ rows' = Written(t)
    /\ grants' = [grants EXCEPT ![t.id] = @ + t.granted]
    /\ session' = {}

Commit(t) ==
    /\ Committed(t)
    /\ outbox' = t.alert
    /\ UNCHANGED <<day, version, up, ledger, cycle, todo, read, settling, claims, leaked>>

\* The session raises: rolled back, the grant released, the alert withheld.
Rollback(t) ==
    /\ session' = {}
    /\ ledger' = Released(t.day, t.granted, t.ref)
    /\ UNCHANGED <<rows, day, version, up, cycle, todo, read, settling, outbox, claims,
                   grants, leaked>>

\* The server commits and the connection fails before the answer arrives: the
\* code sees an exception and releases a grant whose row is durable.
CommitInDoubt(t) ==
    /\ LosesAnswers
    /\ Committed(t)
    /\ ledger' = Released(t.day, t.granted, t.ref)
    /\ leaked' = [leaked EXCEPT ![t.day] = @ + t.granted]
    /\ UNCHANGED <<day, version, up, cycle, todo, read, settling, outbox, claims>>

----------------------------------------------------------------------------
(* The alert, and what happens around the cycle.                           *)

\* build_pick_alert's dedupe key: reference, instrument, line and version.
Key(a) == <<a.ref, a.id[2], a.line, a.id[3]>>

Deliver(a) ==
    /\ Key(a) \notin claims
    /\ claims' = claims \cup {Key(a)}
    /\ outbox' = {}
    /\ UNCHANGED <<rows, day, version, up, ledger, cycle, todo, read, session, settling,
                   grants, leaked>>

\* The channel refuses (its claim is released) or the key is already claimed.
NotDelivered(a) ==
    /\ outbox' = {}
    /\ UNCHANGED <<rows, day, version, up, ledger, cycle, todo, read, session, settling,
                   claims, grants, leaked>>

\* Settlement, or a user even before the kickoff, selects an open row without a lock ...
SettlementReads(r) ==
    /\ up /\ Open(r) /\ r \notin settling
    /\ settling' = settling \cup {r}
    /\ UNCHANGED <<rows, day, version, up, ledger, cycle, todo, read, session, outbox,
                   claims, grants, leaked>>

\* ... and closes it, as it is by then: with a result, or as the duplicate of a settled
\* one.  It waits while a session that has written the row keeps it locked.
Close(r, outcome) ==
    /\ r \in settling
    /\ \A t \in session : r # t.id /\ r \notin t.displaced
    /\ settling' = settling \ {r}
    /\ rows' = [rows EXCEPT ![r].status = outcome]
    /\ UNCHANGED <<day, version, up, ledger, cycle, todo, read, session, outbox, claims,
                   grants, leaked>>

NextDay ==
    /\ day < MaxDay
    /\ day' = day + 1
    /\ UNCHANGED <<rows, version, up, ledger, cycle, todo, read, session, settling, outbox,
                   claims, grants, leaked>>

\* The process dies anywhere: the open transactions are rolled back, memory is lost.
Crash ==
    /\ up
    /\ up' = FALSE
    /\ ledger' = EmptyLedger
    /\ cycle' = 0 /\ todo' = {} /\ read' = {} /\ session' = {} /\ settling' = {}
    /\ outbox' = {}
    /\ UNCHANGED <<rows, day, version, claims, grants, leaked>>

\* lifespan: the ledger is seeded before the scheduler starts, or startup aborts.
Start ==
    /\ ~up
    /\ up' = TRUE
    /\ version' \in Versions
    /\ ledger' = Seeded
    /\ UNCHANGED <<rows, day, cycle, todo, read, session, settling, outbox, claims, grants,
                   leaked>>

Next ==
    \/ StartCycle \/ EndCycle \/ NextDay \/ Crash \/ Start
    \/ \E c \in Candidate : \/ PersistVolume(c) \/ PersistNew(c)
                           \/ ReadExisting(c) \/ ReturnDuplicate(c)
    \/ (\E x \in read : PersistExisting(x)) \/ ReadFails
    \/ \E t \in session : Commit(t) \/ Rollback(t) \/ CommitInDoubt(t)
    \/ \E a \in outbox : Deliver(a) \/ NotDelivered(a)
    \/ \E r \in RowIds : SettlementReads(r) \/ \E outcome \in Closings : Close(r, outcome)

Spec == Init /\ [][Next]_vars

----------------------------------------------------------------------------
(* Properties.                                                             *)

AlertType ==
    [id : RowIds, ref : Refs, line : Lines, stake : 1 .. MaxStake,
     outcome : {"inserted", "upgraded", "repriced", "duplicate"}]

SessionType ==
    [id : RowIds, ref : Refs, day : Days, granted : 0 .. MaxStake,
     alert : SUBSET AlertType, row : Row, displaced : SUBSET RowIds]

\* Types of the table, the ledger, the open transactions and the pending alert.
TypeOK ==
    /\ rows \in [RowIds -> Row]
    /\ day \in Days /\ version \in Versions /\ up \in BOOLEAN
    /\ ledger \in [used : [Days -> Nat], byEvent : [Days -> [Refs -> Nat]]]
    /\ cycle \in 0 .. MaxDay /\ todo \subseteq Opportunities
    /\ read \subseteq [cand : Candidate, old : Row]
    /\ session \subseteq SessionType /\ settling \subseteq RowIds
    /\ outbox \subseteq AlertType
    /\ claims \subseteq Refs \X {o[2] : o \in Opportunities} \X Lines \X Versions
    /\ grants \in [RowIds -> Nat]
    /\ leaked \in [Days -> Nat]

\* What an open session has reserved for a date.
InFlight(t, d) == IF t.day = d THEN t.granted ELSE 0

\* The daily cap, across crashes, restarts, redeployments and midnight: what the
\* table says was recommended on a date exceeds MAX_DAILY_EXPOSURE_PERCENT by no
\* more than the grants of commits whose answer was lost (_persist_and_reserve's
\* except branch releases them).
DailyCapHolds == \A d \in Days : SumOf(ChargeOn(d)) <= DailyCap + leaked[d]

\* The in-memory ledger never forgets a durable or in-flight charge it must count
\* (reserve, release, preload against update_pick_stake's durable columns).
LedgerNeverForgets ==
    up => \A d \in Days : d >= day \/ d = cycle =>
            /\ SumOf(ChargeOn(d)) <= ledger.used[d] + leaked[d]
            /\ \A t \in session :
                  SumOf(ChargeOn(d)) + InFlight(t, d) <= ledger.used[d] + leaked[d]

\* And it never strands capacity: a failed, cancelled or duplicate persist leaves
\* nothing reserved on the running date (the release of _persist_and_reserve).
LedgerNeverStrands ==
    up => \A d \in {day, cycle} \ {0} :
            /\ session = {} => ledger.used[d] <= SumOf(ChargeOn(d))
            /\ \A t \in session : ledger.used[d] <= SumOf(ChargeOn(d)) + InFlight(t, d)

\* The per-event cap on the event row (config.py: two selections on one match can
\* never jointly exceed it), up to the same lost answers.
EventCapHolds ==
    \A d \in Days, e \in Events : SumOf(ChargeOnEvent(d, e)) <= EventCap + leaked[d]

\* A row's recommended stake is exactly what the ledger granted it over all its
\* days and price moves; a volume row holds no grant (update_pick_stake).
StakeIsGranted ==
    \A r \in RowIds : grants[r] = IF rows[r].tier = "premium" THEN rows[r].stake ELSE 0

\* One opportunity has at most one open premium row, whatever versions minted it
\* (_supersede_older_versions and the unique key).
OneOpenPremium ==
    \A r, s \in RowIds :
        /\ Open(r) /\ rows[r].tier = "premium" /\ Open(s) /\ rows[s].tier = "premium"
        /\ r[1] = s[1] /\ r[2] = s[2]
        => r = s

\* The alert of a new, promoted or re-priced pick quotes the line and the stake its
\* row holds (the staked copy _persist_and_reserve returns).
FreshAlertMatchesRow ==
    \A a \in outbox : a.outcome # "duplicate" =>
        /\ rows[a.id].tier = "premium"
        /\ rows[a.id].line = a.line /\ rows[a.id].stake = a.stake

\* The mint transaction has read the row to promote or re-price it, or has written it.
InHand(r) == \/ \E x \in read : RowOf(x.cand) = r
             \/ \E t \in session : t.id = r

\* What the mint path has said stands: a premium row never turns back into a volume row
\* and its stake never shrinks, for a smaller Kelly number cannot undo a bet the operator
\* may have placed.  What settlement has said stands: a settled row stays settled and a
\* superseded one closed, also where persist_pick judged it by the copy it read before;
\* and but for the one transaction that had such a copy, no tier, stake or line is
\* written to a closed row again, and no transaction takes it up.
RowsAreNeverTakenBack ==
    [][\A r \in RowIds :
          /\ rows[r].tier = "premium" =>
                rows'[r].tier = "premium" /\ rows'[r].stake >= rows[r].stake
          /\ rows[r].status = "settled" => rows'[r].status = "settled"
          /\ Closed(r) => Closed(r)'
          /\ Closed(r) /\ ~InHand(r) =>
                ~InHand(r)' /\ rows'[r] = [rows[r] EXCEPT !.status = rows'[r].status]]_vars

----------------------------------------------------------------------------
(* Statements of the repository that the code does not keep.               *)

\* repositories.py:5570 - the reported stake cannot diverge from the ledger grant:
\* a delivered alert quotes no more than what the ledger granted its row.
QuotedStakeIsGranted ==
    [][claims' # claims => \A a \in outbox : a.stake <= grants[a.id]]_vars

\* repositories.py:5133 - an open premium pick is never displaced by the shadow tier:
\* the row for which the mint path supersedes it is premium.
PremiumNotDisplacedByVolume ==
    [][\A r \in RowIds :
          /\ session # session' /\ rows[r].tier = "premium" /\ Open(r)
          /\ rows'[r].status = "superseded"
          => \E s \in RowIds : /\ s[1] = r[1] /\ s[2] = r[2]
                              /\ rows'[s].tier = "premium"
                              /\ rows'[s].status = "alerted"]_vars

============================================================================
