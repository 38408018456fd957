----------------------------- MODULE Settlement ------------------------------
(***************************************************************************)
(* Settlement: one scheduled cycle and any number of dashboard requests    *)
(* write results for open picks, each in a database transaction of its     *)
(* own.  Cross-source forks of a fixture give the same bet two picks on    *)
(* two events; a transaction-scoped advisory lock on the bet and a check   *)
(* for a settled twin must let only one of them be counted.                *)
(*                                                                         *)
(*   app/settlement/engine.py   run_settlement_cycle and what it calls,    *)
(*                              settle_event_picks                         *)
(*   app/api/routes.py          settle_event, record_result                *)
(*   app/storage/repositories.py  _supersede_older_versions                *)
(*                                                                         *)
(* Kickoffs of two twins are taken to lie within _dedup_tolerance.  The    *)
(* database runs READ COMMITTED: a statement sees what is committed when   *)
(* it starts and what its own transaction wrote.                           *)
(***************************************************************************)
EXTENDS Naturals, FiniteSets

CONSTANTS
    Picks, Events, Bets,
    EventOf, BetOf,      \* a pick's event row, and what its lock identifies
    Undated,             \* events first seen without a kickoff
    Ungradeable,         \* picks whose market no final score settles
    Scheduler,           \* the scheduler's job (one instance)
    Requests,            \* dashboard requests served at the same time
    Nobody,              \* no pick
    Passes,              \* bound: SELECTs in one transaction of the cycle (three: feed
                         \* scores, scraped scores, expiry)
    MaxManual,           \* bound: requests served in all
    MaxFaults            \* bound: transactions that fail

Workers == {Scheduler} \cup Requests

ASSUME SettlementAssumption ==
    /\ EventOf \in [Picks -> Events] /\ BetOf \in [Picks -> Bets]
    /\ Undated \subseteq Events /\ Ungradeable \subseteq Picks
    /\ Scheduler \notin Requests /\ Nobody \notin Picks
    /\ Passes \in Nat \ {0} /\ MaxManual \in Nat /\ MaxFaults \in Nat

VARIABLES
    status,      \* committed Pick.status
    result,      \* committed result_tracking row, by who wrote it last
    dated,       \* events whose kickoff is known
    due,         \* picks a score, a void or an expiry is waiting for
    work,        \* each worker's open transaction
    parked,      \* history: picks superseded by the settled-twin guard
    loose,       \* history: picks that got their result without the guard
    manual,      \* requests so far
    faults       \* failed transactions so far

vars == <<status, result, dated, due, work, parked, loose, manual, faults>>

----------------------------------------------------------------------------
(* A transaction: the picks its SELECT returned and has still to visit,    *)
(* which of them had a kickoff then, the pick it is at, the advisory locks *)
(* it holds and its uncommitted writes.                                    *)

Tx == [kind : {"idle", "auto", "event", "record"}, pass : 1 .. Passes,
       todo : SUBSET Picks, guarded : SUBSET Picks, at : Picks \cup {Nobody},
       locks : SUBSET Bets, settles : SUBSET Picks, parks : SUBSET Picks]

Idle == [kind |-> "idle", pass |-> 1, todo |-> {}, guarded |-> {}, at |-> Nobody,
         locks |-> {}, settles |-> {}, parks |-> {}]

HasKickoff == { p \in Picks : EventOf[p] \in dated }

Opened(kind, rows) ==
    [Idle EXCEPT !.kind = kind, !.todo = rows, !.guarded = rows \cap HasKickoff]

\* _settled_sibling_exists: the same instrument on another event row.
Twins(p) == { q \in Picks : BetOf[q] = BetOf[p] /\ EventOf[q] # EventOf[p] }

\* Fault: any open twin is enough to be a duplicate (no ResultTracking join).
SettledTwinIgnoresResults(t, p) == Twins(p) \cap HasKickoff # {}

\* Fault: the pick's own result counts (no Pick.id != pick_id).
SettledTwinOrSelf(t, p) ==
    \E q \in ({p} \cup Twins(p)) \cap HasKickoff : result[q] # "none" \/ q \in t.settles

\* Only twins that carry a result, and whose kickoff bounds the fixture, count.
SettledTwin(t, p) ==
    \E q \in Twins(p) \cap HasKickoff : result[q] # "none" \/ q \in t.settles

Writes(w) == work[w].settles \cup work[w].parks

\* The row is not waiting for another transaction's uncommitted write.
RowFree(w, p) == \A v \in Workers \ {w} : p \notin Writes(v)

\* Fault: the check runs before the lock is held.
ClearedWithoutLock(t, p) == TRUE

\* The guard applies to picks with a kickoff; past it the lock is held.
Cleared(t, p) == p \in t.guarded => BetOf[p] \in t.locks

\* The cycle has nothing to write for the pick yet, it can only be a duplicate.
Deferred(t, p) == t.kind = "auto" /\ p \notin due

Gradeable(t, p) == ~Deferred(t, p) /\ p \notin Ungradeable

\* Fault: the engine takes an existing row over (ON CONFLICT DO UPDATE).
MayWriteAlways(t, p) == t.kind = "record" \/ Gradeable(t, p)

\* _settle_one writes only a gradeable pick that has no row yet; record_result
\* takes the user's word and overwrites.
MayWrite(t, p) == t.kind = "record" \/ (Gradeable(t, p) /\ result[p] = "none")

----------------------------------------------------------------------------
(* What workers wait for, and whom Postgres aborts.                        *)

WaitsForLock(w, v) ==
    LET p == work[w].at IN
    /\ p # Nobody /\ ~Cleared(work[w], p) /\ BetOf[p] \in work[v].locks

WaitsForRow(w, v) ==
    LET p == work[w].at IN
    p # Nobody /\ Cleared(work[w], p) /\ p \in Writes(v)

BlockedBy(w) == { v \in Workers \ {w} : WaitsForLock(w, v) \/ WaitsForRow(w, v) }

InDeadlock(w) ==
    \E C \in SUBSET Workers : w \in C /\ \A v \in C : BlockedBy(v) \cap C # {}

----------------------------------------------------------------------------
(* The rest of the program, as far as settlement reads it.                 *)

Init ==
    /\ status = [p \in Picks |-> "alerted"]
    /\ result = [p \in Picks |-> "none"]
    /\ dated = Events \ Undated
    /\ due = {}
    /\ work = [w \in Workers |-> Idle]
    /\ parked = {} /\ loose = {}
    /\ manual = 0 /\ faults = 0

\* A poll learns the kickoff of an event that had none.
LearnKickoff(e) ==
    /\ e \notin dated
    /\ dated' = dated \cup {e}
    /\ UNCHANGED <<status, result, due, work, parked, loose, manual, faults>>

\* A final score arrives, or the pick passes one of the void and expiry ages.
FallDue(p) ==
    /\ p \notin due
    /\ due' = due \cup {p}
    /\ UNCHANGED <<status, result, dated, work, parked, loose, manual, faults>>

\* A poll persists the pick under a newer strategy version.
Displace(p) ==
    /\ status[p] = "alerted" /\ \A v \in Workers : p \notin Writes(v)
    /\ status' = [status EXCEPT ![p] = "superseded"]
    /\ UNCHANGED <<result, dated, due, work, parked, loose, manual, faults>>

----------------------------------------------------------------------------
(* Transactions.                                                           *)

Alerted(t) == { p \in Picks : status[p] = "alerted" } \ (t.settles \cup t.parks)

BeginCycle ==
    /\ work[Scheduler].kind = "idle"
    /\ work' = [work EXCEPT ![Scheduler] = Opened("auto", Alerted(Idle) \cap (due \cup HasKickoff))]
    /\ UNCHANGED <<status, result, dated, due, parked, loose, manual, faults>>

Serve(r, kind, rows) ==
    /\ work[r].kind = "idle" /\ manual < MaxManual
    /\ manual' = manual + 1
    /\ work' = [work EXCEPT ![r] = Opened(kind, rows)]
    /\ UNCHANGED <<status, result, dated, due, parked, loose, faults>>

\* settle_event: a final score typed in for one event.
SettleEvent(r, e) ==
    Serve(r, "event", { p \in Alerted(Idle) : EventOf[p] = e })

\* record_result: an outcome for one pick, or the correction of one.
RecordResult(r, p) ==
    status[p] # "superseded" /\ Serve(r, "record", {p})

\* Fault: the bulk hint decides for every row, not only for the deferred ones.
ToVisitHintedOnly(t) == { p \in t.todo : SettledTwin(t, p) }

\* Rows the loop has still to handle.  A deferred one is taken up only if the bulk
\* query hints at a settled twin.
ToVisit(t) == { p \in t.todo : Deferred(t, p) => SettledTwin(t, p) }

\* The loop takes the next row, in whatever order the SELECT gave them, deferred
\* ones last.
TurnTo(w) ==
    LET t == work[w] IN
    /\ t.at = Nobody
    /\ \E p \in ToVisit(t) :
         /\ Deferred(t, p) => \A q \in ToVisit(t) : Deferred(t, q)
         /\ work' = [work EXCEPT ![w].at = p, ![w].todo = @ \ {p}]
    /\ UNCHANGED <<status, result, dated, due, parked, loose, manual, faults>>

\* _lock_settlement_instrument: waits until no other transaction holds the bet.
Lock(w) ==
    LET p == work[w].at IN
    /\ p # Nobody /\ ~Cleared(work[w], p)
    /\ \A v \in Workers \ {w} : BetOf[p] \notin work[v].locks
    /\ work' = [work EXCEPT ![w].locks = @ \cup {BetOf[p]}]
    /\ UNCHANGED <<status, result, dated, due, parked, loose, manual, faults>>

Decides(w, p) == p # Nobody /\ Cleared(work[w], p) /\ RowFree(w, p)

Guards(t, p) == p \in t.guarded /\ SettledTwin(t, p)

\* The pick is a duplicate of a settled one: superseded, and no result.
Park(w) ==
    LET p == work[w].at IN
    /\ Decides(w, p) /\ Guards(work[w], p)
    /\ work' = [work EXCEPT ![w].at = Nobody, ![w].parks = @ \cup {p}]
    /\ UNCHANGED <<status, result, dated, due, parked, loose, manual, faults>>

\* The result row and the status flip.
Settle(w) ==
    LET p == work[w].at IN
    /\ Decides(w, p) /\ ~Guards(work[w], p) /\ MayWrite(work[w], p)
    /\ work' = [work EXCEPT ![w].at = Nobody, ![w].settles = @ \cup {p}]
    /\ UNCHANGED <<status, result, dated, due, parked, loose, manual, faults>>

\* Not gradeable, or settled meanwhile: the row is left as it is.
Skip(w) ==
    LET p == work[w].at IN
    /\ Decides(w, p) /\ ~Guards(work[w], p) /\ ~MayWrite(work[w], p)
    /\ work' = [work EXCEPT ![w].at = Nobody]
    /\ UNCHANGED <<status, result, dated, due, parked, loose, manual, faults>>

LoopEnded(w) == work[w].kind # "idle" /\ work[w].at = Nobody /\ ToVisit(work[w]) = {}

\* Fault: one pass too many.
MorePassesPastLast(t) == t.pass <= Passes

MorePasses(t) == t.pass < Passes

\* The cycle selects again in the same transaction, keeping its locks.
NextPass ==
    LET t == work[Scheduler]
        rows == Alerted(t) \cap HasKickoff
    IN  /\ LoopEnded(Scheduler) /\ MorePasses(t)
        /\ work' = [work EXCEPT ![Scheduler].pass = @ + 1, ![Scheduler].todo = rows,
                                ![Scheduler].guarded = @ \cup rows]
        /\ UNCHANGED <<status, result, dated, due, parked, loose, manual, faults>>

\* The transaction ends and its advisory locks are released.
Ended(w) == Idle

\* The writes become visible together.  The status is written blindly: the
\* UPDATE of the mapped object names the row only.
Commit(w) ==
    LET t == work[w]
        by == IF t.kind = "record" THEN "record" ELSE "engine"
    IN  /\ LoopEnded(w)
        /\ status' = [p \in Picks |-> IF p \in t.settles THEN "settled"
                                      ELSE IF p \in t.parks THEN "superseded"
                                      ELSE status[p]]
        /\ result' = [p \in Picks |-> IF p \in t.settles THEN by ELSE result[p]]
        /\ parked' = parked \cup t.parks
        /\ loose' = loose \cup (t.settles \ t.guarded)
        /\ work' = [work EXCEPT ![w] = Ended(w)]
        /\ UNCHANGED <<dated, due, manual, faults>>

\* Anything that raises, or ends the process, rolls the whole transaction back.
RollBack(w) ==
    /\ work' = [work EXCEPT ![w] = Ended(w)]
    /\ UNCHANGED <<status, result, dated, due, parked, loose, manual>>

Fail(w) ==
    /\ work[w].kind # "idle" /\ faults < MaxFaults
    /\ faults' = faults + 1
    /\ RollBack(w)

\* Postgres aborts one transaction of a circle of waiting ones.
DeadlockVictim(w) == InDeadlock(w) /\ RollBack(w) /\ UNCHANGED faults

----------------------------------------------------------------------------
WorkerStep(w) == TurnTo(w) \/ Lock(w) \/ Park(w) \/ Settle(w) \/ Skip(w) \/ Commit(w)

Next ==
    \/ \E e \in Events : LearnKickoff(e)
    \/ \E p \in Picks : FallDue(p) \/ Displace(p)
    \/ BeginCycle \/ NextPass
    \/ \E r \in Requests, e \in Events : SettleEvent(r, e)
    \/ \E r \in Requests, p \in Picks : RecordResult(r, p)
    \/ \E w \in Workers : WorkerStep(w) \/ Fail(w) \/ DeadlockVictim(w)

Spec == Init /\ [][Next]_vars

\* The scheduler fires the job again and again; Postgres queues whoever waits for a
\* lock or a row, so that a transaction which can proceed again and again does, and
\* breaks every circle of waiting ones (deadlock_timeout).
FairSpec ==
    /\ Spec /\ WF_vars(BeginCycle)
    /\ \A w \in Workers : SF_vars(WorkerStep(w)) /\ WF_vars(DeadlockVictim(w))

----------------------------------------------------------------------------
(* Properties.                                                             *)

\* No two transactions hold the lock of one bet, and no row has two uncommitted
\* writers, nor is a row both settled and parked by one transaction.
TypeOK ==
    /\ status \in [Picks -> {"alerted", "settled", "superseded"}]
    /\ result \in [Picks -> {"none", "engine", "record"}]
    /\ dated \subseteq Events /\ due \subseteq Picks
    /\ work \in [Workers -> Tx]
    /\ \A w \in Workers : work[w].settles \cap work[w].parks = {}
    /\ \A v, w \in Workers : v # w =>
         work[v].locks \cap work[w].locks = {} /\ Writes(v) \cap Writes(w) = {}
    /\ parked \subseteq Picks /\ loose \subseteq Picks
    /\ manual \in 0 .. MaxManual /\ faults \in 0 .. MaxFaults

\* _lock_settlement_instrument promises that the settled-sibling check and the
\* result insert are one decision: of two picks on the same bet at most one gets a
\* result, whoever settles them and in whatever order, unless one was written while
\* its kickoff was unknown and the guard does not apply.
CountedOnce ==
    \A p \in Picks : \A q \in Twins(p) :
        result[p] # "none" /\ result[q] # "none" => p \in loose \/ q \in loose

\* _supersede_if_settled_sibling supersedes "only on proof": a pick that settlement
\* took out of the books has a twin whose result is in them, also when the
\* transaction that wrote the twin might have rolled back.  And a superseded pick has
\* no result of its own, so it never enters P&L: the exception is a bet on which the
\* pick or its twin was settled while its kickoff was unknown.
SupersededOnProof ==
    /\ \A p \in parked : \E q \in Twins(p) : result[q] # "none"
    /\ \A p \in Picks :
          result[p] # "none" /\ status[p] # "settled" =>
              ({p} \cup Twins(p)) \cap loose # {}

\* record_result: the user's manual result is authoritative; no automatic pass that
\* read the pick as open beforehand overwrites it.
ManualResultStands ==
    [][\A p \in Picks : result[p] = "record" => result'[p] = "record"]_vars

\* A pick with a final score (or past its void or expiry age) does not stay open,
\* whatever locks the cycle and the requests take in whatever order.
EventuallyClosed ==
    \A p \in Picks \ Ungradeable : p \in due ~> status[p] # "alerted"
=============================================================================
