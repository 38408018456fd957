------------------------------ MODULE PollHealth ------------------------------
(* What GET /health makes of the poll records.  One job sweeps the sports one  *)
(* after the other; each cycle writes its sport's record in LAST_POLL when it  *)
(* starts and when it ends; the endpoint reads all records at any moment and   *)
(* says "ok", "partial" or "degraded" (HTTP 503, which a supervisor restarts). *)
EXTENDS Integers, FiniteSets

CONSTANTS
    SportCount,      \* sports of one sweep
    Interval,        \* poll_interval_seconds
    Budget,          \* poll_cycle_timeout_seconds, or its fallback without a watchdog
    Patience,        \* HEALTH_MAX_POLL_AGE_MULTIPLIER
    RunThreshold     \* HEALTH_CONSECUTIVE_DEGRADED_THRESHOLD

PollAssumption ==
    /\ SportCount \in Nat \ {0} /\ Interval \in Nat \ {0} /\ Budget \in Nat \ {0}
    /\ Patience \in Nat \ {0} /\ RunThreshold \in Nat \ {0}

VARIABLES
    guarded,    \* the watchdog is enabled
    turn,       \* the sport whose cycle runs, 0 between sweeps
    elapsed,    \* for how long it has been running
    lastPoll,   \* LAST_POLL
    sinceSlot,  \* time since the last slot of the interval trigger
    due,        \* the slot has come and is neither submitted nor skipped
    failures,   \* history: failed cycles of a sport in a row
    withheld    \* history: the last cycle had odds and minted nothing from them

pollVars == <<guarded, turn, elapsed, lastPoll, sinceSlot, due, failures, withheld>>

Fleet == 1 .. SportCount

\* No record yet; no finish yet.
Unpolled == [state |-> "unpolled"]
Never == -1

\* The longest that a finished cycle may be ago: three slots or a full sweep of budgets.
Ceiling ==
    LET sweep == SportCount * Budget
        slots == Patience * Interval
    IN  IF slots > sweep THEN slots ELSE sweep

\* Ages matter up to the ceiling, runs up to the threshold: beyond, they are one value.
Older(age) == IF age = Never \/ age > Ceiling THEN age ELSE age + 1
Longer(run) == IF run < RunThreshold THEN run + 1 ELSE run

(* How a pipeline run ends that does not raise: what the loader says of its    *)
(* own completeness and of the share of pages it missed (in percent), whether  *)
(* it listed matches, got odds, and dropped most candidates as stale.          *)
Endings ==
    {e \in [complete : BOOLEAN, missed : {0, 50, 51}, listed : BOOLEAN, odds : BOOLEAN,
            stale : BOOLEAN] :
        /\ e.complete => e.missed = 0
        /\ e.odds => e.listed}

TooIncomplete(e) == ~e.complete /\ e.missed > 50

\* The pipeline's gate: snapshots are stored and no candidate is looked at.
Withholds(e) == e.odds /\ TooIncomplete(e)

\* degradation_reasons; staleness is measured only on candidates the gate let through.
Degrades(e) ==
    \/ e.listed /\ ~e.odds
    \/ TooIncomplete(e)
    \/ e.odds /\ ~TooIncomplete(e) /\ e.stale

\* What is left of an ending on record.
Reports == { [degrades |-> Degrades(e), withholds |-> Withholds(e)] : e \in Endings }

----------------------------------------------------------------------------
(* The records.                                                            *)

\* Fault: the new record starts from nothing but the last finish.
StartedAfresh(record) ==
    IF record = Unpolled
    THEN [state |-> "in_progress", degraded |-> FALSE, run |-> 0, finished |-> Never]
    ELSE [record EXCEPT !.state = "in_progress", !.degraded = FALSE, !.run = 0]

\* record_poll_started: over the previous record, whose verdict it keeps.
Started(record) ==
    IF record = Unpolled
    THEN [state |-> "in_progress", degraded |-> FALSE, run |-> 0, finished |-> Never]
    ELSE [record EXCEPT !.state = "in_progress"]

\* _record_poll, and record_poll_finished for a cycle without findings.
Recorded(record, degraded) ==
    [state |-> "completed", degraded |-> degraded,
     run |-> IF degraded THEN Longer(record.run) ELSE 0, finished |-> 0]

\* Fault: what a failed cycle leaves is still the record of a running one.
FailureUnmarked(record) ==
    [record EXCEPT !.degraded = TRUE, !.run = Longer(record.run), !.finished = 0]

\* record_poll_failure
RecordedFailure(record) ==
    [state |-> "failed", degraded |-> TRUE, run |-> Longer(record.run), finished |-> 0]

----------------------------------------------------------------------------
(* The sweep.                                                              *)

PollInit ==
    /\ guarded \in BOOLEAN
    /\ turn = 0 /\ elapsed = 0
    /\ lastPoll = [s \in Fleet |-> Unpolled]
    /\ sinceSlot = 0 /\ due = FALSE
    /\ failures = [s \in Fleet |-> 0]
    /\ withheld = [s \in Fleet |-> FALSE]

\* The trigger submits poll_odds, whose first cycle starts.
SweepBegins ==
    /\ due /\ turn = 0
    /\ due' = FALSE
    /\ turn' = 1 /\ elapsed' = 0
    /\ lastPoll' = [lastPoll EXCEPT ![1] = Started(lastPoll[1])]
    /\ UNCHANGED <<guarded, sinceSlot, failures, withheld>>

\* max_instances = 1: the slot finds the previous sweep running.
SlotSkipped ==
    /\ due /\ turn # 0
    /\ due' = FALSE
    /\ UNCHANGED <<guarded, turn, elapsed, lastPoll, sinceSlot, failures, withheld>>

\* The running cycle leaves record; the next sport's starts without an await in between.
TurnOver(record) ==
    /\ turn' = IF turn < SportCount THEN turn + 1 ELSE 0
    /\ elapsed' = 0
    /\ lastPoll' = [s \in Fleet |-> CASE s = turn -> record
                                      [] s = turn + 1 -> Started(lastPoll[s])
                                      [] OTHER -> lastPoll[s]]
    /\ UNCHANGED <<guarded, sinceSlot, due>>

CycleCompletes(report) ==
    /\ turn # 0
    /\ TurnOver(Recorded(lastPoll[turn], report.degrades))
    /\ failures' = [failures EXCEPT ![turn] = 0]
    /\ withheld' = [withheld EXCEPT ![turn] = report.withholds]

\* An exception, or the watchdog's timeout.
CycleFails ==
    /\ turn # 0
    /\ TurnOver(RecordedFailure(lastPoll[turn]))
    /\ failures' = [failures EXCEPT ![turn] = Longer(@)]
    /\ withheld' = [withheld EXCEPT ![turn] = FALSE]

\* The watchdog ends a cycle at its budget; a slot is submitted or skipped when it comes.
TimePasses ==
    /\ ~due
    /\ guarded => elapsed < Budget
    /\ elapsed' = IF turn = 0 THEN 0 ELSE Older(elapsed)
    /\ lastPoll' = [s \in Fleet |-> IF lastPoll[s] = Unpolled THEN Unpolled
                                    ELSE [lastPoll[s] EXCEPT !.finished = Older(@)]]
    /\ sinceSlot' = (sinceSlot + 1) % Interval
    /\ due' = (sinceSlot' = 0)
    /\ UNCHANGED <<guarded, turn, failures, withheld>>

PollNext ==
    \/ SweepBegins \/ SlotSkipped \/ CycleFails \/ TimePasses
    \/ \E report \in Reports : CycleCompletes(report)

PollSpec == PollInit /\ [][PollNext]_pollVars

----------------------------------------------------------------------------
(* The endpoint: _poll_health.                                             *)

Polled == {s \in Fleet : lastPoll[s] # Unpolled}
Finished == {s \in Polled : lastPoll[s].finished # Never}

\* Why a sport reads degraded, "" when it does not.
Reason(s) ==
    IF lastPoll[s].state = "in_progress"
    THEN CASE elapsed > Budget -> "active_cycle_degraded"
           [] elapsed <= Budget /\ lastPoll[s].degraded -> "active_cycle_prior_degraded"
           [] OTHER -> ""
    ELSE CASE lastPoll[s].finished > Ceiling -> "stale_cycle"
           [] lastPoll[s].finished <= Ceiling /\ lastPoll[s].degraded ->
                IF lastPoll[s].state = "completed" THEN "degraded_cycle" ELSE "failed_cycle"
           [] OTHER -> ""

Soft(reason) == reason \in {"degraded_cycle", "active_cycle_prior_degraded"}

Impaired == {s \in Polled : Reason(s) # ""}

\* A run of bad cycles on a reason that is not soft, or every sport bad and not just softly.
Hard ==
    \/ \E s \in Impaired : lastPoll[s].run >= RunThreshold /\ ~Soft(Reason(s))
    \/ /\ Impaired # {} /\ Impaired = Polled
       /\ ~ /\ \A s \in Impaired : Soft(Reason(s))
            /\ \E s \in Finished : lastPoll[s].finished <= Ceiling

Status ==
    CASE Polled = {} -> "ok"
      [] Polled # {} /\ Finished = {} -> IF Hard \/ Impaired # {} THEN "degraded" ELSE "ok"
      [] OTHER -> IF Hard THEN "degraded" ELSE IF Impaired # {} THEN "partial" ELSE "ok"

----------------------------------------------------------------------------
(* Properties.                                                             *)

\* Every record is one the writers produce, and only the running sport's is in progress.
PollTypeOK ==
    /\ guarded \in BOOLEAN /\ due \in BOOLEAN
    /\ turn \in 0 .. SportCount /\ elapsed \in 0 .. Ceiling + 1
    /\ sinceSlot \in 0 .. Interval - 1
    /\ failures \in [Fleet -> 0 .. RunThreshold] /\ withheld \in [Fleet -> BOOLEAN]
    /\ \A s \in Fleet :
        \/ lastPoll[s] = Unpolled /\ turn # s
        \/ /\ lastPoll[s].state \in {"in_progress", "completed", "failed"}
           /\ lastPoll[s].state = "in_progress" <=> turn = s
           /\ lastPoll[s].degraded \in BOOLEAN /\ lastPoll[s].run \in 0 .. RunThreshold
           /\ lastPoll[s].finished \in Never .. Ceiling + 1

(* /health is honest about the engine.  With the watchdog on it reads "ok"     *)
(* while no sport's last cycle was degraded: neither the wait for the next     *)
(* slot nor the turns of the other sports, each up to its budget, make a clean *)
(* engine look stale.  The settings must not ask for a longer interval than a  *)
(* cycle's budget (300 and 900 seconds by default): the ceiling may else be    *)
(* less than a sweep and the wait before it.  It never reads "ok" while a      *)
(* sport's last cycle failed or withheld its odds ("Health and minting must    *)
(* share one threshold").  And it reads 503 when a sport failed RunThreshold   *)
(* times in a row, unless that sport is in a new cycle, or when a cycle that   *)
(* nothing cancels has hung for longer than the ceiling, whatever state the    *)
(* other sports were left in.                                                  *)
HealthIsHonest ==
    /\ guarded /\ Interval <= Budget /\ (\A s \in Polled : ~lastPoll[s].degraded)
       => Status = "ok"
    /\ (\E s \in Fleet : withheld[s] \/ failures[s] > 0) => Status # "ok"
    /\ \/ \E s \in Fleet : failures[s] = RunThreshold /\ turn # s
       \/ elapsed > Ceiling
       => Status = "degraded"
=============================================================================
