------------------------------ MODULE SelfAudit ------------------------------
(***************************************************************************)
(* The scheduled self-audit and its memory of what it has already said:    *)
(* anomalies by code, one per pick for wrong-game anchors (whose sample    *)
(* flaps), and the dead man's switch over a run of audits without odds.    *)
(* An alert counts as said once its dispatch is confirmed.                 *)
(*                                                                         *)
(*   app/maintenance/self_audit.py   self_audit_job, _dispatch_anomalies,  *)
(*                                   evaluate_dead_mans_switch             *)
(***************************************************************************)
EXTENDS Naturals

CONSTANTS
    Codes,           \* anomalies with one instance
    Games,           \* wrong-game anomalies, one per pick
    DeadMan,         \* the dead man's switch
    EmptyAudits,     \* dead_mans_k
    Day,             \* WRONG_GAME_REALERT_INTERVAL, in audits
    MaxRestarts,     \* bound: restarts of the process
    MaxUndelivered   \* bound: dispatches no channel takes

AuditAssumption ==
    /\ Codes \cap Games = {} /\ DeadMan \notin Codes \cup Games
    /\ EmptyAudits \in Nat \ {0} /\ Day \in Nat
    /\ MaxRestarts \in Nat /\ MaxUndelivered \in Nat

VARIABLES
    active,          \* active_anomalies
    empties,         \* empty_odds_streak, up to EmptyAudits
    deadTold,        \* dead_man_alerted
    hush,            \* audits for which wrong_game_alerted silences a pick
    pending,         \* alerts the running audit still dispatches
    restarts,
    undelivered,
    seen,            \* history: what the last audit found
    told,            \* history: what was said of the present episode
    age              \* history: audits since a pick was last said, up to Day

auditVars == <<active, empties, deadTold, hush, pending, restarts, undelivered, seen, told,
               age>>

Anomalies == Codes \cup Games

AuditTypeOK ==
    /\ active \subseteq Anomalies /\ deadTold \in BOOLEAN
    /\ empties \in 0 .. EmptyAudits /\ restarts \in 0 .. MaxRestarts
    /\ undelivered \in 0 .. MaxUndelivered
    /\ hush \in [Games -> 0 .. Day] /\ age \in [Games -> 0 .. Day]
    /\ {pending, seen, told} \subseteq SUBSET (Anomalies \cup {DeadMan})

AuditInit ==
    /\ active = {} /\ empties = 0 /\ deadTold = FALSE
    /\ hush = [g \in Games |-> 0]
    /\ pending = {} /\ restarts = 0 /\ undelivered = 0
    /\ seen = {} /\ told = {}
    /\ age = [g \in Games |-> Day]

UpTo(n, max) == IF n < max THEN n + 1 ELSE max

Down(n) == IF n = 0 THEN 0 ELSE n - 1

\* What ends an episode: an anomaly is gone, odds are back, or a pick that was said a
\* day ago is gone or appears anew.
Ended(found, older) ==
    { k \in told :
        \/ k \in Codes \cup {DeadMan} /\ k \notin found
        \/ k \in Games /\ older[k] = Day /\ (k \notin found \/ k \notin seen) }

History(found) ==
    LET older == [g \in Games |-> UpTo(age[g], Day)]
    IN  /\ age' = older /\ seen' = found
        /\ told' = told \ Ended(found, older)

\* Fault: what is found is active before its alert is confirmed.
AuditConsumes(found, fresh) ==
    LET streak == IF fresh THEN 0 ELSE UpTo(empties, EmptyAudits)
        fires == streak = EmptyAudits /\ ~deadTold
    IN  /\ pending = {}
        /\ empties' = streak
        /\ deadTold' = (deadTold /\ ~fresh)
        /\ hush' = [g \in Games |-> Down(hush[g])]
        /\ active' = found
        /\ pending' = { k \in found \ active : k \in Games => hush'[k] = 0 }
                        \cup (IF fires THEN {DeadMan} ELSE {})
        /\ History(found \cup (IF streak = EmptyAudits THEN {DeadMan} ELSE {}))
        /\ UNCHANGED <<restarts, undelivered>>

\* One audit up to its dispatches.  What persists stays active; what is new is to be
\* said, unless it is a pick that was said within a day.
Audit(found, fresh) ==
    LET streak == IF fresh THEN 0 ELSE UpTo(empties, EmptyAudits)
        fires == streak = EmptyAudits /\ ~deadTold
        hushed == { g \in (found \ active) \cap Games : hush'[g] > 0 }
    IN  /\ pending = {}
        /\ empties' = streak
        /\ deadTold' = (deadTold /\ ~fresh)
        /\ hush' = [g \in Games |-> Down(hush[g])]
        /\ active' = (found \cap active) \cup hushed
        /\ pending' = ((found \ active) \ hushed)
                        \cup (IF fires THEN {DeadMan} ELSE {})
        /\ History(found \cup (IF streak = EmptyAudits THEN {DeadMan} ELSE {}))
        /\ UNCHANGED <<restarts, undelivered>>

\* Fault: a confirmed pick is not stamped, so that only its presence silences it.
ConfirmUnstamped(k) ==
    /\ k \in pending
    /\ pending' = pending \ {k}
    /\ IF k = DeadMan THEN deadTold' = TRUE /\ UNCHANGED active
       ELSE active' = active \cup {k} /\ UNCHANGED deadTold
    /\ told' = told \cup {k}
    /\ age' = [g \in Games |-> IF g = k THEN 0 ELSE age[g]]
    /\ UNCHANGED <<empties, hush, restarts, undelivered, seen>>

\* A channel takes the alert.
Confirm(k) ==
    /\ k \in pending
    /\ pending' = pending \ {k}
    /\ IF k = DeadMan THEN deadTold' = TRUE /\ UNCHANGED active
       ELSE active' = active \cup {k} /\ UNCHANGED deadTold
    /\ hush' = [g \in Games |-> IF g = k THEN Day ELSE hush[g]]
    /\ told' = told \cup {k}
    /\ age' = [g \in Games |-> IF g = k THEN 0 ELSE age[g]]
    /\ UNCHANGED <<empties, restarts, undelivered, seen>>

\* No channel takes it, or the dispatch raises: nothing is consumed.
Undelivered(k) ==
    /\ k \in pending
    /\ undelivered < MaxUndelivered /\ undelivered' = undelivered + 1
    /\ pending' = pending \ {k}
    /\ UNCHANGED <<active, empties, deadTold, hush, restarts, seen, told, age>>

\* The state is the process's own.
AuditRestart ==
    /\ restarts < MaxRestarts /\ restarts' = restarts + 1
    /\ active' = {} /\ empties' = 0 /\ deadTold' = FALSE
    /\ hush' = [g \in Games |-> 0]
    /\ pending' = {} /\ seen' = {} /\ told' = {}
    /\ age' = [g \in Games |-> Day]
    /\ UNCHANGED undelivered

AuditNext ==
    \/ AuditRestart
    \/ \E found \in SUBSET Anomalies, fresh \in BOOLEAN : Audit(found, fresh)
    \/ \E k \in pending : Confirm(k) \/ Undelivered(k)

\* The job is scheduled, and dispatches return.
AuditFairness ==
    /\ WF_auditVars(\E found \in SUBSET Anomalies, fresh \in BOOLEAN : Audit(found, fresh))
    /\ WF_auditVars(\E k \in pending : Confirm(k) \/ Undelivered(k))

AuditSpec == AuditInit /\ [][AuditNext]_auditVars /\ AuditFairness

----------------------------------------------------------------------------
(* Properties.                                                             *)

\* Nothing is said twice of one episode: an anomaly that persists, an outage that goes
\* on, a wrong-game pick that drops out of the sample and returns within a day.
NothingToldTwice == pending \cap told = {}

\* An anomaly that persists is said in the end, however often its dispatch failed
\* before; so is an outage of the odds.
EveryAnomalyIsTold ==
    \A k \in Anomalies \cup {DeadMan} : <>[](k \in seen) => <>[](k \in told)
=============================================================================
