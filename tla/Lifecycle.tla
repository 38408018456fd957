----------------------------- MODULE Lifecycle ------------------------------
(***************************************************************************)
(* The life of a process: single-instance lock, seeding of the exposure    *)
(* ledger, the scheduler and its jobs, the watchdog over one sport's poll  *)
(* cycle, the bounded shutdown.  Two deployments of the application may    *)
(* overlap (a rolling restart), they share the database only.              *)
(*                                                                         *)
(*   app/main.py       lifespan, _acquire/_release_single_instance_lock,   *)
(*                     _shutdown_scheduler_gracefully                      *)
(*   app/scheduler.py  poll_odds, run_sport_cycle_guarded                  *)
(*                                                                         *)
(* A timeout is a step that is enabled while what it bounds is running.    *)
(***************************************************************************)
EXTENDS Naturals, FiniteSets

CONSTANTS
    Procs,          \* processes of the application
    Nobody,         \* the lock's owner when it is free
    Sports,         \* number of sport keys poll_odds visits, in order
    MaxCharge,      \* bound: exposure charges committed
    MaxDrops        \* bound: processes without the lock connection they had

LifecycleAssumption ==
    Nobody \notin Procs /\ Sports \in Nat \ {0} /\ MaxCharge \in Nat

VARIABLES
    watchdog, \* the setting POLL_CYCLE_TIMEOUT_SECONDS > 0
    phase,    \* where lifespan is, per process
    lock,     \* session that holds the PostgreSQL advisory lock
    clients,  \* the HTTP and Redis clients are open, per process
    job,      \* state of poll_odds, per process
    sport,    \* sport poll_odds is at, 0 when it is idle
    charged,  \* exposure committed to the database today
    ledger,   \* in-memory exposure of each process
    drops,    \* history: processes whose lock connection was lost
    overran   \* history: processes that closed with the job still unwinding

vars == <<watchdog, phase, lock, clients, job, sport, charged, ledger,
          drops, overran>>

Phases == {"off", "seeding", "serving", "grace", "draining", "closing",
           "closed", "exiting"}

TypeOK ==
    /\ watchdog \in BOOLEAN
    /\ phase \in [Procs -> Phases] /\ lock \in Procs \cup {Nobody}
    /\ clients \in [Procs -> BOOLEAN]
    /\ job \in [Procs -> {"idle", "running", "hung", "cancelled"}]
    /\ sport \in [Procs -> 0 .. Sports]
    /\ charged \in 0 .. MaxCharge /\ ledger \in [Procs -> 0 .. MaxCharge]
    /\ drops \subseteq Procs /\ overran \subseteq Procs

Init ==
    /\ watchdog \in BOOLEAN
    /\ phase = [p \in Procs |-> "off"] /\ lock = Nobody
    /\ clients = [p \in Procs |-> FALSE]
    /\ job = [p \in Procs |-> "idle"]
    /\ sport = [p \in Procs |-> 0]
    /\ charged = 0 /\ ledger = [p \in Procs |-> 0]
    /\ drops = {} /\ overran = {}

Turn(p, from, to) == phase[p] = from /\ phase' = [phase EXCEPT ![p] = to]

SetJob(p, s) == job' = [job EXCEPT ![p] = s]

Alive(p) == job[p] # "idle"

----------------------------------------------------------------------------
(* Startup.                                                                *)

\* _acquire_single_instance_lock; contended, the process gives up at once.
Acquire(p) ==
    /\ lock = Nobody /\ lock' = p
    /\ Turn(p, "off", "seeding")
    /\ drops' = drops \ {p} /\ overran' = overran \ {p}
    /\ UNCHANGED <<clients, job, sport, charged, ledger>>

\* Seed the ledger from the database, open the clients, start the scheduler.
Serve(p) ==
    /\ Turn(p, "seeding", "serving")
    /\ ledger' = [ledger EXCEPT ![p] = charged]
    /\ clients' = [clients EXCEPT ![p] = TRUE]
    /\ UNCHANGED <<lock, job, sport, charged, drops, overran>>

\* Seeding or scheduler.start raised: no scheduler to stop, the rest is cleaned up.
StartupFails(p) ==
    /\ Turn(p, "seeding", "closing")
    /\ \E opened \in BOOLEAN : clients' = [clients EXCEPT ![p] = opened]
    /\ UNCHANGED <<lock, job, sport, charged, ledger, drops, overran>>

----------------------------------------------------------------------------
(* Jobs.                                                                   *)

\* The interval fires and no instance of the job runs (max_instances = 1); while one
\* does, slots are skipped.
Submit(p) ==
    /\ phase[p] = "serving" /\ job[p] = "idle"
    /\ SetJob(p, "running")
    /\ sport' = [sport EXCEPT ![p] = 1]
    /\ UNCHANGED <<phase, lock, clients, charged, ledger, drops, overran>>

\* The next sport of poll_odds' loop, or its end.
NextSport(p) ==
    IF sport[p] < Sports
    THEN SetJob(p, "running") /\ sport' = [sport EXCEPT ![p] = @ + 1]
    ELSE SetJob(p, "idle") /\ sport' = [sport EXCEPT ![p] = 0]

\* A sport's cycle returns or raises: both are caught, the loop goes on.
SportDone(p) ==
    /\ job[p] = "running"
    /\ NextSport(p)
    /\ UNCHANGED <<phase, lock, clients, charged, ledger, drops, overran>>

\* An awaited fetch of a sport's cycle never returns.
Hang(p) ==
    /\ job[p] = "running"
    /\ SetJob(p, "hung")
    /\ UNCHANGED <<phase, lock, clients, sport, charged, ledger, drops, overran>>

\* Fault: the watchdog's TimeoutError leaves the loop over the sports.
WatchdogStopsLoop(p) ==
    /\ watchdog /\ job[p] \in {"running", "hung"}
    /\ SetJob(p, "idle") /\ sport' = [sport EXCEPT ![p] = 0]
    /\ UNCHANGED <<phase, lock, clients, charged, ledger, drops, overran>>

\* asyncio.wait_for cancels a cycle that outlives its budget; polling resumes
\* with the next sport.
WatchdogFires(p) ==
    /\ watchdog /\ job[p] \in {"running", "hung"}
    /\ NextSport(p)
    /\ UNCHANGED <<phase, lock, clients, charged, ledger, drops, overran>>

\* The shielded persist-and-reserve transaction of a poll cycle commits, after a
\* cancellation too.
Charge(p) ==
    /\ job[p] \in {"running", "cancelled"} /\ charged < MaxCharge
    /\ ledger[p] < MaxCharge
    /\ charged' = charged + 1
    /\ ledger' = [ledger EXCEPT ![p] = @ + 1]
    /\ UNCHANGED <<phase, lock, clients, job, sport, drops, overran>>

----------------------------------------------------------------------------
(* Shutdown.                                                               *)

\* SIGTERM: the scheduler is paused, running jobs get their grace.
Stop(p) ==
    /\ Turn(p, "serving", "grace")
    /\ UNCHANGED <<lock, clients, job, sport, charged, ledger, drops, overran>>

\* The grace ends, because the jobs did or because its time is up: what still runs
\* is cancelled.
EndGrace(p) ==
    /\ Turn(p, "grace", "draining")
    /\ job' = [job EXCEPT ![p] = IF Alive(p) THEN "cancelled" ELSE "idle"]
    /\ UNCHANGED <<lock, clients, sport, charged, ledger, drops, overran>>

\* A cancelled job reaches the end of its finally blocks.
Unwound(p) ==
    /\ job[p] = "cancelled"
    /\ SetJob(p, "idle")
    /\ sport' = [sport EXCEPT ![p] = 0]
    /\ UNCHANGED <<phase, lock, clients, charged, ledger, drops, overran>>

\* The drain ends: every cancelled job is through, or its time is up.
EndDrain(p) ==
    /\ Turn(p, "draining", "closing")
    /\ overran' = IF Alive(p) THEN overran \cup {p} ELSE overran
    /\ UNCHANGED <<lock, clients, job, sport, charged, ledger, drops>>

\* Arcadia, scheduler-owned and shared HTTP clients, then Redis.
CloseClients(p) ==
    /\ Turn(p, "closing", "closed")
    /\ clients' = [clients EXCEPT ![p] = FALSE]
    /\ UNCHANGED <<lock, job, sport, charged, ledger, drops, overran>>

\* Fault: the lock is released before the scheduler has stopped.
ReleaseEarly(p) ==
    /\ \/ Turn(p, "closed", "exiting")
       \/ phase[p] = "grace" /\ UNCHANGED phase
    /\ lock' = IF lock = p THEN Nobody ELSE lock
    /\ UNCHANGED <<clients, job, sport, charged, ledger, drops, overran>>

\* _release_single_instance_lock: a lock that was lost is an error that is logged
\* while the cleanup goes on.
Release(p) ==
    /\ Turn(p, "closed", "exiting")
    /\ lock' = IF lock = p THEN Nobody ELSE lock
    /\ UNCHANGED <<clients, job, sport, charged, ledger, drops, overran>>

Gone(p) ==
    /\ job' = [job EXCEPT ![p] = "idle"]
    /\ sport' = [sport EXCEPT ![p] = 0]
    /\ ledger' = [ledger EXCEPT ![p] = 0]
    /\ clients' = [clients EXCEPT ![p] = FALSE]
    /\ UNCHANGED charged

\* engine.dispose, and the event loop's end takes every job with it.
Exit(p) ==
    /\ Turn(p, "exiting", "off") /\ Gone(p)
    /\ UNCHANGED <<lock, drops, overran>>

\* The process is killed; the server frees the lock with the connection.
Crash(p) ==
    /\ phase[p] # "off" /\ phase' = [phase EXCEPT ![p] = "off"]
    /\ Gone(p)
    /\ lock' = IF lock = p THEN Nobody ELSE lock
    /\ UNCHANGED <<drops, overran>>

\* The dedicated connection is lost and with it the session's lock: nothing in the
\* process watches it.
LockConnectionLost(p) ==
    /\ lock = p /\ Cardinality(drops) < MaxDrops
    /\ lock' = Nobody /\ drops' = drops \cup {p}
    /\ UNCHANGED <<phase, clients, job, sport, charged, ledger, overran>>

Next ==
    /\ UNCHANGED watchdog
    /\ \E p \in Procs :
        \/ Acquire(p) \/ Serve(p) \/ StartupFails(p)
        \/ Submit(p) \/ Hang(p) \/ Unwound(p)
        \/ SportDone(p) \/ WatchdogFires(p) \/ Charge(p)
        \/ Stop(p) \/ EndGrace(p) \/ EndDrain(p) \/ CloseClients(p) \/ Release(p)
        \/ Exit(p) \/ Crash(p) \/ LockConnectionLost(p)

----------------------------------------------------------------------------
(* Properties.                                                             *)

\* Two processes seed, schedule or unwind at the same time only if one of them lost its
\* lock connection: the lock outlives everything that relies on being alone.
OneInstanceUnlessLockLost ==
    \A p, q \in Procs :
        p # q /\ phase[p] \notin {"off", "exiting"} /\ phase[q] \notin {"off", "exiting"}
            => {p, q} \cap drops # {}

\* The in-memory ledger of a scheduling process accounts for every charge in the
\* database, whichever process made it: seeding happens after the predecessor's
\* last commit.  A lost lock connection and a job that outlives the drain void it.
LedgerInStep ==
    \A p \in Procs :
        phase[p] \in {"serving", "grace", "draining"} /\ drops = {} /\ overran = {}
            => ledger[p] = charged

\* The HTTP and Redis clients of a job are only closed under one that was cancelled and
\* has overrun the drain.
ClientsOutliveJobs ==
    \A p \in Procs : Alive(p) /\ ~clients[p] => job[p] = "cancelled" /\ p \in overran

\* What a scheduling process relies on lasts as long as it schedules: it is alone, its
\* ledger is in step with the database, and its jobs have their clients, whatever
\* deployments overlap and wherever one is killed.
OneEquippedScheduler ==
    OneInstanceUnlessLockLost /\ LedgerInStep /\ ClientsOutliveJobs

\* Timers fire and the scheduler's loop runs.
Fairness ==
    \A p \in Procs :
        /\ WF_vars(Submit(p) /\ UNCHANGED watchdog)
        /\ WF_vars(WatchdogFires(p) /\ UNCHANGED watchdog)

\* With the watchdog, a fetch that never returns does not starve the sports behind it:
\* a process that goes on serving comes to every sport again and again.
EverySportIsReached ==
    \A p \in Procs, s \in 1 .. Sports :
        ~ <>[](watchdog /\ phase[p] = "serving" /\ sport[p] # s)

Spec == Init /\ [][Next]_vars /\ Fairness
=============================================================================
