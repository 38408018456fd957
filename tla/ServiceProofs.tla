---------------------------- MODULE ServiceProofs ----------------------------
(***************************************************************************)
(* Theorems about the components that keep the service running: the life   *)
(* of a process, its self-audit, the health endpoint and the sessions of   *)
(* its scraper.  They hold for every value of the constants the platform's *)
(* assumptions allow, of the platform's specification.                     *)
(***************************************************************************)
EXTENDS MCPlatform, FiniteSetTheorems, TLAPS

----------------------------------------------------------------------------
(* One component moves at a time; the others stand still.                  *)

LEMMA LifeSteps == [Next]_vars => Life!Next \/ UNCHANGED processVars
  BY DEF Next, Only, vars

----------------------------------------------------------------------------
(* Lifecycle: what a scheduling process relies on lasts as it schedules.   *)

\* A process between startup and exit holds the lock or has lost its connection; a job runs
\* only under a scheduler, and one that still unwinds after it is known to have overrun.
ProcessSound(p) ==
    /\ phase[p] \notin {"off", "exiting"} => lock = p \/ p \in drops
    /\ phase[p] \in {"off", "seeding"} => job[p] = "idle"
    /\ job[p] \in {"running", "hung"} => phase[p] \in {"serving", "grace"}
    /\ phase[p] \in {"closing", "closed", "exiting"} /\ Life!Alive(p)
         => job[p] = "cancelled" /\ p \in overran
    /\ phase[p] \in {"serving", "grace", "draining"} => clients[p]

LifeInv ==
    /\ Life!TypeOK /\ Life!LedgerInStep
    /\ \A p \in Procs : ProcessSound(p)

LEMMA LifeConstants == Nobody \notin Procs /\ Sports \in Nat \ {0} /\ MaxCharge \in Nat
  BY PlatformAssumption DEF Life!LifecycleAssumption

LEMMA LifeInitInv == Life!Init => LifeInv
  BY LifeConstants DEF Life!Init, LifeInv, Life!TypeOK, Life!Phases, Life!LedgerInStep,
     ProcessSound, Life!Alive

\* A charge is committed by the one process that schedules, unless a lock was lost or a job
\* overran the drain.
LEMMA ChargerIsAlone ==
    ASSUME LifeInv, NEW p \in Procs, job[p] \in {"running", "cancelled"}, drops = {},
           overran = {}
    PROVE  /\ phase[p] \in {"serving", "grace", "draining"}
           /\ \A q \in Procs : phase[q] \in {"serving", "grace", "draining"} => q = p
  <1>1. phase[p] \in {"serving", "grace", "draining"}
    BY DEF LifeInv, ProcessSound, Life!Alive, Life!TypeOK, Life!Phases
  <1> QED
    BY <1>1 DEF LifeInv, ProcessSound

\* Each step of startup, of the jobs and of shutdown.
LEMMA LifeNextInv ==
    ASSUME LifeInv, Life!Next PROVE LifeInv'
  <1> PICK p \in Procs :
        \/ Life!Acquire(p) \/ Life!Serve(p) \/ Life!StartupFails(p)
        \/ Life!Submit(p) \/ Life!Hang(p) \/ Life!Unwound(p)
        \/ Life!SportDone(p) \/ Life!WatchdogFires(p) \/ Life!Charge(p)
        \/ Life!Stop(p) \/ Life!EndGrace(p) \/ Life!EndDrain(p) \/ Life!CloseClients(p)
        \/ Life!Release(p) \/ Life!Exit(p) \/ Life!Crash(p) \/ Life!LockConnectionLost(p)
    BY DEF Life!Next
  <1>0. watchdog' = watchdog
    BY DEF Life!Next
  <1> USE LifeConstants, <1>0
  <1>1. CASE Life!Acquire(p)
    BY <1>1 DEF Life!Acquire, Life!Turn, LifeInv, Life!TypeOK, Life!Phases,
       Life!LedgerInStep, ProcessSound, Life!Alive
  <1>2. CASE Life!Serve(p)
    BY <1>2 DEF Life!Serve, Life!Turn, LifeInv, Life!TypeOK, Life!Phases,
       Life!LedgerInStep, ProcessSound, Life!Alive
  <1>3. CASE Life!StartupFails(p)
    BY <1>3 DEF Life!StartupFails, Life!Turn, LifeInv, Life!TypeOK, Life!Phases,
       Life!LedgerInStep, ProcessSound, Life!Alive
  <1>4. CASE Life!Submit(p)
    BY <1>4 DEF Life!Submit, Life!SetJob, LifeInv, Life!TypeOK, Life!Phases,
       Life!LedgerInStep, ProcessSound, Life!Alive
  <1>5. CASE Life!Hang(p)
    BY <1>5 DEF Life!Hang, Life!SetJob, LifeInv, Life!TypeOK, Life!Phases,
       Life!LedgerInStep, ProcessSound, Life!Alive
  <1>6. CASE Life!Unwound(p)
    BY <1>6 DEF Life!Unwound, Life!SetJob, LifeInv, Life!TypeOK, Life!Phases,
       Life!LedgerInStep, ProcessSound, Life!Alive
  <1>7. CASE Life!SportDone(p) \/ Life!WatchdogFires(p)
    <2>1. /\ job[p] \in {"running", "hung"}
          /\ \E s \in {"running", "idle"} : job' = [job EXCEPT ![p] = s]
          /\ sport' \in [Procs -> 0 .. Sports]
          /\ UNCHANGED <<phase, lock, clients, charged, ledger, drops, overran>>
      BY <1>7 DEF Life!SportDone, Life!WatchdogFires, Life!NextSport, Life!SetJob,
         LifeInv, Life!TypeOK
    <2>2. PICK s \in {"running", "idle"} : job' = [job EXCEPT ![p] = s]
      BY <2>1
    <2>3. Life!TypeOK'
      BY <2>1, <2>2 DEF LifeInv, Life!TypeOK
    <2>4. Life!LedgerInStep'
      BY <2>1 DEF LifeInv, Life!LedgerInStep
    <2>5. \A q \in Procs : ProcessSound(q)'
      BY <2>1, <2>2 DEF LifeInv, Life!TypeOK, ProcessSound, Life!Alive
    <2> QED
      BY <2>3, <2>4, <2>5 DEF LifeInv
  <1>8. CASE Life!Charge(p)
    <2>1. Life!TypeOK'
      BY <1>8 DEF Life!Charge, LifeInv, Life!TypeOK
    <2>2. \A q \in Procs : ProcessSound(q)'
      BY <1>8 DEF Life!Charge, LifeInv, ProcessSound, Life!Alive
    <2>3. Life!LedgerInStep'
      BY <1>8, ChargerIsAlone DEF Life!Charge, LifeInv, Life!LedgerInStep, Life!TypeOK
    <2> QED
      BY <2>1, <2>2, <2>3 DEF LifeInv
  <1>9. CASE Life!Stop(p)
    BY <1>9 DEF Life!Stop, Life!Turn, LifeInv, Life!TypeOK, Life!Phases,
       Life!LedgerInStep, ProcessSound, Life!Alive
  <1>10. CASE Life!EndGrace(p)
    BY <1>10 DEF Life!EndGrace, Life!Turn, LifeInv, Life!TypeOK, Life!Phases,
       Life!LedgerInStep, ProcessSound, Life!Alive
  <1>11. CASE Life!EndDrain(p)
    BY <1>11 DEF Life!EndDrain, Life!Turn, LifeInv, Life!TypeOK, Life!Phases,
       Life!LedgerInStep, ProcessSound, Life!Alive
  <1>12. CASE Life!CloseClients(p)
    BY <1>12 DEF Life!CloseClients, Life!Turn, LifeInv, Life!TypeOK, Life!Phases,
       Life!LedgerInStep, ProcessSound, Life!Alive
  <1>13. CASE Life!Release(p)
    BY <1>13 DEF Life!Release, Life!Turn, LifeInv, Life!TypeOK, Life!Phases,
       Life!LedgerInStep, ProcessSound, Life!Alive
  <1>14. CASE Life!Exit(p)
    BY <1>14 DEF Life!Exit, Life!Gone, Life!Turn, LifeInv, Life!TypeOK, Life!Phases,
       Life!LedgerInStep, ProcessSound, Life!Alive
  <1>15. CASE Life!Crash(p)
    BY <1>15 DEF Life!Crash, Life!Gone, LifeInv, Life!TypeOK, Life!Phases,
       Life!LedgerInStep, ProcessSound, Life!Alive
  <1>16. CASE Life!LockConnectionLost(p)
    BY <1>16 DEF Life!LockConnectionLost, LifeInv, Life!TypeOK, Life!Phases,
       Life!LedgerInStep, ProcessSound, Life!Alive
  <1> QED
    BY <1>1, <1>2, <1>3, <1>4, <1>5, <1>6, <1>7, <1>8, <1>9, <1>10, <1>11, <1>12, <1>13,
       <1>14, <1>15, <1>16

LEMMA LifeStutters == LifeInv /\ UNCHANGED processVars => LifeInv'
  BY DEF processVars, LifeInv, Life!TypeOK, Life!LedgerInStep, ProcessSound, Life!Alive

LEMMA LifeInvariant == Spec => []LifeInv
  <1>1. Init => LifeInv
    BY LifeInitInv DEF Init
  <1>2. LifeInv /\ [Next]_vars => LifeInv'
    BY LifeSteps, LifeNextInv, LifeStutters
  <1> QED
    BY <1>1, <1>2, PTL DEF Spec

\* lifespan and the advisory lock: however deployments overlap and wherever a process is
\* killed, only a lost lock connection lets two of them schedule, the ledger of the one that
\* does accounts for every charge, and no job outlives its clients before the drain's end.
THEOREM One_EquippedScheduler == Spec => []OneEquippedScheduler
  <1>1. LifeInv => OneEquippedScheduler
    BY DEF LifeInv, OneEquippedScheduler, Life!OneEquippedScheduler,
       Life!OneInstanceUnlessLockLost, Life!ClientsOutliveJobs, ProcessSound, Life!Alive,
       Life!TypeOK, Life!Phases
  <1> QED
    BY LifeInvariant, <1>1, PTL

----------------------------------------------------------------------------
(* SelfAudit: nothing is said twice of one episode.                        *)

LEMMA AuditSteps == [Next]_vars => Self!AuditNext \/ UNCHANGED auditVars
  BY DEF Next, Only, vars

AuditTyped ==
    /\ active \subseteq Self!Anomalies /\ pending \subseteq Self!Anomalies \cup {DeadMan}
    /\ empties \in 0 .. EmptyAudits
    /\ hush \in [Games -> 0 .. Day] /\ age \in [Games -> 0 .. Day]

\* What was said of an anomaly is among the active ones, and an outage that was said has its
\* flag; a pick is silenced for exactly as long as its episode may still go on, and one that
\* was said and is still in the sample is active.
AuditInv ==
    /\ AuditTyped /\ Self!NothingToldTwice
    /\ told \cap Codes \subseteq active
    /\ DeadMan \in told => deadTold
    /\ \A g \in told \cap Games :
         /\ hush[g] = Day - age[g]
         /\ g \in seen => g \in active

LEMMA AuditConstants ==
    /\ Codes \cap Games = {} /\ DeadMan \notin Codes \cup Games
    /\ EmptyAudits \in Nat \ {0} /\ Day \in Nat
  BY PlatformAssumption DEF Self!AuditAssumption

LEMMA AuditInitInv == Self!AuditInit => AuditInv
  BY AuditConstants DEF Self!AuditInit, AuditInv, AuditTyped, Self!NothingToldTwice

\* An audit forgets what is over, and says nothing of what is not.
LEMMA AuditStepInv ==
    ASSUME AuditInv, NEW found \in SUBSET Self!Anomalies, NEW fresh \in BOOLEAN,
           Self!Audit(found, fresh)
    PROVE  AuditInv'
  <1> USE AuditConstants
  <1> DEFINE streak == IF fresh THEN 0 ELSE Self!UpTo(empties, EmptyAudits)
             fires == streak = EmptyAudits /\ ~deadTold
             hushed == { g \in (found \ active) \cap Games : hush'[g] > 0 }
             older == [g \in Games |-> Self!UpTo(age[g], Day)]
             judged == found \cup (IF streak = EmptyAudits THEN {DeadMan} ELSE {})
  <1>t. AuditTyped
    BY DEF AuditInv
  <1>1. /\ empties' = streak /\ deadTold' = (deadTold /\ ~fresh)
        /\ hush' = [g \in Games |-> Self!Down(hush[g])]
        /\ active' = (found \cap active) \cup hushed
        /\ pending' = ((found \ active) \ hushed) \cup (IF fires THEN {DeadMan} ELSE {})
        /\ age' = older /\ seen' = judged /\ told' = told \ Self!Ended(judged, older)
        /\ pending = {} /\ UNCHANGED <<restarts, undelivered>>
    BY DEF Self!Audit, Self!History
  <1>2. streak \in 0 .. EmptyAudits /\ (fresh => streak # EmptyAudits)
    BY <1>t DEF AuditTyped, Self!UpTo
  <1>3. \A g \in Games : /\ age[g] \in 0 .. Day /\ hush[g] \in 0 .. Day
                         /\ older[g] \in 0 .. Day /\ hush'[g] \in 0 .. Day
                         /\ hush[g] = Day - age[g] => hush'[g] = Day - older[g]
    BY <1>t, <1>1 DEF AuditTyped, Self!UpTo, Self!Down
  <1> HIDE DEF streak, older
  <1>4. AuditTyped'
    <2>1. active' \subseteq Self!Anomalies /\ pending' \subseteq Self!Anomalies \cup {DeadMan}
      BY <1>1 DEF Self!Anomalies
    <2>2. hush' \in [Games -> 0 .. Day] /\ age' \in [Games -> 0 .. Day]
      BY <1>1, <1>3 DEF older
    <2> QED
      BY <1>1, <1>2, <2>1, <2>2 DEF AuditTyped
  <1>5. told' \cap Codes \subseteq active'
    BY <1>1 DEF AuditInv, Self!Ended
  <1>6. DeadMan \in told' => deadTold'
    BY <1>1, <1>2 DEF AuditInv, Self!Ended, Self!Anomalies
  <1>7. ASSUME NEW g \in told' \cap Games
        PROVE  /\ hush'[g] = Day - age'[g]
               /\ g \in seen' => g \in active'
    <2>1. /\ g \in told /\ hush[g] = Day - age[g] /\ (g \in seen => g \in active)
          /\ older[g] = Day => g \in judged /\ g \in seen
      BY <1>1, <1>7 DEF AuditInv, Self!Ended
    <2>2. hush'[g] = Day - older[g] /\ older[g] \in 0 .. Day
      BY <1>3, <2>1
    <2>3. ASSUME g \in judged PROVE g \in active'
      <3>1. g \in found
        BY <2>3
      <3>2. CASE older[g] = Day
        BY <1>1, <2>1, <3>1, <3>2
      <3>3. CASE older[g] # Day
        BY <1>1, <2>2, <3>1, <3>3
      <3> QED
        BY <3>2, <3>3
    <2> QED
      BY <1>1, <2>2, <2>3
  <1>8. pending' \cap told' = {}
    <2> SUFFICES ASSUME NEW k \in pending', k \in told' PROVE FALSE
      OBVIOUS
    <2>1. CASE k = DeadMan
      <3>1. fires
        BY <1>1, <2>1 DEF Self!Anomalies
      <3> QED
        BY <1>1, <1>6, <2>1, <3>1
    <2>2. CASE k \in Codes
      BY <1>1, <1>5, <2>2 DEF AuditInv
    <2>3. CASE k \in Games
      <3>1. k \in active' /\ k \in found /\ k \notin active /\ k \notin hushed
        BY <1>1, <1>7, <2>3
      <3> QED
        BY <1>1, <3>1
    <2> QED
      BY <1>1, <2>1, <2>2, <2>3 DEF Self!Anomalies
  <1> QED
    BY <1>4, <1>5, <1>6, <1>7, <1>8 DEF AuditInv, Self!NothingToldTwice

\* A dispatch, confirmed or not, and a restart.
LEMMA AuditNextInv ==
    ASSUME AuditInv, Self!AuditNext PROVE AuditInv'
  <1> USE AuditConstants
  <1>1. CASE Self!AuditRestart
    BY <1>1 DEF Self!AuditRestart, AuditInv, AuditTyped, Self!NothingToldTwice
  <1>2. ASSUME NEW k \in pending, Self!Undelivered(k) PROVE AuditInv'
    BY <1>2 DEF Self!Undelivered, AuditInv, AuditTyped, Self!NothingToldTwice
  <1>3. ASSUME NEW k \in pending, Self!Confirm(k) PROVE AuditInv'
    <2>1. AuditTyped /\ k \in Self!Anomalies \cup {DeadMan} /\ k \notin told
      BY DEF AuditInv, AuditTyped, Self!NothingToldTwice
    <2>2. AuditTyped'
      BY <1>3, <2>1 DEF Self!Confirm, AuditTyped, Self!Anomalies
    <2>3. Self!NothingToldTwice'
      BY <1>3 DEF Self!Confirm, AuditInv, Self!NothingToldTwice
    <2>4. /\ told' \cap Codes \subseteq active'
          /\ DeadMan \in told' => deadTold'
      BY <1>3 DEF Self!Confirm, AuditInv
    <2>5. \A g \in told' \cap Games : hush'[g] = Day - age'[g] /\ (g \in seen' => g \in active')
      BY <1>3 DEF Self!Confirm, AuditInv
    <2> QED
      BY <2>2, <2>3, <2>4, <2>5 DEF AuditInv
  <1> QED
    BY <1>1, <1>2, <1>3, AuditStepInv DEF Self!AuditNext

LEMMA AuditStutters == AuditInv /\ UNCHANGED auditVars => AuditInv'
  BY DEF auditVars, AuditInv, AuditTyped, Self!NothingToldTwice

LEMMA AuditInvariant == Spec => []AuditInv
  <1>1. Init => AuditInv
    BY AuditInitInv DEF Init
  <1>2. AuditInv /\ [Next]_vars => AuditInv'
    BY AuditSteps, AuditNextInv, AuditStutters
  <1> QED
    BY <1>1, <1>2, PTL DEF Spec

\* self_audit_job: no alert waits for dispatch that was confirmed in the same episode, for
\* any anomalies, whatever flaps, fails to go out or restarts.
THEOREM Nothing_ToldTwice == Spec => []NothingToldTwice
  <1>1. AuditInv => NothingToldTwice
    BY DEF AuditInv, NothingToldTwice
  <1> QED
    BY AuditInvariant, <1>1, PTL

----------------------------------------------------------------------------
(* PollHealth: the endpoint is honest about the engine.                    *)

LEMMA PollSteps == [Next]_vars => Polls!PollNext \/ UNCHANGED healthVars
  BY DEF Next, Only, vars

\* n cycles, each at its budget.
Turns(n) == n * Budget

Records == [state : {"in_progress", "completed", "failed"}, degraded : BOOLEAN,
            run : 0 .. RunThreshold, finished : Polls!Never .. Polls!Ceiling + 1]

PollTyped ==
    /\ turn \in 0 .. SportCount /\ elapsed \in 0 .. Polls!Ceiling + 1
    /\ sinceSlot \in 0 .. Interval - 1
    /\ failures \in [Polls!Fleet -> 0 .. RunThreshold]
    /\ lastPoll \in [Polls!Fleet -> Records \cup {Polls!Unpolled}]
    /\ withheld = [s \in Polls!Fleet |-> withheld[s]]

\* How long ago a sport's last cycle can have ended, with a watchdog: the turns of the
\* sports after it, the wait for the next slot, the turns of the sports before it and what
\* has passed of the running one.
BoundAt(run, wait, passed, s) ==
    IF run = 0 THEN Turns(SportCount - s) + wait
    ELSE IF s < run THEN Turns(run - 1 - s) + passed
    ELSE Turns(SportCount - s) + Interval + Turns(run - 1) + passed

Waited == IF due THEN Interval ELSE sinceSlot

Bound(s) == BoundAt(turn, Waited, elapsed, s)

\* What the record of a sport tells of its last cycle.
RecordSound(s) ==
    /\ failures[s] > 0 \/ withheld[s] => lastPoll[s] \in Records /\ lastPoll[s].degraded
    /\ failures[s] > 0 =>
         /\ lastPoll[s].run >= failures[s]
         /\ turn # s => lastPoll[s].state = "failed"
    /\ lastPoll[s] \in Records =>
         /\ lastPoll[s].state = "in_progress" <=> turn = s
         /\ turn # s => lastPoll[s].finished # Polls!Never /\ lastPoll[s].finished >= elapsed
         /\ guarded /\ turn # s => lastPoll[s].finished <= Bound(s)
    /\ turn = s => lastPoll[s] \in Records

PollInv ==
    /\ PollTyped
    /\ turn = 0 => elapsed = 0
    /\ due => sinceSlot = 0
    /\ guarded => elapsed <= Budget
    /\ \A s \in Polls!Fleet : RecordSound(s)

LEMMA PollConstants ==
    /\ SportCount \in Nat \ {0} /\ Interval \in Nat \ {0} /\ Budget \in Nat \ {0}
    /\ Patience \in Nat \ {0} /\ RunThreshold \in Nat \ {0} /\ Polls!Never = -1
  BY PlatformAssumption DEF Polls!PollAssumption, Polls!Never

\* One more turn takes one budget more.
LEMMA TurnsAdd ==
    /\ Turns(0) = 0
    /\ \A n \in Nat : Turns(n) \in Nat /\ Turns(n + 1) = Turns(n) + Budget
    /\ \A m, n \in Nat : Turns(m + n) = Turns(m) + Turns(n)
    /\ \A m, n \in Nat : m <= n => Turns(m) <= Turns(n)
  <1> USE PollConstants DEF Turns
  <1>1. \A n \in Nat : Turns(n) \in Nat
    OBVIOUS
  <1>2. \A m, n \in Nat : Turns(m + n) = Turns(m) + Turns(n)
    OBVIOUS
  <1>3. \A m, n \in Nat : m <= n => Turns(m) <= Turns(n)
    <2> SUFFICES ASSUME NEW m \in Nat, NEW n \in Nat, m <= n PROVE Turns(m) <= Turns(n)
      OBVIOUS
    <2>1. n = m + (n - m) /\ n - m \in Nat
      OBVIOUS
    <2>2. Turns(n) = Turns(m) + Turns(n - m)
      BY <1>2, <2>1
    <2> HIDE DEF Turns
    <2> QED
      BY <1>1, <2>1, <2>2
  <1>4. Turns(1) = Budget /\ Turns(0) = 0
    OBVIOUS
  <1> HIDE DEF Turns
  <1> QED
    BY <1>1, <1>2, <1>3, <1>4

\* The ceiling covers a full sweep, a single turn included.
LEMMA CeilingBound ==
    Polls!Ceiling \in Nat /\ Polls!Ceiling >= Turns(SportCount) /\ Turns(SportCount) >= Budget
  <1>1. SportCount * Budget \in Nat /\ Patience * Interval \in Nat
    BY PollConstants
  <1>2. Polls!Ceiling \in Nat /\ Polls!Ceiling >= Turns(SportCount)
    BY <1>1 DEF Polls!Ceiling, Turns
  <1>3. Turns(SportCount) >= Turns(1) /\ Turns(1) = Budget
    BY PollConstants, TurnsAdd DEF Turns
  <1> QED
    BY <1>2, <1>3

LEMMA BoundIsNat ==
    ASSUME NEW run \in 0 .. SportCount, NEW wait \in Nat, NEW passed \in Nat,
           NEW s \in Polls!Fleet, run # s
    PROVE  BoundAt(run, wait, passed, s) \in Nat
  <1> USE PollConstants
  <1>1. s \in 1 .. SportCount
    BY DEF Polls!Fleet
  <1>2. /\ SportCount - s \in Nat
        /\ run # 0 => run - 1 \in Nat
        /\ run # 0 /\ s < run => run - 1 - s \in Nat
    BY <1>1
  <1>3. /\ Turns(SportCount - s) \in Nat
        /\ run # 0 => Turns(run - 1) \in Nat
        /\ run # 0 /\ s < run => Turns(run - 1 - s) \in Nat
    BY <1>2, TurnsAdd
  <1> QED
    BY <1>1, <1>3 DEF BoundAt

\* A sport that waits its turn finished its last cycle within the ceiling, if an interval is
\* no longer than a budget.
LEMMA BoundFits ==
    ASSUME NEW run \in 0 .. SportCount, NEW wait \in Nat, NEW passed \in Nat,
           wait <= Interval, passed <= Budget, Interval <= Budget,
           NEW s \in Polls!Fleet, run # s
    PROVE  BoundAt(run, wait, passed, s) <= Polls!Ceiling
  <1> USE PollConstants
  <1>1. s \in 1 .. SportCount
    BY DEF Polls!Fleet
  <1>2. \A n \in Nat : n <= SportCount => Turns(n) <= Polls!Ceiling
    BY TurnsAdd, CeilingBound
  <1> DEFINE after == SportCount - s
             before == run - 1
             between == run - 1 - s
  <1>3. after \in Nat /\ after + 1 <= SportCount
    BY <1>1
  <1>4. CASE run = 0
    <2>2. BoundAt(run, wait, passed, s) = Turns(after) + wait
      BY <1>4 DEF BoundAt
    <2> HIDE DEF after
    <2>3. Turns(after) \in Nat /\ Turns(after + 1) = Turns(after) + Budget
      BY <1>3, TurnsAdd
    <2>4. Turns(after + 1) <= Polls!Ceiling
      BY <1>2, <1>3
    <2> QED
      BY <2>2, <2>3, <2>4, CeilingBound
  <1>5. CASE run # 0 /\ s < run
    <2>1. /\ between \in Nat /\ between + 1 <= SportCount
          /\ BoundAt(run, wait, passed, s) = Turns(between) + passed
      BY <1>1, <1>5 DEF BoundAt
    <2> HIDE DEF between
    <2>2. Turns(between) \in Nat /\ Turns(between) + Budget <= Polls!Ceiling
      BY <1>2, <2>1, TurnsAdd
    <2> QED
      BY <1>1, <2>1, <2>2, CeilingBound
  <1>6. CASE run # 0 /\ s > run
    <2>1. /\ before \in Nat /\ after + before + 2 <= SportCount
          /\ BoundAt(run, wait, passed, s)
               = Turns(after) + Interval + Turns(before) + passed
      BY <1>1, <1>6 DEF BoundAt
    <2> HIDE DEF before, after
    <2>2. /\ Turns(after) \in Nat /\ Turns(before) \in Nat
          /\ Turns(after + before) = Turns(after) + Turns(before)
      BY <1>3, <2>1, TurnsAdd
    <2>3. /\ after + before \in Nat /\ (after + before) + 1 \in Nat
          /\ (after + before) + 2 = ((after + before) + 1) + 1
      BY <1>3, <2>1
    <2>4. /\ Turns((after + before) + 1) = Turns(after + before) + Budget
          /\ Turns(((after + before) + 1) + 1) = Turns((after + before) + 1) + Budget
      BY <2>3, TurnsAdd
    <2>5. Turns(((after + before) + 1) + 1) <= Polls!Ceiling
      BY <1>2, <1>3, <2>1, <2>3
    <2> QED
      BY <1>1, <2>1, <2>2, <2>4, <2>5, CeilingBound
  <1> QED
    BY <1>1, <1>4, <1>5, <1>6

\* When the turn passes on, the bound of a sport that waits only gets longer.
LEMMA BoundPasses ==
    ASSUME NEW run \in 1 .. SportCount, NEW passed \in Nat, passed <= Budget,
           NEW wait \in Nat, NEW waiting \in Nat, NEW next,
           next = IF run < SportCount THEN run + 1 ELSE 0,
           NEW s \in Polls!Fleet, run # s, next # s
    PROVE  BoundAt(run, wait, passed, s) <= BoundAt(next, waiting, 0, s)
  <1> USE PollConstants
  <1>1. s \in 1 .. SportCount
    BY DEF Polls!Fleet
  <1> DEFINE after == SportCount - s
             before == run - 1
             between == run - 1 - s
  <1>2. after \in Nat /\ before \in Nat
    BY <1>1
  <1>3. CASE run < s
    <2>1. /\ next = run + 1 /\ next < s /\ next - 1 = before + 1
          /\ BoundAt(run, wait, passed, s)
               = Turns(after) + Interval + Turns(before) + passed
          /\ BoundAt(next, waiting, 0, s)
               = Turns(after) + Interval + Turns(next - 1) + 0
      BY <1>1, <1>3 DEF BoundAt
    <2> HIDE DEF before, after
    <2>2. /\ Turns(after) \in Nat /\ Turns(before) \in Nat
          /\ Turns(next - 1) = Turns(before) + Budget
      BY <1>2, <2>1, TurnsAdd
    <2> QED
      BY <2>1, <2>2
  <1>4. CASE s < run
    <2>1. between \in Nat /\ BoundAt(run, wait, passed, s) = Turns(between) + passed
      BY <1>1, <1>4 DEF BoundAt
    <2>2. \/ next # 0 /\ s < next /\ next - 1 - s = between + 1
          \/ next = 0 /\ after = between + 1
      BY <1>1, <1>4
    <2>3. \/ BoundAt(next, waiting, 0, s) = Turns(between + 1) + 0
          \/ BoundAt(next, waiting, 0, s) = Turns(between + 1) + waiting
      BY <2>2 DEF BoundAt
    <2> HIDE DEF between
    <2>4. Turns(between) \in Nat /\ Turns(between + 1) = Turns(between) + Budget
      BY <2>1, TurnsAdd
    <2> QED
      BY <2>1, <2>3, <2>4
  <1> QED
    BY <1>1, <1>3, <1>4

\* As time passes, it grows by what has passed.
LEMMA BoundGrows ==
    ASSUME NEW run \in 0 .. SportCount, NEW passed \in Nat, NEW wait \in Nat,
           NEW waiting \in Nat, NEW s \in Polls!Fleet, run # s
    PROVE  /\ run = 0 => BoundAt(run, wait + 1, waiting, s)
                           = BoundAt(run, wait, passed, s) + 1
           /\ run # 0 => BoundAt(run, waiting, passed + 1, s)
                           = BoundAt(run, wait, passed, s) + 1
  <1> USE PollConstants
  <1>1. s \in 1 .. SportCount
    BY DEF Polls!Fleet
  <1>2. /\ SportCount - s \in Nat
        /\ run # 0 => run - 1 \in Nat
        /\ run # 0 /\ s < run => run - 1 - s \in Nat
    BY <1>1
  <1>3. /\ Turns(SportCount - s) \in Nat
        /\ run # 0 => Turns(run - 1) \in Nat
        /\ run # 0 /\ s < run => Turns(run - 1 - s) \in Nat
    BY <1>2, TurnsAdd
  <1> QED
    BY <1>1, <1>3 DEF BoundAt

\* A sweep begins at its slot.
LEMMA BoundBegins ==
    ASSUME NEW passed \in Nat, NEW wait \in Nat, NEW s \in Polls!Fleet, s # 1
    PROVE  BoundAt(0, Interval, passed, s) = BoundAt(1, wait, 0, s)
  <1> USE PollConstants
  <1>1. s \in 1 .. SportCount /\ SportCount - s \in Nat /\ ~(s < 1)
    BY DEF Polls!Fleet
  <1>2. Turns(SportCount - s) \in Nat /\ Turns(0) = 0
    BY <1>1, TurnsAdd
  <1>3. BoundAt(1, wait, 0, s) = Turns(SportCount - s) + Interval + Turns(0) + 0
    BY <1>1 DEF BoundAt
  <1>4. BoundAt(0, Interval, passed, s) = Turns(SportCount - s) + Interval
    BY DEF BoundAt
  <1> QED
    BY <1>2, <1>3, <1>4

LEMMA WaitedIsNat ==
    ASSUME sinceSlot \in 0 .. Interval - 1 PROVE Waited \in Nat /\ Waited <= Interval
  BY PollConstants DEF Waited

LEMMA BoundPrimed ==
    ASSUME NEW s PROVE Bound(s)' = BoundAt(turn', Waited', elapsed', s)
  BY DEF Bound, BoundAt, Turns, Waited

\* The endpoint says what the records say.
LEMMA HonestRecords == PollInv => HealthIsHonest
  <1> SUFFICES ASSUME PollInv PROVE Polls!HealthIsHonest
    BY DEF HealthIsHonest
  <1> USE PollConstants
  <1>r. \A s \in Polls!Fleet : /\ lastPoll[s] \in Records <=> s \in Polls!Polled
                               /\ RecordSound(s)
    BY DEF PollInv, PollTyped, Polls!Polled, Polls!Unpolled, Records
  <1>f. \A s \in Polls!Polled :
          /\ s \in Polls!Fleet /\ lastPoll[s].degraded \in BOOLEAN
          /\ lastPoll[s].run \in 0 .. RunThreshold /\ lastPoll[s].finished \in Int
          /\ lastPoll[s].state \in {"in_progress", "completed", "failed"}
    BY <1>r, CeilingBound DEF Records, Polls!Polled
  <1>c. Polls!Ceiling \in Nat /\ Polls!Ceiling >= Budget /\ elapsed \in Nat
    <2>1. Turns(SportCount) \in Nat
      BY TurnsAdd
    <2>2. elapsed \in 0 .. Polls!Ceiling + 1
      BY DEF PollInv, PollTyped
    <2> QED
      BY <2>1, <2>2, CeilingBound
  <1>1. ASSUME guarded, Interval <= Budget, \A s \in Polls!Polled : ~lastPoll[s].degraded
        PROVE  Polls!Status = "ok"
    <2>1. ASSUME NEW s \in Polls!Polled PROVE Polls!Reason(s) = ""
      <3>1. CASE lastPoll[s].state = "in_progress"
        BY <1>1, <1>c, <2>1, <3>1 DEF Polls!Reason, PollInv
      <3>2. CASE lastPoll[s].state # "in_progress"
        <4>1. turn # s /\ lastPoll[s].finished <= Bound(s)
          BY <1>1, <1>r, <1>f, <2>1, <3>2 DEF RecordSound
        <4>2. /\ s \in Polls!Fleet /\ turn \in 0 .. SportCount /\ elapsed <= Budget
              /\ Waited \in Nat /\ Waited <= Interval
          BY <1>1, <1>f, <2>1, WaitedIsNat DEF PollInv, PollTyped
        <4>3. Bound(s) \in Nat /\ Bound(s) <= Polls!Ceiling
          BY <1>1, <1>c, <4>1, <4>2, BoundIsNat, BoundFits DEF Bound
        <4>4. lastPoll[s].finished <= Polls!Ceiling
          BY <1>c, <1>f, <2>1, <4>1, <4>3
        <4> QED
          BY <1>1, <1>c, <1>f, <2>1, <3>2, <4>4 DEF Polls!Reason
      <3> QED
        BY <3>1, <3>2
    <2>2. Polls!Impaired = {}
      BY <2>1 DEF Polls!Impaired
    <2> QED
      BY <2>2 DEF Polls!Status, Polls!Hard
  <1>2. ASSUME NEW s \in Polls!Fleet, withheld[s] \/ failures[s] > 0
        PROVE  Polls!Status # "ok"
    <2>1. s \in Polls!Polled /\ lastPoll[s].degraded
      BY <1>r, <1>2 DEF RecordSound
    <2>2. Polls!Reason(s) # ""
      BY <1>c, <1>f, <2>1 DEF Polls!Reason
    <2>3. s \in Polls!Impaired /\ Polls!Polled # {}
      BY <2>1, <2>2 DEF Polls!Impaired
    <2> QED
      BY <2>3 DEF Polls!Status
  <1>3. Polls!Hard => Polls!Status = "degraded"
    BY DEF Polls!Hard, Polls!Status, Polls!Impaired
  <1>4. ASSUME NEW s \in Polls!Fleet, failures[s] = RunThreshold, turn # s
        PROVE  Polls!Status = "degraded"
    <2>1. /\ s \in Polls!Polled /\ lastPoll[s].degraded /\ lastPoll[s].state = "failed"
          /\ lastPoll[s].run >= RunThreshold
      BY <1>r, <1>4 DEF RecordSound
    <2>2. Polls!Reason(s) \in {"stale_cycle", "failed_cycle"}
      BY <1>c, <1>f, <2>1 DEF Polls!Reason
    <2>3. s \in Polls!Impaired /\ ~Polls!Soft(Polls!Reason(s))
      BY <2>1, <2>2 DEF Polls!Impaired, Polls!Soft
    <2> QED
      BY <1>3, <2>1, <2>3 DEF Polls!Hard
  <1>5. ASSUME elapsed > Polls!Ceiling PROVE Polls!Status = "degraded"
    <2>1. turn \in Polls!Fleet /\ turn \in Polls!Polled /\ lastPoll[turn].state = "in_progress"
      <3>1. turn \in Polls!Fleet
        BY <1>5, <1>c DEF PollInv, PollTyped, Polls!Fleet
      <3> QED
        BY <1>r, <3>1 DEF RecordSound
    <2>2. Polls!Reason(turn) = "active_cycle_degraded"
      BY <1>5, <1>c, <2>1 DEF Polls!Reason
    <2>3. ASSUME NEW s \in Polls!Polled, s # turn PROVE Polls!Reason(s) = "stale_cycle"
      <3>1. lastPoll[s].finished > Polls!Ceiling /\ lastPoll[s].state # "in_progress"
        BY <1>5, <1>c, <1>f, <1>r, <2>3 DEF RecordSound
      <3>2. ~(lastPoll[s].finished <= Polls!Ceiling)
        BY <1>c, <1>f, <2>3, <3>1
      <3> QED
        BY <3>1, <3>2 DEF Polls!Reason
    <2>4. Polls!Impaired = Polls!Polled /\ turn \in Polls!Impaired
      BY <2>1, <2>2, <2>3 DEF Polls!Impaired
    <2>5. ~Polls!Soft(Polls!Reason(turn))
      BY <2>2 DEF Polls!Soft
    <2> QED
      BY <1>3, <2>4, <2>5 DEF Polls!Hard
  <1> QED
    BY <1>1, <1>2, <1>4, <1>5 DEF Polls!HealthIsHonest

\* The clock of a finish stops past the ceiling, a run at the threshold.
LEMMA OlderAge ==
    ASSUME NEW ago \in Polls!Never .. Polls!Ceiling + 1
    PROVE  /\ Polls!Older(ago) \in Polls!Never .. Polls!Ceiling + 1
           /\ ago # Polls!Never => Polls!Older(ago) \in Nat /\ Polls!Older(ago) >= ago
           /\ ago = Polls!Never => Polls!Older(ago) = Polls!Never
           /\ Polls!Older(ago) <= ago + 1
           /\ ago <= Polls!Ceiling /\ ago # Polls!Never => Polls!Older(ago) = ago + 1
           /\ \A other \in 0 .. Polls!Ceiling + 1 :
                ago # Polls!Never /\ ago >= other => Polls!Older(ago) >= Polls!Older(other)
  <1>1. Polls!Ceiling \in Nat /\ Polls!Never = -1
    BY CeilingBound, PollConstants
  <1> QED
    BY <1>1 DEF Polls!Older

LEMMA LongerRun ==
    ASSUME NEW run \in 0 .. RunThreshold
    PROVE  /\ Polls!Longer(run) \in 0 .. RunThreshold /\ Polls!Longer(run) > 0
           /\ \A other \in 0 .. RunThreshold :
                run >= other => Polls!Longer(run) >= Polls!Longer(other)
  BY PollConstants DEF Polls!Longer

\* A cycle's first record keeps what the previous cycle left.
LEMMA StartedRecord ==
    ASSUME NEW record \in Records \cup {Polls!Unpolled}
    PROVE  /\ Polls!Started(record) \in Records
           /\ Polls!Started(record).state = "in_progress"
           /\ record \in Records =>
                /\ Polls!Started(record).degraded = record.degraded
                /\ Polls!Started(record).run = record.run
  <1>1. CASE record = Polls!Unpolled
    <2>1. Polls!Unpolled \notin Records
      BY DEF Polls!Unpolled, Records
    <2>2. Polls!Started(record) = [state |-> "in_progress", degraded |-> FALSE, run |-> 0,
                                   finished |-> Polls!Never]
      BY <1>1 DEF Polls!Started
    <2>3. 0 \in 0 .. RunThreshold /\ Polls!Never \in Polls!Never .. Polls!Ceiling + 1
      BY CeilingBound, PollConstants
    <2>4. Polls!Started(record) \in Records
      BY <2>2, <2>3 DEF Records
    <2> QED
      <3>1. Polls!Started(record).state = "in_progress"
        BY <2>2
      <3> QED
        BY <1>1, <2>1, <2>4, <3>1
  <1>2. CASE record \in Records /\ record # Polls!Unpolled
    BY <1>2 DEF Polls!Started, Records
  <1> QED
    BY <1>1, <1>2

\* The turn passes on: the running cycle leaves record, the next one starts.
LEMMA TurnPasses ==
    ASSUME PollInv, turn # 0, NEW record \in Records, Polls!TurnOver(record),
           record.state # "in_progress", record.finished = 0,
           failures' \in [Polls!Fleet -> 0 .. RunThreshold],
           withheld' = [s \in Polls!Fleet |-> withheld'[s]],
           \A s \in Polls!Fleet \ {turn} :
             failures'[s] = failures[s] /\ withheld'[s] = withheld[s],
           failures'[turn] > 0 \/ withheld'[turn] => record.degraded,
           failures'[turn] > 0 => record.state = "failed" /\ record.run >= failures'[turn]
    PROVE  PollInv'
  <1> USE PollConstants
  <1>1. /\ turn \in Polls!Fleet /\ turn \in 1 .. SportCount /\ elapsed \in Nat
        /\ sinceSlot \in Nat /\ lastPoll \in [Polls!Fleet -> Records \cup {Polls!Unpolled}]
        /\ failures \in [Polls!Fleet -> 0 .. RunThreshold] /\ Polls!Ceiling \in Nat
    <2>1. Polls!Ceiling \in Nat
      BY CeilingBound
    <2>2. turn \in 0 .. SportCount /\ turn \in Polls!Fleet /\ turn \in 1 .. SportCount
      BY DEF PollInv, PollTyped, Polls!Fleet
    <2>3. elapsed \in Nat /\ sinceSlot \in Nat
      BY <2>1 DEF PollInv, PollTyped
    <2> QED
      BY <2>1, <2>2, <2>3 DEF PollInv, PollTyped
  <1>2. /\ turn' = IF turn < SportCount THEN turn + 1 ELSE 0
        /\ turn' \in 0 .. SportCount /\ turn' # turn /\ elapsed' = 0
        /\ guarded' = guarded /\ sinceSlot' = sinceSlot /\ due' = due
    BY <1>1 DEF Polls!TurnOver
  <1>w. Waited \in Nat /\ Waited' \in Nat
    BY <1>1, <1>2, WaitedIsNat DEF PollInv, PollTyped, Waited
  <1>3. /\ lastPoll' = [s \in Polls!Fleet |-> lastPoll'[s]] /\ lastPoll'[turn] = record
        /\ \A s \in Polls!Fleet :
             /\ s = turn' => s = turn + 1 /\ lastPoll'[s] = Polls!Started(lastPoll[s])
             /\ s # turn /\ s # turn' => lastPoll'[s] = lastPoll[s]
    <2>1. \A s \in Polls!Fleet : s = turn + 1 <=> s = turn'
      <3>1. \A s \in Polls!Fleet : s \in Nat /\ 1 <= s /\ s <= SportCount
        BY DEF Polls!Fleet
      <3>2. CASE turn < SportCount
        BY <1>2, <3>2
      <3>3. CASE ~(turn < SportCount)
        BY <1>1, <1>2, <3>1, <3>3
      <3> QED
        BY <3>2, <3>3
    <2>2. \A s \in Polls!Fleet : ~(s = turn /\ s = turn + 1)
      BY <1>1
    <2> QED
      BY <1>1, <2>1, <2>2 DEF Polls!TurnOver
  <1>4. \A s \in Polls!Fleet : lastPoll'[s] \in Records \cup {Polls!Unpolled}
    BY <1>1, <1>3, StartedRecord
  <1>5. PollTyped'
    <2>1. sinceSlot' \in 0 .. Interval - 1 /\ elapsed' \in 0 .. Polls!Ceiling + 1
      BY <1>1, <1>2 DEF PollInv, PollTyped
    <2>2. lastPoll' \in [Polls!Fleet -> Records \cup {Polls!Unpolled}]
      BY <1>3, <1>4
    <2> QED
      BY <1>2, <2>1, <2>2 DEF PollTyped
  <1>6. ASSUME NEW s \in Polls!Fleet PROVE RecordSound(s)'
    <2>1. CASE s = turn
      <3>1. Bound(s)' \in Nat
        <4>1. turn' # s /\ turn' \in 0 .. SportCount /\ elapsed' \in Nat
          BY <1>2, <2>1
        <4>2. BoundAt(turn', Waited', elapsed', s) \in Nat
          BY <1>w, <4>1, BoundIsNat
        <4> QED
          BY <4>2, BoundPrimed
      <3> QED
        BY <1>2, <1>3, <2>1, <3>1 DEF RecordSound
    <2>2. CASE s = turn'
      <3>1. /\ lastPoll'[s] = Polls!Started(lastPoll[s]) /\ s # turn /\ s = turn'
            /\ lastPoll[s] \in Records \cup {Polls!Unpolled}
        BY <1>1, <1>2, <1>3, <2>2
      <3>2. /\ lastPoll'[s] \in Records /\ lastPoll'[s].state = "in_progress"
            /\ lastPoll[s] \in Records => /\ lastPoll'[s].degraded = lastPoll[s].degraded
                                          /\ lastPoll'[s].run = lastPoll[s].run
        BY <3>1, StartedRecord
      <3>3. failures'[s] = failures[s] /\ withheld'[s] = withheld[s] /\ RecordSound(s)
        BY <3>1 DEF PollInv
      <3> QED
        BY <3>1, <3>2, <3>3 DEF RecordSound
    <2>3. CASE s # turn /\ s # turn'
      <3>1. /\ lastPoll'[s] = lastPoll[s] /\ RecordSound(s)
            /\ failures'[s] = failures[s] /\ withheld'[s] = withheld[s]
        BY <1>3, <2>3 DEF PollInv
      <3>2. guarded /\ lastPoll[s] \in Records => lastPoll[s].finished <= Bound(s)'
        <4> SUFFICES ASSUME guarded, lastPoll[s] \in Records
                     PROVE  lastPoll[s].finished <= Bound(s)'
          OBVIOUS
        <4>1. /\ lastPoll[s].finished <= Bound(s) /\ lastPoll[s].finished \in Int
              /\ Bound(s) \in Nat
          <5>1. lastPoll[s].finished <= Bound(s)
            BY <2>3, <3>1 DEF RecordSound
          <5>2. lastPoll[s].finished \in Int
            BY <1>1 DEF Records
          <5>3. turn # s /\ turn \in 0 .. SportCount /\ elapsed \in Nat
            BY <1>1, <2>3
          <5>4. BoundAt(turn, Waited, elapsed, s) \in Nat
            BY <1>w, <5>3, BoundIsNat
          <5> QED
            BY <5>1, <5>2, <5>4 DEF Bound
        <4>2. elapsed <= Budget
          BY DEF PollInv
        <4>3. Bound(s)' = BoundAt(turn', Waited', 0, s) /\ Bound(s)' \in Nat
          <5>1. turn' # s /\ turn' \in 0 .. SportCount /\ 0 \in Nat
            BY <1>2, <2>3
          <5>2. BoundAt(turn', Waited', 0, s) \in Nat
            BY <1>w, <5>1, BoundIsNat
          <5> QED
            BY <1>2, <5>2, BoundPrimed
        <4>4. Bound(s) <= BoundAt(turn', Waited', 0, s)
          BY <1>1, <1>2, <1>w, <2>3, <4>2, BoundPasses DEF Bound
        <4> QED
          BY <4>1, <4>3, <4>4
      <3>3. /\ lastPoll[s] \in Records => lastPoll[s].finished >= 0
            /\ elapsed' = 0 /\ guarded' = guarded
        <4>1. lastPoll[s] \in Records => lastPoll[s].finished \in Int
          BY <1>1 DEF Records
        <4> QED
          BY <1>1, <1>2, <2>3, <3>1, <4>1 DEF RecordSound
      <3> QED
        BY <2>3, <3>1, <3>2, <3>3 DEF RecordSound
    <2> QED
      BY <2>1, <2>2, <2>3
  <1>7. elapsed' <= Budget /\ (due' => sinceSlot' = 0)
    BY <1>2 DEF PollInv
  <1> QED
    BY <1>2, <1>5, <1>6, <1>7 DEF PollInv

LEMMA PollInitInv == Polls!PollInit => PollInv
  <1> USE PollConstants
  <1> SUFFICES ASSUME Polls!PollInit PROVE PollInv
    OBVIOUS
  <1>1. /\ turn = 0 /\ elapsed = 0 /\ sinceSlot = 0 /\ due = FALSE
        /\ lastPoll = [s \in Polls!Fleet |-> Polls!Unpolled]
        /\ failures = [s \in Polls!Fleet |-> 0]
        /\ withheld = [s \in Polls!Fleet |-> FALSE]
    BY DEF Polls!PollInit
  <1>2. PollTyped
    BY <1>1, CeilingBound DEF PollTyped
  <1>3. \A s \in Polls!Fleet : RecordSound(s)
    <2>1. Polls!Unpolled \notin Records
      BY DEF Polls!Unpolled, Records
    <2>2. 0 \notin Polls!Fleet
      BY DEF Polls!Fleet
    <2> QED
      BY <1>1, <2>1, <2>2 DEF RecordSound
  <1> QED
    BY <1>1, <1>2, <1>3 DEF PollInv

\* What the gate withholds, it degrades.
LEMMA ReportFields ==
    ASSUME NEW report \in Polls!Reports
    PROVE  /\ report.degrades \in BOOLEAN /\ report.withholds \in BOOLEAN
           /\ report.withholds => report.degrades
  <1>1. PICK e \in Polls!Endings :
          report = [degrades |-> Polls!Degrades(e), withholds |-> Polls!Withholds(e)]
    BY DEF Polls!Reports
  <1>2. report.degrades = Polls!Degrades(e) /\ report.withholds = Polls!Withholds(e)
    BY <1>1
  <1>3. Polls!Degrades(e) \in BOOLEAN /\ Polls!Withholds(e) \in BOOLEAN
    BY Zenon DEF Polls!Degrades, Polls!Withholds
  <1>4. Polls!Withholds(e) => Polls!Degrades(e)
    BY DEF Polls!Degrades, Polls!Withholds
  <1> QED
    BY <1>2, <1>3, <1>4, Zenon

\* A cycle that completes leaves what it found; one that failed counts.
LEMMA CycleCompletesInv ==
    ASSUME PollInv, NEW report \in Polls!Reports, Polls!CycleCompletes(report) PROVE PollInv'
  <1> USE PollConstants
  <1> DEFINE record == Polls!Recorded(lastPoll[turn], report.degrades)
  <1>1. /\ turn # 0 /\ Polls!TurnOver(record) /\ turn \in Polls!Fleet
        /\ failures' = [failures EXCEPT ![turn] = 0]
        /\ withheld' = [withheld EXCEPT ![turn] = report.withholds]
    BY DEF Polls!CycleCompletes, PollInv, PollTyped, Polls!Fleet
  <1>2. lastPoll[turn] \in Records /\ lastPoll[turn].run \in 0 .. RunThreshold
    BY <1>1 DEF PollInv, RecordSound, Records
  <1>3. /\ record \in Records /\ record.state = "completed" /\ record.finished = 0
        /\ report.withholds => record.degraded
    <2>1. 0 \in Polls!Never .. Polls!Ceiling + 1 /\ 0 \in 0 .. RunThreshold
      BY CeilingBound
    <2>2. CASE report.degrades = TRUE
      <3>1. record = [state |-> "completed", degraded |-> TRUE,
                      run |-> Polls!Longer(lastPoll[turn].run), finished |-> 0]
        BY <2>2 DEF Polls!Recorded
      <3> QED
        BY <1>2, <2>1, <3>1, LongerRun DEF Records
    <2>3. CASE report.degrades = FALSE
      <3>1. record = [state |-> "completed", degraded |-> FALSE, run |-> 0, finished |-> 0]
        BY <2>3 DEF Polls!Recorded
      <3>2. ~report.withholds
        BY <2>3, ReportFields
      <3> QED
        BY <2>1, <3>1, <3>2 DEF Records
    <2> QED
      BY <2>2, <2>3, ReportFields
  <1>4. /\ failures' \in [Polls!Fleet -> 0 .. RunThreshold]
        /\ withheld' = [s \in Polls!Fleet |-> withheld'[s]]
        /\ failures'[turn] = 0 /\ (withheld'[turn] => record.degraded)
        /\ \A s \in Polls!Fleet \ {turn} :
             failures'[s] = failures[s] /\ withheld'[s] = withheld[s]
    <2>1. /\ failures \in [Polls!Fleet -> 0 .. RunThreshold]
          /\ withheld = [s \in Polls!Fleet |-> withheld[s]]
      BY DEF PollInv, PollTyped
    <2> HIDE DEF record
    <2> QED
      BY <1>1, <1>3, <2>1
  <1> HIDE DEF record
  <1>5. /\ record.state # "in_progress"
        /\ failures'[turn] > 0 \/ withheld'[turn] => record.degraded
        /\ failures'[turn] > 0 => record.state = "failed" /\ record.run >= failures'[turn]
    BY <1>3, <1>4
  <1> QED
    BY <1>1, <1>3, <1>4, <1>5, TurnPasses

LEMMA CycleFailsInv ==
    ASSUME PollInv, Polls!CycleFails PROVE PollInv'
  <1> USE PollConstants
  <1> DEFINE record == Polls!RecordedFailure(lastPoll[turn])
  <1>1. /\ turn # 0 /\ Polls!TurnOver(record) /\ turn \in Polls!Fleet
        /\ failures' = [failures EXCEPT ![turn] = Polls!Longer(failures[turn])]
        /\ withheld' = [withheld EXCEPT ![turn] = FALSE]
    BY DEF Polls!CycleFails, PollInv, PollTyped, Polls!Fleet
  <1>2. /\ lastPoll[turn] \in Records /\ lastPoll[turn].run \in 0 .. RunThreshold
        /\ failures \in [Polls!Fleet -> 0 .. RunThreshold]
        /\ failures[turn] > 0 => lastPoll[turn].run >= failures[turn]
    BY <1>1 DEF PollInv, PollTyped, RecordSound, Records
  <1>3. record = [state |-> "failed", degraded |-> TRUE,
                  run |-> Polls!Longer(lastPoll[turn].run), finished |-> 0]
    BY DEF Polls!RecordedFailure
  <1>4. /\ Polls!Longer(lastPoll[turn].run) \in 0 .. RunThreshold
        /\ Polls!Longer(failures[turn]) \in 0 .. RunThreshold
        /\ Polls!Longer(lastPoll[turn].run) >= Polls!Longer(failures[turn])
    <2>1. failures[turn] \in 0 .. RunThreshold /\ lastPoll[turn].run >= failures[turn]
      BY <1>1, <1>2
    <2> QED
      BY <1>2, <2>1, LongerRun
  <1>5. /\ record \in Records /\ record.state = "failed" /\ record.finished = 0
        /\ record.degraded = TRUE /\ record.run = Polls!Longer(lastPoll[turn].run)
    <2>1. 0 \in Polls!Never .. Polls!Ceiling + 1
      BY CeilingBound
    <2> HIDE DEF record
    <2> QED
      BY <1>3, <1>4, <2>1 DEF Records
  <1>6. /\ failures' \in [Polls!Fleet -> 0 .. RunThreshold]
        /\ withheld' = [s \in Polls!Fleet |-> withheld'[s]]
        /\ failures'[turn] = Polls!Longer(failures[turn])
        /\ \A s \in Polls!Fleet \ {turn} :
             failures'[s] = failures[s] /\ withheld'[s] = withheld[s]
    <2>1. withheld = [s \in Polls!Fleet |-> withheld[s]]
      BY DEF PollInv, PollTyped
    <2> QED
      BY <1>1, <1>2, <1>4, <2>1
  <1> HIDE DEF record
  <1> QED
    BY <1>1, <1>4, <1>5, <1>6, TurnPasses

LEMMA SweepBeginsInv ==
    ASSUME PollInv, Polls!SweepBegins PROVE PollInv'
  <1> USE PollConstants
  <1>1. /\ due /\ turn = 0 /\ ~due' /\ turn' = 1 /\ elapsed' = 0 /\ elapsed = 0
        /\ sinceSlot = 0 /\ sinceSlot' = 0 /\ guarded' = guarded
        /\ lastPoll' = [lastPoll EXCEPT ![1] = Polls!Started(lastPoll[1])]
        /\ failures' = failures /\ withheld' = withheld /\ 1 \in Polls!Fleet
        /\ lastPoll \in [Polls!Fleet -> Records \cup {Polls!Unpolled}]
    BY DEF Polls!SweepBegins, PollInv, PollTyped, Polls!Fleet
  <1>2. PollTyped'
    <2>1. lastPoll' \in [Polls!Fleet -> Records \cup {Polls!Unpolled}]
      BY <1>1, StartedRecord
    <2>2. /\ failures' \in [Polls!Fleet -> 0 .. RunThreshold]
          /\ withheld' = [s \in Polls!Fleet |-> withheld'[s]]
          /\ sinceSlot' \in 0 .. Interval - 1 /\ turn' \in 0 .. SportCount
          /\ elapsed' \in 0 .. Polls!Ceiling + 1
      BY <1>1, CeilingBound DEF PollInv, PollTyped
    <2> QED
      BY <2>1, <2>2 DEF PollTyped
  <1>3. ASSUME NEW s \in Polls!Fleet PROVE RecordSound(s)'
    <2>1. /\ failures'[s] = failures[s] /\ withheld'[s] = withheld[s] /\ RecordSound(s)
          /\ lastPoll[s] \in Records \cup {Polls!Unpolled} /\ turn # s
      BY <1>1 DEF PollInv, Polls!Fleet
    <2>2. CASE s = 1
      <3>1. lastPoll'[s] = Polls!Started(lastPoll[s]) /\ turn' = s
        BY <1>1, <2>2
      <3>2. /\ lastPoll'[s] \in Records /\ lastPoll'[s].state = "in_progress"
            /\ lastPoll[s] \in Records => /\ lastPoll'[s].degraded = lastPoll[s].degraded
                                          /\ lastPoll'[s].run = lastPoll[s].run
        BY <2>1, <3>1, StartedRecord
      <3> QED
        BY <2>1, <3>1, <3>2 DEF RecordSound
    <2>3. CASE s # 1
      <3>1. lastPoll'[s] = lastPoll[s] /\ turn' # s /\ elapsed' = elapsed
        BY <1>1, <2>3
      <3>2. Bound(s)' = Bound(s)
        <4>1. Waited = Interval /\ Waited' = sinceSlot'
          BY <1>1 DEF Waited
        <4>2. /\ Bound(s) = BoundAt(0, Interval, 0, s)
              /\ Bound(s)' = BoundAt(1, 0, 0, s)
          BY <1>1, <4>1, BoundPrimed DEF Bound
        <4>3. BoundAt(0, Interval, 0, s) = BoundAt(1, 0, 0, s)
          BY <2>3, BoundBegins
        <4> QED
          BY <4>2, <4>3
      <3> QED
        BY <1>1, <2>1, <3>1, <3>2 DEF RecordSound
    <2> QED
      BY <2>2, <2>3
  <1> QED
    BY <1>1, <1>2, <1>3 DEF PollInv

\* What is still true of a finished cycle after more time is less than the bound allows.
LEMMA ElapsesInv ==
    ASSUME PollInv, Polls!TimePasses PROVE PollInv'
  <1> USE PollConstants
  <1>1. /\ ~due /\ turn' = turn /\ guarded' = guarded /\ failures' = failures
        /\ withheld' = withheld /\ (guarded => elapsed < Budget)
        /\ sinceSlot' = (sinceSlot + 1) % Interval /\ (due' <=> sinceSlot' = 0)
    BY DEF Polls!TimePasses
  <1>2. /\ turn \in 0 .. SportCount /\ elapsed \in 0 .. Polls!Ceiling + 1
        /\ sinceSlot \in 0 .. Interval - 1 /\ (turn = 0 => elapsed = 0)
        /\ lastPoll \in [Polls!Fleet -> Records \cup {Polls!Unpolled}]
    BY DEF PollInv, PollTyped
  <1>3. /\ turn = 0 => elapsed' = 0
        /\ turn # 0 => elapsed' = Polls!Older(elapsed)
        /\ elapsed' \in 0 .. Polls!Ceiling + 1 /\ elapsed' <= Polls!Older(elapsed)
        /\ guarded /\ turn # 0 => elapsed' = elapsed + 1
        /\ guarded => elapsed' <= Budget
    <2>1. elapsed' = IF turn = 0 THEN 0 ELSE Polls!Older(elapsed)
      BY DEF Polls!TimePasses
    <2>2. /\ elapsed \in Polls!Never .. Polls!Ceiling + 1 /\ elapsed # Polls!Never
          /\ Polls!Ceiling \in Nat /\ Polls!Ceiling >= Budget
      <3>1. Turns(SportCount) \in Nat
        BY TurnsAdd
      <3> QED
        BY <1>2, <3>1, CeilingBound
    <2>3. /\ Polls!Older(elapsed) \in Polls!Never .. Polls!Ceiling + 1
          /\ Polls!Older(elapsed) \in Nat
          /\ elapsed <= Polls!Ceiling => Polls!Older(elapsed) = elapsed + 1
      BY <2>2, OlderAge
    <2> QED
      BY <1>1, <1>2, <2>1, <2>2, <2>3
  <1>4. /\ sinceSlot' \in 0 .. Interval - 1
        /\ due' => sinceSlot + 1 = Interval
        /\ ~due' => sinceSlot' = sinceSlot + 1
        /\ Waited \in Nat /\ Waited' = Waited + 1
    <2>1. CASE sinceSlot + 1 = Interval
      <3>1. sinceSlot' = 0
        BY <1>1, <2>1
      <3> QED
        BY <1>1, <1>2, <2>1, <3>1 DEF Waited
    <2>2. CASE sinceSlot + 1 < Interval
      <3>1. sinceSlot' = sinceSlot + 1
        BY <1>1, <1>2, <2>2
      <3> QED
        BY <1>1, <1>2, <2>2, <3>1 DEF Waited
    <2> QED
      BY <1>2, <2>1, <2>2
  <1>5. ASSUME NEW s \in Polls!Fleet
        PROVE  /\ lastPoll[s] = Polls!Unpolled => lastPoll'[s] = Polls!Unpolled
               /\ lastPoll[s] \in Records =>
                    lastPoll'[s] = [lastPoll[s] EXCEPT
                                      !.finished = Polls!Older(lastPoll[s].finished)]
    <2>1. Polls!Unpolled \notin Records
      BY DEF Polls!Unpolled, Records
    <2> QED
      BY <2>1 DEF Polls!TimePasses
  <1>6. ASSUME NEW s \in Polls!Fleet, lastPoll[s] \in Records
        PROVE  /\ lastPoll'[s] \in Records
               /\ lastPoll[s].finished \in Polls!Never .. Polls!Ceiling + 1
               /\ lastPoll'[s].degraded = lastPoll[s].degraded
               /\ lastPoll'[s].run = lastPoll[s].run
               /\ lastPoll'[s].state = lastPoll[s].state
               /\ lastPoll'[s].finished = Polls!Older(lastPoll[s].finished)
    <2>1. lastPoll[s].finished \in Polls!Never .. Polls!Ceiling + 1
      BY <1>6 DEF Records
    <2>2. Polls!Older(lastPoll[s].finished) \in Polls!Never .. Polls!Ceiling + 1
      BY <2>1, OlderAge
    <2> QED
      BY <1>5, <1>6, <2>1, <2>2 DEF Records
  <1>7. PollTyped'
    <2>1. lastPoll' = [s \in Polls!Fleet |-> lastPoll'[s]]
      BY DEF Polls!TimePasses
    <2>2. \A s \in Polls!Fleet : lastPoll'[s] \in Records \cup {Polls!Unpolled}
      BY <1>2, <1>5, <1>6
    <2>3. lastPoll' \in [Polls!Fleet -> Records \cup {Polls!Unpolled}]
      BY <2>1, <2>2
    <2> QED
      BY <1>1, <1>3, <1>4, <2>3 DEF PollTyped, PollInv
  <1>8. ASSUME NEW s \in Polls!Fleet PROVE RecordSound(s)'
    <2>1. CASE lastPoll[s] \notin Records
      <3>1. lastPoll'[s] \notin Records
        <4>1. Polls!Unpolled \notin Records
          BY DEF Polls!Unpolled, Records
        <4> QED
          BY <1>2, <1>5, <2>1, <4>1
      <3>2. failures'[s] = failures[s] /\ withheld'[s] = withheld[s] /\ RecordSound(s)
        BY <1>1 DEF PollInv
      <3> QED
        BY <1>1, <2>1, <3>1, <3>2 DEF RecordSound
    <2>2. CASE lastPoll[s] \in Records
      <3> DEFINE ago == lastPoll[s].finished
      <3>1. /\ RecordSound(s) /\ failures'[s] = failures[s] /\ withheld'[s] = withheld[s]
            /\ ago \in Polls!Never .. Polls!Ceiling + 1
            /\ lastPoll'[s] \in Records /\ lastPoll'[s].finished = Polls!Older(ago)
            /\ lastPoll'[s].degraded = lastPoll[s].degraded
            /\ lastPoll'[s].run = lastPoll[s].run
            /\ lastPoll'[s].state = lastPoll[s].state
        BY <1>1, <1>6, <2>2 DEF PollInv
      <3>2. turn # s => /\ ago # Polls!Never /\ ago >= elapsed
                        /\ guarded => ago <= Bound(s)
        BY <2>2, <3>1 DEF RecordSound
      <3> HIDE DEF ago
      <3>3. turn # s => Polls!Older(ago) \in Nat /\ Polls!Older(ago) >= elapsed'
        <4> SUFFICES ASSUME turn # s
                     PROVE  Polls!Older(ago) \in Nat /\ Polls!Older(ago) >= elapsed'
          OBVIOUS
        <4>1. Polls!Older(ago) \in Nat /\ Polls!Older(ago) >= Polls!Older(elapsed)
          BY <1>2, <3>1, <3>2, OlderAge
        <4>2. elapsed \in Polls!Never .. Polls!Ceiling + 1 /\ elapsed # Polls!Never
          BY <1>2
        <4>3. Polls!Older(elapsed) \in Nat
          BY <4>2, OlderAge
        <4> QED
          BY <1>3, <4>1, <4>3, CeilingBound
      <3>4. turn # s /\ guarded => Polls!Older(ago) <= Bound(s)'
        <4> SUFFICES ASSUME turn # s, guarded PROVE Polls!Older(ago) <= Bound(s)'
          OBVIOUS
        <4>1. Polls!Older(ago) <= ago + 1 /\ Polls!Older(ago) \in Nat
          BY <3>1, <3>2, OlderAge
        <4>2. Bound(s) \in Nat /\ ago <= Bound(s) /\ ago \in Int
          <5>1. BoundAt(turn, Waited, elapsed, s) \in Nat
            <6>1. elapsed \in Nat
              BY <1>2, CeilingBound
            <6> QED
              BY <1>2, <1>4, <6>1, BoundIsNat
          <5> QED
            BY <3>1, <3>2, <5>1, CeilingBound DEF Bound
        <4>3. Bound(s)' = Bound(s) + 1
          <5>1. Bound(s)' = BoundAt(turn, Waited + 1, elapsed', s)
            BY <1>1, <1>4, BoundPrimed
          <5>2. elapsed \in Nat /\ elapsed' \in Nat
            BY <1>2, <1>3, CeilingBound
          <5>3. CASE turn = 0
            <6>1. BoundAt(turn, Waited + 1, elapsed', s)
                    = BoundAt(turn, Waited, elapsed, s) + 1
              BY <1>2, <1>4, <5>2, <5>3, BoundGrows
            <6> QED
              BY <5>1, <6>1 DEF Bound
          <5>4. CASE turn # 0
            <6>1. elapsed' = elapsed + 1 /\ Waited + 1 \in Nat
              BY <1>3, <1>4, <5>4
            <6>2. BoundAt(turn, Waited + 1, elapsed + 1, s)
                    = BoundAt(turn, Waited, elapsed, s) + 1
              BY <1>2, <1>4, <5>2, <5>4, <6>1, BoundGrows
            <6> QED
              BY <5>1, <6>1, <6>2 DEF Bound
          <5> QED
            BY <5>3, <5>4
        <4> QED
          BY <4>1, <4>2, <4>3
      <3>5. Polls!Older(ago) \in Nat => Polls!Older(ago) # Polls!Never
        OBVIOUS
      <3> QED
        BY <1>1, <2>2, <3>1, <3>3, <3>4, <3>5 DEF RecordSound
    <2> QED
      BY <2>1, <2>2
  <1>9. due' => sinceSlot' = 0
    BY <1>1
  <1> QED
    BY <1>1, <1>3, <1>7, <1>8, <1>9 DEF PollInv

\* A slot that finds a sweep running is dropped.
LEMMA SlotSkippedInv ==
    ASSUME PollInv, Polls!SlotSkipped PROVE PollInv'
  <1>1. /\ turn # 0 /\ ~due' /\ turn' = turn /\ elapsed' = elapsed /\ lastPoll' = lastPoll
        /\ guarded' = guarded /\ sinceSlot' = sinceSlot
        /\ failures' = failures /\ withheld' = withheld
    BY DEF Polls!SlotSkipped
  <1>2. ASSUME NEW s \in Polls!Fleet PROVE RecordSound(s)'
    <2>1. RecordSound(s) /\ Bound(s)' = Bound(s)
      <3>1. BoundAt(turn, Waited', elapsed, s) = BoundAt(turn, Waited, elapsed, s)
        BY <1>1 DEF BoundAt
      <3> QED
        BY <1>1, <3>1, BoundPrimed DEF Bound, PollInv
    <2> QED
      BY <1>1, <2>1 DEF RecordSound
  <1> QED
    BY <1>1, <1>2 DEF PollInv, PollTyped

LEMMA PollStutters == PollInv /\ UNCHANGED healthVars => PollInv'
  <1> SUFFICES ASSUME PollInv, UNCHANGED healthVars PROVE PollInv'
    OBVIOUS
  <1>1. /\ turn' = turn /\ elapsed' = elapsed /\ lastPoll' = lastPoll
        /\ guarded' = guarded /\ sinceSlot' = sinceSlot /\ due' = due
        /\ failures' = failures /\ withheld' = withheld
    BY DEF healthVars
  <1>2. ASSUME NEW s \in Polls!Fleet PROVE RecordSound(s)'
    <2>1. RecordSound(s) /\ Bound(s)' = Bound(s)
      BY <1>1, BoundPrimed DEF Bound, Waited, PollInv
    <2> QED
      BY <1>1, <2>1 DEF RecordSound
  <1> QED
    BY <1>1, <1>2 DEF PollInv, PollTyped

LEMMA PollNextInv ==
    ASSUME PollInv, Polls!PollNext PROVE PollInv'
  BY SweepBeginsInv, SlotSkippedInv, CycleFailsInv, ElapsesInv, CycleCompletesInv
  DEF Polls!PollNext

LEMMA PollInvariant == Spec => []PollInv
  <1>1. Init => PollInv
    BY PollInitInv DEF Init
  <1>2. PollInv /\ [Next]_vars => PollInv'
    BY PollSteps, PollNextInv, PollStutters
  <1> QED
    BY <1>1, <1>2, PTL DEF Spec

\* GET /health: "ok" for an engine whose cycles are clean, never over a failed or withheld
\* one, 503 for a failing or a hung one, for any number of sports and settings whose
\* interval is no longer than a cycle's budget.
THEOREM Health_IsHonest == Spec => []HealthIsHonest
  BY PollInvariant, HonestRecords, PTL

----------------------------------------------------------------------------
(* ProxySessions: sessions are lent while open and closed in time.         *)

LEMMA PoolSteps == [Next]_vars => Pool!SessionsNext \/ UNCHANGED sessionVars
  BY DEF Next, Only, vars

Borrowers(s) == {pg \in Pages : lease[pg] = s}

EverBuilt == current \cup retired \cup closed

\* The pages that have evicted a session after their first failure, and after their second.
EvictedOnce == {pg \in Pages : page[pg] \notin {"queued", "fetching", "pausing"}}
EvictedTwice == {pg \in Pages : page[pg] = "failed"}
Evictions == Cardinality(EvictedOnce) + Cardinality(EvictedTwice)

\* A proxy's open session.
Cached(x) == \E s \in current : s[1] = x

Borrowing == {"fetching", "pausing", "retrying"}

PoolTyped ==
    /\ cycles \in Nat
    /\ page \in [Pages -> Pool!Stages]
    /\ lease \in [Pages -> Pool!Sessions \cup {Pool!NoSession}]
    /\ built \in [Proxies -> Nat]
    /\ current \subseteq Pool!Sessions /\ retired \subseteq Pool!Sessions
    /\ closed \subseteq Pool!Sessions
    /\ leases \in [Pool!Sessions -> Nat]

\* The pool: one open session of a proxy, every number accounted for, a lease per borrower.
PoolSound ==
    /\ current \cap retired = {} /\ closed \cap (current \cup retired) = {}
    /\ \A s, t \in current : s[1] = t[1] => s = t
    /\ \A s \in EverBuilt : s[2] <= built[s[1]]
    /\ \A x \in Proxies : \A n \in 1 .. built[x] : <<x, n>> \in EverBuilt
    /\ \A pg \in Pages : lease[pg] \in current \cup retired \cup {Pool!NoSession}
    /\ \A s \in retired : \E pg \in Pages : lease[pg] = s
    /\ \A s \in Pool!Sessions : leases[s] = Cardinality(Borrowers(s))

\* The pages: who borrows, and how many sessions their failures can have cost.
PagesSound ==
    /\ \A pg \in Pages : lease[pg] # Pool!NoSession <=> page[pg] \in Borrowing
    /\ fetching => ~complete /\ cycles > 0
    /\ ~fetching => current = {} /\ retired = {} /\ \A pg \in Pages : Pool!Over(pg)
    /\ complete /\ cycles > 0 => \A pg \in Pages : page[pg] = "done"
    /\ fetching => \A x \in Proxies :
         /\ built[x] <= Evictions + 1
         /\ built[x] <= Evictions \/ Cached(x)

SessionsInv == PoolTyped /\ PoolSound /\ PagesSound

LEMMA FinitePages == IsFiniteSet(Pages)
  BY PlatformAssumption, Zenon DEF Pool!SessionsAssumption, Pool!IsFiniteSet, IsFiniteSet

LEMMA SessionBound == Pool!MaxBuilt = 2 * Cardinality(Pages) + 1
  <1>1. Pool!Cardinality(Pages) = Cardinality(Pages)
    BY Zenon DEF Pool!Cardinality, Cardinality
  <1> QED
    BY <1>1 DEF Pool!MaxBuilt

LEMMA EvictionsBound ==
    ASSUME NEW once \in SUBSET Pages, NEW twice \in SUBSET Pages
    PROVE  /\ Cardinality(once) \in Nat /\ Cardinality(twice) \in Nat
           /\ Cardinality(once) + Cardinality(twice) + 1 <= Pool!MaxBuilt
           /\ Pool!MaxBuilt \in Nat
  <1>1. Cardinality(Pages) \in Nat
    BY FinitePages, FS_CardinalityType
  <1>2. IsFiniteSet(once) /\ Cardinality(once) <= Cardinality(Pages)
    BY FinitePages, FS_Subset
  <1>3. IsFiniteSet(twice) /\ Cardinality(twice) <= Cardinality(Pages)
    BY FinitePages, FS_Subset
  <1>4. Cardinality(once) \in Nat /\ Cardinality(twice) \in Nat
    BY <1>2, <1>3, FS_CardinalityType
  <1> QED
    BY <1>1, <1>2, <1>3, <1>4, SessionBound

\* A session is a pair, so the absence of one is none.
LEMMA SessionPairs ==
    /\ \A s \in Pool!Sessions : s = <<s[1], s[2]>> /\ s[1] \in Proxies
                                /\ s[2] \in 1 .. Pool!MaxBuilt
    /\ \A x \in Proxies : \A n \in 1 .. Pool!MaxBuilt : <<x, n>> \in Pool!Sessions
    /\ Pool!NoSession \notin Pool!Sessions
  <1>1. Pool!NoSession \notin Pool!Sessions
    <2> SUFFICES ASSUME NEW x, NEW n PROVE <<x, n>> # <<>>
      BY DEF Pool!NoSession, Pool!Sessions
    <2> QED
      OBVIOUS
  <1> QED
    BY <1>1 DEF Pool!Sessions

\* Pages only get further, and so do the evictions.
LEMMA EvictionsGrow ==
    ASSUME PoolTyped, PoolTyped', EvictedOnce \subseteq EvictedOnce',
           EvictedTwice \subseteq EvictedTwice'
    PROVE  /\ Evictions \in Nat /\ Evictions' \in Nat /\ Evictions <= Evictions'
           /\ EvictedOnce # EvictedOnce' \/ EvictedTwice # EvictedTwice'
                => Evictions + 1 <= Evictions'
  <1>1. /\ IsFiniteSet(EvictedOnce) /\ IsFiniteSet(EvictedTwice)
        /\ IsFiniteSet(EvictedOnce') /\ IsFiniteSet(EvictedTwice')
    <2>1. /\ EvictedOnce \subseteq Pages /\ EvictedTwice \subseteq Pages
          /\ EvictedOnce' \subseteq Pages /\ EvictedTwice' \subseteq Pages
      BY DEF EvictedOnce, EvictedTwice
    <2> QED
      BY <2>1, FinitePages, FS_Subset
  <1>2. /\ Cardinality(EvictedOnce) \in Nat /\ Cardinality(EvictedTwice) \in Nat
        /\ Cardinality(EvictedOnce') \in Nat /\ Cardinality(EvictedTwice') \in Nat
    BY <1>1, FS_CardinalityType
  <1>3. /\ Cardinality(EvictedOnce) <= Cardinality(EvictedOnce')
        /\ Cardinality(EvictedOnce') = Cardinality(EvictedOnce) => EvictedOnce' = EvictedOnce
    BY <1>1, FS_Subset
  <1>4. /\ Cardinality(EvictedTwice) <= Cardinality(EvictedTwice')
        /\ Cardinality(EvictedTwice') = Cardinality(EvictedTwice)
             => EvictedTwice' = EvictedTwice
    BY <1>1, FS_Subset
  <1>5. /\ Evictions = Cardinality(EvictedOnce) + Cardinality(EvictedTwice)
        /\ Evictions' = Cardinality(EvictedOnce') + Cardinality(EvictedTwice')
    BY DEF Evictions
  <1> QED
    BY <1>2, <1>3, <1>4, <1>5

LEMMA SessionsInitInv == Pool!SessionsInit => SessionsInv
  <1> SUFFICES ASSUME Pool!SessionsInit PROVE SessionsInv
    OBVIOUS
  <1>1. /\ cycles = 0 /\ fetching = FALSE /\ page = [pg \in Pages |-> "done"]
        /\ lease = [pg \in Pages |-> Pool!NoSession] /\ avoid = [pg \in Pages |-> {}]
        /\ built = [x \in Proxies |-> 0] /\ current = {} /\ retired = {} /\ closed = {}
        /\ leases = [s \in Pool!Sessions |-> 0]
    BY DEF Pool!SessionsInit
  <1>2. PoolTyped
    BY <1>1 DEF PoolTyped, Pool!Stages
  <1>3. \A s \in Pool!Sessions : leases[s] = Cardinality(Borrowers(s))
    <2>1. \A s \in Pool!Sessions : Borrowers(s) = {}
      BY <1>1, SessionPairs DEF Borrowers
    <2> QED
      BY <1>1, <2>1, FS_EmptySet
  <1>4. PoolSound
    BY <1>1, <1>3 DEF PoolSound, EverBuilt
  <1>5. PagesSound
    BY <1>1 DEF PagesSound, Pool!Over, Borrowing
  <1> QED
    BY <1>2, <1>4, <1>5 DEF SessionsInv

LEMMA BorrowersFinite ==
    ASSUME NEW borrowers \in SUBSET Pages
    PROVE  /\ IsFiniteSet(borrowers) /\ Cardinality(borrowers) \in Nat
           /\ Cardinality(borrowers) = 0 <=> borrowers = {}
           /\ \A pg \in Pages \ borrowers :
                Cardinality(borrowers \cup {pg}) = Cardinality(borrowers) + 1
           /\ \A pg \in borrowers :
                Cardinality(borrowers \ {pg}) = Cardinality(borrowers) - 1
  <1>1. IsFiniteSet(borrowers)
    BY FinitePages, FS_Subset
  <1>2. Cardinality(borrowers) \in Nat
    BY <1>1, FS_CardinalityType
  <1>3. Cardinality(borrowers) = 0 <=> borrowers = {}
    BY <1>1, FS_EmptySet
  <1>4. \A pg \in Pages \ borrowers :
          Cardinality(borrowers \cup {pg}) = Cardinality(borrowers) + 1
    BY <1>1, FS_AddElement
  <1>5. \A pg \in borrowers : Cardinality(borrowers \ {pg}) = Cardinality(borrowers) - 1
    BY <1>1, FS_RemoveElement
  <1> QED
    BY <1>1, <1>2, <1>3, <1>4, <1>5

\* acquire_lease: the proxy's open session, or its next one.
LEMMA BorrowKeeps ==
    ASSUME PoolTyped, PoolSound, NEW pg \in Pages, lease[pg] = Pool!NoSession,
           NEW x \in Proxies, Pool!Borrow(pg, x), retired' = retired, closed' = closed,
           built[x] + 1 <= Pool!MaxBuilt \/ Cached(x)
    PROVE  /\ PoolSound'
           /\ lease' \in [Pages -> Pool!Sessions \cup {Pool!NoSession}]
           /\ leases' \in [Pool!Sessions -> Nat] /\ built' \in [Proxies -> Nat]
           /\ current' \subseteq Pool!Sessions
           /\ \A q \in Pages : lease'[q] # Pool!NoSession <=>
                                 q = pg \/ lease[q] # Pool!NoSession
           /\ Cached(x)' /\ \A y \in Proxies : Cached(y) => Cached(y)'
           /\ \A y \in Proxies : y # x => built'[y] = built[y]
           /\ built'[x] = (IF Cached(x) THEN built[x] ELSE built[x] + 1)
  <1> DEFINE cached == {s \in current : s[1] = x}
             s == IF cached = {} THEN <<x, built[x] + 1>> ELSE CHOOSE c \in cached : TRUE
  <1>1. /\ current' = current \cup {s}
        /\ built' = [built EXCEPT ![x] = IF cached = {} THEN built[x] + 1 ELSE built[x]]
        /\ leases' = [leases EXCEPT ![s] = leases[s] + 1]
        /\ lease' = [lease EXCEPT ![pg] = s]
    BY DEF Pool!Borrow
  <1>2. /\ lease \in [Pages -> Pool!Sessions \cup {Pool!NoSession}]
        /\ built \in [Proxies -> Nat] /\ leases \in [Pool!Sessions -> Nat]
        /\ current \subseteq Pool!Sessions /\ retired \subseteq Pool!Sessions
        /\ closed \subseteq Pool!Sessions /\ EverBuilt \subseteq Pool!Sessions
    BY DEF PoolTyped, EverBuilt
  <1>3. cached = {} => /\ s = <<x, built[x] + 1>> /\ s \in Pool!Sessions /\ s \notin EverBuilt
                       /\ s[1] = x /\ s[2] = built[x] + 1
    <2> SUFFICES ASSUME cached = {}
                 PROVE  /\ s = <<x, built[x] + 1>> /\ s \in Pool!Sessions /\ s \notin EverBuilt
                        /\ s[1] = x /\ s[2] = built[x] + 1
      OBVIOUS
    <2>1. s = <<x, built[x] + 1>> /\ s[1] = x /\ s[2] = built[x] + 1
      OBVIOUS
    <2>2. built[x] + 1 \in 1 .. Pool!MaxBuilt
      <3>1. Pool!MaxBuilt \in Nat /\ ~Cached(x)
        BY EvictionsBound DEF Cached
      <3> QED
        BY <1>2, <3>1
    <2>3. s \notin EverBuilt
      BY <1>2, <2>1 DEF PoolSound
    <2> QED
      BY <2>1, <2>2, <2>3, SessionPairs
  <1>4. cached # {} => s \in current /\ s \in Pool!Sessions /\ s[1] = x
    BY <1>2
  <1>5. cached = {} <=> ~Cached(x)
    BY DEF Cached
  <1> HIDE DEF s, cached
  <1>6. s \in Pool!Sessions /\ s # Pool!NoSession /\ s \notin retired \cup closed
    BY <1>3, <1>4, SessionPairs DEF PoolSound, EverBuilt
  <1>7. /\ lease'[pg] = s /\ \A q \in Pages \ {pg} : lease'[q] = lease[q]
        /\ leases'[s] = leases[s] + 1
        /\ \A t \in Pool!Sessions \ {s} : leases'[t] = leases[t]
        /\ built'[x] = (IF cached = {} THEN built[x] + 1 ELSE built[x])
        /\ \A y \in Proxies \ {x} : built'[y] = built[y]
    BY <1>1, <1>2, <1>6
  <1>8. \A t \in Pool!Sessions : leases'[t] = Cardinality(Borrowers(t)')
    <2> SUFFICES ASSUME NEW t \in Pool!Sessions PROVE leases'[t] = Cardinality(Borrowers(t)')
      OBVIOUS
    <2>1. leases[t] = Cardinality(Borrowers(t)) /\ Borrowers(t) \subseteq Pages
      BY DEF PoolSound, Borrowers
    <2>2. CASE t = s
      <3>1. Borrowers(t)' = Borrowers(t) \cup {pg} /\ pg \notin Borrowers(t)
        BY <1>6, <1>7, <2>2 DEF Borrowers
      <3> QED
        BY <1>7, <2>1, <2>2, <3>1, BorrowersFinite
    <2>3. CASE t # s
      <3>1. Borrowers(t)' = Borrowers(t)
        BY <1>7, <2>3, SessionPairs DEF Borrowers
      <3> QED
        BY <1>7, <2>1, <2>3, <3>1
    <2> QED
      BY <2>2, <2>3
  <1>9. PoolSound'
    <2>1. /\ current' \cap retired' = {} /\ closed' \cap (current' \cup retired') = {}
          /\ EverBuilt' = EverBuilt \cup {s}
      BY <1>1, <1>6 DEF PoolSound, EverBuilt
    <2>2. \A t, u \in current' : t[1] = u[1] => t = u
      BY <1>1, <1>3, <1>4, <1>5 DEF PoolSound, Cached
    <2>3. \A t \in EverBuilt' : t[2] <= built'[t[1]]
      <3> SUFFICES ASSUME NEW t \in EverBuilt' PROVE t[2] <= built'[t[1]]
        OBVIOUS
      <3>1. CASE t \in EverBuilt
        <4>1. t[2] <= built[t[1]] /\ t[1] \in Proxies /\ t[2] \in Nat
          BY <1>2, <3>1, SessionPairs DEF PoolSound
        <4> QED
          BY <1>2, <1>7, <4>1
      <3>2. CASE t = s /\ t \notin EverBuilt
        BY <1>2, <1>3, <1>4, <1>7, <3>2 DEF EverBuilt
      <3> QED
        BY <2>1, <3>1, <3>2
    <2>4. \A y \in Proxies : \A n \in 1 .. built'[y] : <<y, n>> \in EverBuilt'
      <3> SUFFICES ASSUME NEW y \in Proxies, NEW n \in 1 .. built'[y]
                   PROVE  <<y, n>> \in EverBuilt'
        OBVIOUS
      <3>1. CASE n \in 1 .. built[y]
        BY <2>1, <3>1 DEF PoolSound
      <3>2. CASE n \notin 1 .. built[y]
        <4>1. y = x /\ cached = {} /\ n = built[x] + 1
          BY <1>2, <1>7, <3>2
        <4> QED
          BY <1>3, <2>1, <4>1
      <3> QED
        BY <3>1, <3>2
    <2>5. \A q \in Pages : lease'[q] \in current' \cup retired' \cup {Pool!NoSession}
      BY <1>1, <1>7 DEF PoolSound
    <2>6. \A t \in retired' : \E q \in Pages : lease'[q] = t
      <3> SUFFICES ASSUME NEW t \in retired PROVE \E q \in Pages : lease'[q] = t
        OBVIOUS
      <3>1. PICK q \in Pages : lease[q] = t
        BY DEF PoolSound
      <3>2. q # pg
        BY <1>2, <3>1, SessionPairs
      <3> QED
        BY <1>7, <3>1, <3>2
    <2> QED
      BY <1>8, <2>1, <2>2, <2>3, <2>4, <2>5, <2>6 DEF PoolSound
  <1>10. /\ lease' \in [Pages -> Pool!Sessions \cup {Pool!NoSession}]
         /\ leases' \in [Pool!Sessions -> Nat] /\ built' \in [Proxies -> Nat]
         /\ current' \subseteq Pool!Sessions
    BY <1>1, <1>2, <1>6
  <1>11. Cached(x)' /\ \A y \in Proxies : Cached(y) => Cached(y)'
    BY <1>1, <1>3, <1>4 DEF Cached
  <1> QED
    BY <1>1, <1>5, <1>6, <1>7, <1>9, <1>10, <1>11

\* release, and evict before it: a session that leaves the pool waits for its last borrower.
LEMMA ReturnKeeps ==
    ASSUME PoolTyped, PoolSound, NEW pg \in Pages, lease[pg] # Pool!NoSession,
           NEW s, s = lease[pg], NEW out \in SUBSET (current \cap {s}),
           Pool!Released(s, retired \cup out),
           current' = current \ out, built' = built,
           lease' = [lease EXCEPT ![pg] = Pool!NoSession]
    PROVE  /\ PoolSound'
           /\ lease' \in [Pages -> Pool!Sessions \cup {Pool!NoSession}]
           /\ leases' \in [Pool!Sessions -> Nat] /\ built' \in [Proxies -> Nat]
           /\ current' \subseteq Pool!Sessions /\ retired' \subseteq Pool!Sessions
           /\ closed' \subseteq Pool!Sessions
           /\ \A q \in Pages : lease'[q] # Pool!NoSession <=>
                                 q # pg /\ lease[q] # Pool!NoSession
  <1>1. /\ leases' = [leases EXCEPT ![s] = IF leases[s] = 0 THEN 0 ELSE leases[s] - 1]
        /\ retired' = IF leases[s] <= 1 THEN (retired \cup out) \ {s} ELSE retired \cup out
        /\ closed' = IF leases[s] <= 1 /\ s \in retired \cup out THEN closed \cup {s}
                     ELSE closed
    BY DEF Pool!Released
  <1>2. /\ lease \in [Pages -> Pool!Sessions \cup {Pool!NoSession}]
        /\ built \in [Proxies -> Nat] /\ leases \in [Pool!Sessions -> Nat]
        /\ current \subseteq Pool!Sessions /\ retired \subseteq Pool!Sessions
        /\ closed \subseteq Pool!Sessions
    BY DEF PoolTyped
  <1>3. s \in Pool!Sessions /\ s \in current \cup retired /\ out \subseteq {s}
        /\ out \subseteq current
    BY <1>2 DEF PoolSound
  <1>4. /\ lease'[pg] = Pool!NoSession /\ \A q \in Pages \ {pg} : lease'[q] = lease[q]
    BY <1>2
  <1>5. /\ leases[s] = Cardinality(Borrowers(s)) /\ Borrowers(s) \subseteq Pages
        /\ pg \in Borrowers(s) /\ Borrowers(s)' = Borrowers(s) \ {pg}
        /\ leases[s] \in Nat /\ leases[s] # 0
        /\ Cardinality(Borrowers(s)') = leases[s] - 1
        /\ Cardinality(Borrowers(s)') = 0 <=> Borrowers(s)' = {}
    <2>1. /\ leases[s] = Cardinality(Borrowers(s)) /\ Borrowers(s) \subseteq Pages
          /\ pg \in Borrowers(s)
      BY <1>3 DEF PoolSound, Borrowers
    <2>2. Borrowers(s)' = {q \in Pages : lease'[q] = s}
      BY DEF Borrowers
    <2>3. Borrowers(s)' = Borrowers(s) \ {pg}
      BY <1>3, <1>4, <2>2, SessionPairs DEF Borrowers
    <2>4. Borrowers(s) \ {pg} \subseteq Pages
      BY <2>1
    <2>5. /\ Cardinality(Borrowers(s)) \in Nat
          /\ Cardinality(Borrowers(s)) = 0 <=> Borrowers(s) = {}
          /\ Cardinality(Borrowers(s) \ {pg}) = Cardinality(Borrowers(s)) - 1
      BY <2>1, BorrowersFinite
    <2>6. Cardinality(Borrowers(s) \ {pg}) = 0 <=> Borrowers(s) \ {pg} = {}
      BY <2>4, BorrowersFinite
    <2> QED
      BY <2>1, <2>3, <2>5, <2>6
  <1>6. /\ leases[s] <= 1 => Borrowers(s)' = {}
        /\ ~(leases[s] <= 1) => Borrowers(s)' # {}
        /\ leases'[s] = leases[s] - 1
        /\ \A t \in Pool!Sessions \ {s} : leases'[t] = leases[t]
    BY <1>1, <1>2, <1>3, <1>5
  <1>7. \A t \in Pool!Sessions : leases'[t] = Cardinality(Borrowers(t)')
    <2> SUFFICES ASSUME NEW t \in Pool!Sessions, t # s
                 PROVE  leases'[t] = Cardinality(Borrowers(t)')
      BY <1>5, <1>6
    <2>1. Borrowers(t)' = Borrowers(t)
      BY <1>4, SessionPairs DEF Borrowers
    <2> QED
      BY <1>6, <2>1 DEF PoolSound
  <1>8. /\ current' \cap retired' = {} /\ closed' \cap (current' \cup retired') = {}
        /\ EverBuilt' = EverBuilt
    BY <1>1, <1>3 DEF PoolSound, EverBuilt
  <1>9. \A q \in Pages : lease'[q] \in current' \cup retired' \cup {Pool!NoSession}
    <2> SUFFICES ASSUME NEW q \in Pages, q # pg, lease[q] # Pool!NoSession
                 PROVE  lease[q] \in current' \cup retired'
      BY <1>4
    <2>1. lease[q] \in current \cup retired
      BY DEF PoolSound
    <2>2. CASE lease[q] = s
      <3>1. ~(leases[s] <= 1)
        BY <1>4, <1>6, <2>2 DEF Borrowers
      <3> QED
        BY <1>1, <2>1, <2>2, <3>1
    <2>3. CASE lease[q] # s
      BY <1>1, <1>3, <2>1, <2>3
    <2> QED
      BY <2>2, <2>3
  <1>10. \A t \in retired' : \E q \in Pages : lease'[q] = t
    <2> SUFFICES ASSUME NEW t \in retired' PROVE \E q \in Pages : lease'[q] = t
      OBVIOUS
    <2>1. CASE t = s
      <3>1. Borrowers(s)' # {}
        BY <1>1, <1>6, <2>1
      <3> QED
        BY <2>1, <3>1 DEF Borrowers
    <2>2. CASE t # s
      <3>1. PICK q \in Pages : lease[q] = t
        BY <1>1, <1>3, <2>2 DEF PoolSound
      <3> QED
        BY <1>4, <2>2, <3>1
    <2> QED
      BY <2>1, <2>2
  <1>11. PoolSound'
    <2>1. \A t, u \in current' : t[1] = u[1] => t = u
      BY DEF PoolSound
    <2>2. \A t \in EverBuilt' : t[2] <= built'[t[1]]
      BY <1>8 DEF PoolSound
    <2>3. \A y \in Proxies : \A n \in 1 .. built'[y] : <<y, n>> \in EverBuilt'
      BY <1>8 DEF PoolSound
    <2> QED
      BY <1>7, <1>8, <1>9, <1>10, <2>1, <2>2, <2>3 DEF PoolSound
  <1>12. leases' \in [Pool!Sessions -> Nat]
    BY <1>1, <1>2, <1>3, <1>5
  <1>13. retired' \subseteq Pool!Sessions /\ closed' \subseteq Pool!Sessions
    BY <1>1, <1>2, <1>3
  <1> QED
    BY <1>2, <1>4, <1>11, <1>12, <1>13

\* A page's task moves on, and with it at most its own lease.
LEMMA PageMoves ==
    ASSUME SessionsInv, PoolTyped', PoolSound', NEW pg \in Pages, NEW stage \in Pool!Stages,
           ~Pool!Over(pg), page' = [page EXCEPT ![pg] = stage],
           cycles' = cycles, fetching' = fetching, complete' = complete,
           pg \in EvictedOnce => stage \notin {"queued", "fetching", "pausing"},
           \A q \in Pages : lease'[q] # Pool!NoSession <=>
             IF q = pg THEN stage \in Borrowing ELSE lease[q] # Pool!NoSession,
           \A x \in Proxies :
             /\ built'[x] <= built[x] \/ (built'[x] = built[x] + 1 /\ built[x] <= Evictions)
             /\ Cached(x)' \/ ~Cached(x) \/ Evictions + 1 <= Evictions'
             /\ built'[x] = built[x] + 1 => Cached(x)'
    PROVE  SessionsInv'
  <1>1. /\ fetching /\ ~complete /\ cycles > 0
        /\ page \in [Pages -> Pool!Stages] /\ page'[pg] = stage
        /\ \A q \in Pages \ {pg} : page'[q] = page[q]
    BY DEF SessionsInv, PagesSound, PoolTyped
  <1>2. EvictedOnce \subseteq EvictedOnce' /\ EvictedTwice \subseteq EvictedTwice'
    <2>1. pg \notin EvictedTwice
      BY DEF EvictedTwice, Pool!Over
    <2> QED
      BY <1>1, <2>1 DEF EvictedOnce, EvictedTwice
  <1>3. Evictions \in Nat /\ Evictions' \in Nat /\ Evictions <= Evictions'
    BY <1>2, EvictionsGrow DEF SessionsInv
  <1>4. \A x \in Proxies :
          /\ built'[x] <= Evictions' + 1
          /\ built'[x] <= Evictions' \/ Cached(x)'
    <2> SUFFICES ASSUME NEW x \in Proxies
                 PROVE  /\ built'[x] <= Evictions' + 1
                        /\ built'[x] <= Evictions' \/ Cached(x)'
      OBVIOUS
    <2>1. /\ built[x] <= Evictions + 1
          /\ built[x] <= Evictions \/ Cached(x)
          /\ built[x] \in Nat /\ built'[x] \in Nat
      BY <1>1 DEF SessionsInv, PagesSound, PoolTyped
    <2>2. /\ built'[x] <= built[x] \/ (built'[x] = built[x] + 1 /\ built[x] <= Evictions)
          /\ Cached(x)' \/ ~Cached(x) \/ Evictions + 1 <= Evictions'
          /\ built'[x] = built[x] + 1 => Cached(x)'
      OBVIOUS
    <2> QED
      BY <1>3, <2>1, <2>2
  <1>5. \A q \in Pages : lease'[q] # Pool!NoSession <=> page'[q] \in Borrowing
    BY <1>1 DEF SessionsInv, PagesSound
  <1>6. PagesSound'
    BY <1>1, <1>4, <1>5 DEF PagesSound
  <1> QED
    BY <1>6 DEF SessionsInv

\* A page that needs a session has none, and its proxy has not built too many.
LEMMA BorrowMoves ==
    ASSUME SessionsInv, NEW pg \in Pages, NEW x \in Proxies, Pool!Borrow(pg, x), fetching,
           page[pg] \in {"queued", "rotating"}, NEW stage \in {"fetching", "retrying"},
           page[pg] = "rotating" => stage = "retrying",
           page' = [page EXCEPT ![pg] = stage], cycles' = cycles, fetching' = fetching,
           retired' = retired, closed' = closed, complete' = complete
    PROVE  SessionsInv'
  <1>1. PoolTyped /\ PoolSound /\ PagesSound
    BY DEF SessionsInv
  <1>2. lease[pg] = Pool!NoSession
    BY <1>1 DEF PagesSound, Borrowing
  <1>3. built[x] + 1 <= Pool!MaxBuilt \/ Cached(x)
    <2> SUFFICES ASSUME ~Cached(x) PROVE built[x] + 1 <= Pool!MaxBuilt
      OBVIOUS
    <2>1. built[x] <= Evictions /\ built[x] \in Nat
      BY <1>1 DEF PagesSound, PoolTyped
    <2>2. EvictedOnce \subseteq Pages /\ EvictedTwice \subseteq Pages
      BY DEF EvictedOnce, EvictedTwice
    <2>3. /\ Cardinality(EvictedOnce) \in Nat /\ Cardinality(EvictedTwice) \in Nat
          /\ Evictions + 1 <= Pool!MaxBuilt /\ Pool!MaxBuilt \in Nat
      BY <2>2, EvictionsBound DEF Evictions
    <2> QED
      BY <2>1, <2>3 DEF Evictions
  <1>4. /\ PoolSound'
        /\ lease' \in [Pages -> Pool!Sessions \cup {Pool!NoSession}]
        /\ leases' \in [Pool!Sessions -> Nat] /\ built' \in [Proxies -> Nat]
        /\ current' \subseteq Pool!Sessions
        /\ \A q \in Pages : lease'[q] # Pool!NoSession <=> q = pg \/ lease[q] # Pool!NoSession
        /\ Cached(x)' /\ \A y \in Proxies : Cached(y) => Cached(y)'
        /\ \A y \in Proxies : y # x => built'[y] = built[y]
        /\ built'[x] = (IF Cached(x) THEN built[x] ELSE built[x] + 1)
    BY <1>1, <1>2, <1>3, BorrowKeeps
  <1>5. stage \in Pool!Stages /\ stage \in Borrowing /\ ~Pool!Over(pg)
    BY DEF Pool!Stages, Borrowing, Pool!Over
  <1>6. PoolTyped'
    BY <1>1, <1>4, <1>5 DEF PoolTyped
  <1>7. pg \in EvictedOnce => stage \notin {"queued", "fetching", "pausing"}
    BY DEF EvictedOnce
  <1>8. \A q \in Pages : lease'[q] # Pool!NoSession <=>
          IF q = pg THEN stage \in Borrowing ELSE lease[q] # Pool!NoSession
    BY <1>4, <1>5
  <1>9. \A y \in Proxies :
          /\ built'[y] <= built[y] \/ (built'[y] = built[y] + 1 /\ built[y] <= Evictions)
          /\ Cached(y)' \/ ~Cached(y) \/ Evictions + 1 <= Evictions'
          /\ built'[y] = built[y] + 1 => Cached(y)'
    <2> SUFFICES ASSUME NEW y \in Proxies
                 PROVE  /\ built'[y] <= built[y]
                             \/ (built'[y] = built[y] + 1 /\ built[y] <= Evictions)
                        /\ Cached(y)' \/ ~Cached(y)
                        /\ built'[y] = built[y] + 1 => Cached(y)'
      OBVIOUS
    <2>1. /\ built[y] <= Evictions \/ Cached(y)
          /\ built[y] \in Nat
      BY <1>1 DEF PagesSound, PoolTyped
    <2> QED
      BY <1>4, <2>1
  <1> QED
    BY <1>5, <1>6, <1>7, <1>8, <1>9, <1>4, PageMoves

\* A page that gives its session back is over, or evicts it for a retry.
LEMMA ReturnMoves ==
    ASSUME SessionsInv, NEW pg \in Pages, lease[pg] # Pool!NoSession,
           NEW out \in SUBSET (current \cap {lease[pg]}),
           Pool!Released(lease[pg], retired \cup out),
           current' = current \ out, built' = built,
           lease' = [lease EXCEPT ![pg] = Pool!NoSession],
           NEW stage \in {"rotating", "done", "failed"}, page' = [page EXCEPT ![pg] = stage],
           out = {} \/ page[pg] = "pausing" \/ stage = "failed",
           cycles' = cycles, fetching' = fetching, complete' = complete
    PROVE  SessionsInv'
  <1>1. PoolTyped /\ PoolSound /\ PagesSound
    BY DEF SessionsInv
  <1>2. /\ PoolSound'
        /\ lease' \in [Pages -> Pool!Sessions \cup {Pool!NoSession}]
        /\ leases' \in [Pool!Sessions -> Nat] /\ built' \in [Proxies -> Nat]
        /\ current' \subseteq Pool!Sessions /\ retired' \subseteq Pool!Sessions
        /\ closed' \subseteq Pool!Sessions
        /\ \A q \in Pages : lease'[q] # Pool!NoSession <=> q # pg /\ lease[q] # Pool!NoSession
    BY <1>1, ReturnKeeps
  <1>3. /\ stage \in Pool!Stages /\ stage \notin Borrowing /\ ~Pool!Over(pg)
        /\ page[pg] \in Borrowing
    BY <1>1 DEF Pool!Stages, Borrowing, Pool!Over, PagesSound
  <1>4. PoolTyped'
    BY <1>1, <1>2, <1>3 DEF PoolTyped
  <1>5. \A q \in Pages : lease'[q] # Pool!NoSession <=>
          IF q = pg THEN stage \in Borrowing ELSE lease[q] # Pool!NoSession
    BY <1>2, <1>3
  <1>6. out = {} \/ Evictions + 1 <= Evictions'
    <2> SUFFICES ASSUME out # {} PROVE Evictions + 1 <= Evictions'
      OBVIOUS
    <2>1. /\ page'[pg] = stage /\ \A q \in Pages \ {pg} : page'[q] = page[q]
          /\ page[pg] \notin {"done", "failed"}
      BY <1>1, <1>3 DEF PoolTyped, Pool!Over
    <2>2. EvictedOnce \subseteq EvictedOnce' /\ EvictedTwice \subseteq EvictedTwice'
      BY <2>1 DEF EvictedOnce, EvictedTwice
    <2>3. \/ pg \in EvictedOnce' /\ pg \notin EvictedOnce
          \/ pg \in EvictedTwice' /\ pg \notin EvictedTwice
      BY <2>1 DEF EvictedOnce, EvictedTwice
    <2> QED
      BY <1>1, <1>4, <2>2, <2>3, EvictionsGrow
  <1>7. \A x \in Proxies :
          /\ built'[x] <= built[x] \/ (built'[x] = built[x] + 1 /\ built[x] <= Evictions)
          /\ Cached(x)' \/ ~Cached(x) \/ Evictions + 1 <= Evictions'
          /\ built'[x] = built[x] + 1 => Cached(x)'
    <2>1. \A x \in Proxies : built[x] \in Nat /\ built'[x] = built[x]
      BY <1>1 DEF PoolTyped
    <2>2. CASE out = {}
      <3>1. \A x \in Proxies : Cached(x)' <=> Cached(x)
        BY <2>2 DEF Cached
      <3> QED
        BY <2>1, <3>1
    <2>3. CASE Evictions + 1 <= Evictions'
      BY <2>1, <2>3
    <2> QED
      BY <1>6, <2>2, <2>3
  <1>8. pg \in EvictedOnce => stage \notin {"queued", "fetching", "pausing"}
    OBVIOUS
  <1> QED
    BY <1>2, <1>3, <1>4, <1>5, <1>7, <1>8, PageMoves

LEMMA BeginInv == ASSUME SessionsInv, Pool!Begin PROVE SessionsInv'
  <1>1. /\ ~fetching /\ cycles' = cycles + 1 /\ page' = [pg \in Pages |-> "queued"]
        /\ built' = [x \in Proxies |-> 0] /\ closed' = {} /\ ~complete'
        /\ lease' = lease /\ current' = current /\ leases' = leases /\ retired' = retired
    BY DEF Pool!Begin
  <1>2. /\ PoolTyped /\ PoolSound /\ current = {} /\ retired = {}
        /\ \A pg \in Pages : lease[pg] = Pool!NoSession
    <2>1. PoolTyped /\ PoolSound /\ PagesSound
      BY DEF SessionsInv
    <2>2. current = {} /\ retired = {} /\ \A pg \in Pages : Pool!Over(pg)
      BY <1>1, <2>1 DEF PagesSound
    <2>3. \A pg \in Pages : page[pg] \notin Borrowing
      BY <2>2 DEF Pool!Over, Borrowing
    <2> QED
      BY <2>1, <2>2, <2>3 DEF PagesSound
  <1>3. PoolTyped'
    <2>1. /\ cycles' \in Nat /\ current' \subseteq Pool!Sessions
          /\ retired' \subseteq Pool!Sessions /\ closed' \subseteq Pool!Sessions
          /\ lease' \in [Pages -> Pool!Sessions \cup {Pool!NoSession}]
          /\ leases' \in [Pool!Sessions -> Nat]
      BY <1>1, <1>2 DEF PoolTyped
    <2>2. page' \in [Pages -> Pool!Stages]
      BY <1>1 DEF Pool!Stages
    <2>3. built' \in [Proxies -> Nat]
      BY <1>1
    <2> QED
      BY <2>1, <2>2, <2>3 DEF PoolTyped
  <1>4. PoolSound'
    <2>1. \A s \in Pool!Sessions : Borrowers(s)' = Borrowers(s)
      BY <1>1 DEF Borrowers
    <2> QED
      BY <1>1, <1>2, <2>1 DEF PoolSound, EverBuilt
  <1>5. Evictions' \in Nat
    <2>1. EvictedOnce' \subseteq Pages /\ EvictedTwice' \subseteq Pages
      BY DEF EvictedOnce, EvictedTwice
    <2> QED
      BY <2>1, EvictionsBound DEF Evictions
  <1>6. PagesSound'
    <2>1. cycles' > 0
      BY <1>1, <1>2 DEF PoolTyped
    <2>2. fetching'
      BY DEF Pool!Begin
    <2>3. \A pg \in Pages : lease'[pg] # Pool!NoSession <=> page'[pg] \in Borrowing
      BY <1>1, <1>2 DEF Borrowing
    <2>4. \A x \in Proxies : built'[x] <= Evictions' /\ built'[x] <= Evictions' + 1
      <3>1. \A x \in Proxies : built'[x] = 0
        BY <1>1
      <3> QED
        BY <1>5, <3>1
    <2> QED
      BY <1>1, <2>1, <2>2, <2>3, <2>4 DEF PagesSound
  <1> QED
    BY <1>3, <1>4, <1>6 DEF SessionsInv

LEMMA EndInv == ASSUME SessionsInv, Pool!End PROVE SessionsInv'
  <1>1. /\ fetching /\ ~fetching' /\ \A pg \in Pages : Pool!Over(pg)
        /\ complete' => \A pg \in Pages : page[pg] = "done"
        /\ closed' = closed \cup current \cup retired /\ current' = {} /\ retired' = {}
        /\ leases' = [s \in Pool!Sessions |-> 0]
        /\ cycles' = cycles /\ page' = page /\ lease' = lease /\ built' = built
    BY DEF Pool!End
  <1>2. /\ PoolTyped /\ PoolSound /\ cycles > 0
        /\ \A pg \in Pages : lease[pg] = Pool!NoSession
    BY <1>1 DEF SessionsInv, PagesSound, Pool!Over, Borrowing
  <1>3. PoolTyped'
    BY <1>1, <1>2 DEF PoolTyped
  <1>4. PoolSound'
    <2>1. \A s \in Pool!Sessions : leases'[s] = Cardinality(Borrowers(s)')
      <3>1. \A s \in Pool!Sessions : Borrowers(s)' = {}
        BY <1>1, <1>2, SessionPairs DEF Borrowers
      <3> QED
        BY <1>1, <3>1, FS_EmptySet
    <2>2. EverBuilt' = EverBuilt
      BY <1>1 DEF EverBuilt
    <2> QED
      BY <1>1, <1>2, <2>1, <2>2 DEF PoolSound
  <1>5. PagesSound'
    BY <1>1, <1>2 DEF PagesSound, SessionsInv, Pool!Over
  <1> QED
    BY <1>3, <1>4, <1>5 DEF SessionsInv

\* A page's task that touches no session.
LEMMA PoolStands ==
    ASSUME PoolTyped, PoolSound, lease' = lease, built' = built, current' = current,
           leases' = leases, retired' = retired, closed' = closed
    PROVE  PoolSound' /\ \A x : Cached(x)' <=> Cached(x)
  <1>1. \A s : Borrowers(s)' = Borrowers(s)
    BY DEF Borrowers
  <1>2. EverBuilt' = EverBuilt
    BY DEF EverBuilt
  <1> QED
    BY <1>1, <1>2 DEF PoolSound, Cached

LEMMA IdleMoves ==
    ASSUME SessionsInv, NEW pg \in Pages, ~Pool!Over(pg), NEW stage \in Pool!Stages,
           page' = [page EXCEPT ![pg] = stage],
           stage \in Borrowing <=> page[pg] \in Borrowing,
           pg \in EvictedOnce => stage \notin {"queued", "fetching", "pausing"},
           cycles' = cycles, fetching' = fetching, complete' = complete,
           lease' = lease, built' = built, current' = current,
           leases' = leases, retired' = retired, closed' = closed
    PROVE  SessionsInv'
  <1>1. PoolTyped /\ PoolSound /\ PagesSound
    BY DEF SessionsInv
  <1>2. PoolSound' /\ \A x : Cached(x)' <=> Cached(x)
    BY <1>1, PoolStands
  <1>3. PoolTyped'
    BY <1>1 DEF PoolTyped
  <1>4. \A q \in Pages : lease'[q] # Pool!NoSession <=>
          IF q = pg THEN stage \in Borrowing ELSE lease[q] # Pool!NoSession
    BY <1>1 DEF PagesSound
  <1>5. \A x \in Proxies :
          /\ built'[x] <= built[x] \/ (built'[x] = built[x] + 1 /\ built[x] <= Evictions)
          /\ Cached(x)' \/ ~Cached(x) \/ Evictions + 1 <= Evictions'
          /\ built'[x] = built[x] + 1 => Cached(x)'
    BY <1>1, <1>2 DEF PoolTyped
  <1> QED
    BY <1>2, <1>3, <1>4, <1>5, PageMoves

\* Nothing moves but the flag of a cancellation.
LEMMA FetchStands ==
    ASSUME SessionsInv, cycles' = cycles, fetching' = fetching, page' = page,
           lease' = lease, built' = built, current' = current, leases' = leases,
           retired' = retired, closed' = closed, complete' = complete
    PROVE  SessionsInv'
  <1>1. PoolTyped /\ PoolSound /\ PagesSound
    BY DEF SessionsInv
  <1>2. PoolSound' /\ \A x : Cached(x)' <=> Cached(x)
    BY <1>1, PoolStands
  <1>3. PoolTyped'
    BY <1>1 DEF PoolTyped
  <1>4. Evictions' = Evictions
    BY DEF Evictions, EvictedOnce, EvictedTwice
  <1>5. PagesSound'
    BY <1>1, <1>2, <1>4 DEF PagesSound, Pool!Over
  <1> QED
    BY <1>2, <1>3, <1>5 DEF SessionsInv

LEMMA LeasedPage ==
    ASSUME SessionsInv, NEW pg \in Pages
    PROVE  /\ lease[pg] # Pool!NoSession <=> page[pg] \in Borrowing
           /\ ~Pool!Over(pg) => fetching
           /\ retired \cup {} = retired /\ current \ {} = current
           /\ current \ (current \cap {lease[pg]}) = current \ {lease[pg]}
  BY DEF SessionsInv, PagesSound

LEMMA SessionsNextInv ==
    ASSUME SessionsInv, Pool!SessionsNext PROVE SessionsInv'
  <1>1. CASE Pool!Cancel
    BY <1>1, FetchStands DEF Pool!Cancel
  <1>2. ASSUME NEW pg \in Pages, Pool!Fetch(pg) PROVE SessionsInv'
    <2>1. PICK x \in Proxies : Pool!Borrow(pg, x)
      BY <1>2 DEF Pool!Fetch
    <2> QED
      BY <1>2, <2>1, BorrowMoves DEF Pool!Fetch, Pool!Turn
  <1>3. ASSUME NEW pg \in Pages, Pool!Retry(pg) PROVE SessionsInv'
    <2>1. PICK x \in Proxies : Pool!Borrow(pg, x)
      BY <1>3 DEF Pool!Retry
    <2>2. fetching
      BY <1>3, LeasedPage DEF Pool!Retry, Pool!Turn, Pool!Over
    <2> QED
      BY <1>3, <2>1, <2>2, BorrowMoves DEF Pool!Retry, Pool!Turn
  <1>4. ASSUME NEW pg \in Pages, Pool!Fetched(pg) PROVE SessionsInv'
    <2>1. /\ page[pg] \in Borrowing /\ page' = [page EXCEPT ![pg] = "done"]
          /\ Pool!Return(pg) /\ built' = built /\ current' = current
          /\ cycles' = cycles /\ fetching' = fetching /\ complete' = complete
      BY <1>4 DEF Pool!Fetched, Pool!Turn, Borrowing
    <2> QED
      BY <2>1, LeasedPage, ReturnMoves, {} \in SUBSET (current \cap {lease[pg]})
      DEF Pool!Return
  <1>5. ASSUME NEW pg \in Pages, Pool!FailsForGood(pg) PROVE SessionsInv'
    <2>1. /\ page[pg] \in Borrowing /\ page' = [page EXCEPT ![pg] = "failed"]
          /\ Pool!Return(pg) /\ built' = built /\ current' = current
          /\ cycles' = cycles /\ fetching' = fetching /\ complete' = complete
      BY <1>5 DEF Pool!FailsForGood, Pool!Turn, Borrowing
    <2> QED
      BY <2>1, LeasedPage, ReturnMoves, {} \in SUBSET (current \cap {lease[pg]})
      DEF Pool!Return
  <1>6. ASSUME NEW pg \in Pages, Pool!FailsOnce(pg) PROVE SessionsInv'
    <2>1. /\ page[pg] = "fetching" /\ page' = [page EXCEPT ![pg] = "pausing"]
          /\ ~Pool!Over(pg) /\ pg \notin EvictedOnce
      BY <1>6 DEF Pool!FailsOnce, Pool!Turn, Pool!Over, EvictedOnce
    <2>2. "pausing" \in Pool!Stages /\ "pausing" \in Borrowing /\ page[pg] \in Borrowing
      BY <2>1 DEF Pool!Stages, Borrowing
    <2> QED
      BY <1>6, <2>1, <2>2, IdleMoves DEF Pool!FailsOnce
  <1>7. ASSUME NEW pg \in Pages, Pool!Evict(pg) PROVE SessionsInv'
    <2>1. /\ page[pg] = "pausing" /\ page' = [page EXCEPT ![pg] = "rotating"]
          /\ page[pg] \in Borrowing /\ Pool!EvictAndReturn(pg) /\ built' = built
          /\ cycles' = cycles /\ fetching' = fetching /\ complete' = complete
      BY <1>7 DEF Pool!Evict, Pool!Turn, Borrowing
    <2> QED
      BY <2>1, LeasedPage, ReturnMoves,
         current \cap {lease[pg]} \in SUBSET (current \cap {lease[pg]})
      DEF Pool!EvictAndReturn
  <1>8. ASSUME NEW pg \in Pages, Pool!FailsAgain(pg) PROVE SessionsInv'
    <2>1. /\ page[pg] = "retrying" /\ page' = [page EXCEPT ![pg] = "failed"]
          /\ page[pg] \in Borrowing /\ Pool!EvictAndReturn(pg) /\ built' = built
          /\ cycles' = cycles /\ fetching' = fetching /\ complete' = complete
      BY <1>8 DEF Pool!FailsAgain, Pool!Turn, Borrowing
    <2> QED
      BY <2>1, LeasedPage, ReturnMoves,
         current \cap {lease[pg]} \in SUBSET (current \cap {lease[pg]})
      DEF Pool!EvictAndReturn
  <1>9. ASSUME NEW pg \in Pages, Pool!Unwind(pg) PROVE SessionsInv'
    <2>1. /\ ~Pool!Over(pg) /\ page' = [page EXCEPT ![pg] = "failed"]
          /\ cycles' = cycles /\ fetching' = fetching /\ complete' = complete
          /\ built' = built /\ current' = current
      BY <1>9 DEF Pool!Unwind
    <2>2. CASE lease[pg] = Pool!NoSession
      <3>1. /\ lease' = lease /\ leases' = leases /\ retired' = retired /\ closed' = closed
        BY <1>9, <2>2 DEF Pool!Unwind
      <3>2. /\ "failed" \in Pool!Stages /\ "failed" \notin Borrowing
            /\ page[pg] \notin Borrowing
        BY <2>2, LeasedPage DEF Pool!Stages, Borrowing
      <3> QED
        BY <2>1, <3>1, <3>2, IdleMoves
    <2>3. CASE lease[pg] # Pool!NoSession
      <3>1. Pool!Return(pg)
        BY <1>9, <2>3 DEF Pool!Unwind
      <3> QED
        BY <2>1, <2>3, <3>1, LeasedPage, ReturnMoves,
           {} \in SUBSET (current \cap {lease[pg]})
        DEF Pool!Return
    <2> QED
      BY <2>2, <2>3
  <1> QED
    BY <1>1, <1>2, <1>3, <1>4, <1>5, <1>6, <1>7, <1>8, <1>9, BeginInv, EndInv
    DEF Pool!SessionsNext

LEMMA SessionsInvariant == Spec => []SessionsInv
  <1>1. Init => SessionsInv
    BY SessionsInitInv DEF Init
  <1>2. SessionsInv /\ [Next]_vars => SessionsInv'
    BY PoolSteps, SessionsNextInv, FetchStands DEF sessionVars
  <1> QED
    BY <1>1, <1>2, PTL DEF Spec

\* _ProxySessionPool and _gather_snapshots: no page fetches on a closed session, each one
\* that was built is closed, and no cycle inherits a verdict; for any number of proxies and
\* pages, however fetches fail, siblings evict and cycles are cancelled.
THEOREM Cycles_KeepTheirSessions == Spec => []CyclesKeepTheirSessions
  <1>1. SessionsInv => CyclesKeepTheirSessions
    <2> SUFFICES ASSUME SessionsInv
                 PROVE  Pool!SessionsCloseInTime /\ Pool!CompleteIsOfThisCycle
      BY DEF CyclesKeepTheirSessions, Pool!CyclesKeepTheirSessions
    <2>1. PoolSound /\ PagesSound
      BY DEF SessionsInv
    <2>2. \A pg \in Pages : lease[pg] # Pool!NoSession => lease[pg] \notin closed
      BY <2>1 DEF PoolSound
    <2>3. \A x \in Proxies : \A n \in 1 .. built[x] :
            \/ <<x, n>> \in closed
            \/ fetching /\ <<x, n>> \in current
            \/ fetching /\ <<x, n>> \in retired /\ \E pg \in Pages : lease[pg] = <<x, n>>
      BY <2>1 DEF PoolSound, PagesSound, EverBuilt
    <2>4. Pool!CompleteIsOfThisCycle
      BY <2>1 DEF PagesSound, Pool!CompleteIsOfThisCycle
    <2> QED
      BY <2>2, <2>3, <2>4 DEF Pool!SessionsCloseInTime
  <1> QED
    BY SessionsInvariant, <1>1, PTL
=============================================================================
