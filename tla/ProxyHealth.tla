----------------------------- MODULE ProxyHealth -----------------------------
(***************************************************************************)
(* The health registry that the scrapers' proxy rotations share.  A slot   *)
(* with a streak of failures is quarantined; after the cooldown one        *)
(* selection may probe it.  Loaders either select a single slot for an     *)
(* attempt (and claim the probe) or sweep a filtered rotation (and do      *)
(* not), concurrently, and may be cancelled in between.  cursor is that of *)
(* the OddsPortal loader; sweeps from an arbitrary base are its pinned     *)
(* fan-out and the Betfair loader, which has a cursor of its own.          *)
(*                                                                         *)
(*   app/ingestion/proxy_health.py   ProxyHealthRegistry                   *)
(*   app/ingestion/oddsportal.py     _next_proxy_indexed,                  *)
(*                                   _scrape_with_failover, the pinned     *)
(*                                   fan-out of the dated listings         *)
(*   app/ingestion/betfair_exchange.py   the failover sweep                *)
(***************************************************************************)
EXTENDS Naturals, Sequences, SequencesExt

CONSTANTS
    PoolSize,        \* slots are 0 .. PoolSize - 1
    Loaders,         \* concurrent attempts
    Threshold,       \* consecutive failures that quarantine a slot
    Cooldown,        \* length of a quarantine, in ticks
    ClaimWindow,     \* length of a probe's claim, in ticks
    MaxFailover,     \* slots one sweep tries at most
    MaxTrouble       \* bound: proxies going up or down, cancelled attempts

HealthAssumption ==
    /\ {PoolSize, Threshold, Cooldown, MaxFailover} \subseteq Nat \ {0}
    /\ {ClaimWindow, MaxTrouble} \subseteq Nat

VARIABLES
    up,              \* slots whose proxy works
    strikes,         \* consecutive_failures, up to Threshold
    quarantined,     \* slots with a quarantined_until
    cool,            \* ticks until it has passed
    claim,           \* ticks until probe_claimed_until has passed
    cursor,          \* the rotation's cursor
    flight,          \* per loader: the slots left to try, first one in flight
    trouble

proxyVars == <<up, strikes, quarantined, cool, claim, cursor, flight, trouble>>

Slots == 0 .. PoolSize - 1

Idle == [slots |-> <<>>, shared |-> FALSE]

HealthTypeOK ==
    /\ up \subseteq Slots /\ quarantined \subseteq Slots
    /\ strikes \in [Slots -> 0 .. Threshold]
    /\ cool \in [Slots -> 0 .. Cooldown] /\ claim \in [Slots -> 0 .. ClaimWindow]
    /\ cursor \in Slots /\ trouble \in 0 .. MaxTrouble
    /\ \A w \in Loaders :
        /\ flight[w].shared \in BOOLEAN
        /\ Len(flight[w].slots) <= MaxFailover /\ ToSet(flight[w].slots) \subseteq Slots

HealthInit ==
    /\ up = Slots
    /\ strikes = [i \in Slots |-> 0]
    /\ quarantined = {}
    /\ cool = [i \in Slots |-> 0] /\ claim = [i \in Slots |-> 0]
    /\ cursor = 0
    /\ flight = [w \in Loaders |-> Idle]
    /\ trouble = 0

HalfOpen(i) == i \in quarantined /\ cool[i] = 0

Healthy(i) == i \notin quarantined

\* _eligible
Eligible(i) == Healthy(i) \/ (HalfOpen(i) /\ claim[i] = 0)

\* How far down a slot is in the rotation of all slots that starts at one of them.
Along(start, i) == IF start <= i THEN i - start ELSE PoolSize + i - start

After(i) == (i + 1) % PoolSize

----------------------------------------------------------------------------
(* Selection.                                                              *)

\* filter_rotation prefers healthy slots to half-open ones, and keeps their order.
Before(start, i, j) ==
    \/ Healthy(i) /\ ~Healthy(j)
    \/ (Healthy(i) <=> Healthy(j)) /\ Along(start, i) < Along(start, j)

\* The slots it leaves: the eligible ones, all of them when there is none.
FilterRotation(start) ==
    LET eligible == { i \in Slots : Eligible(i) }
    IN  CHOOSE order \in SetToSeqs(IF eligible = {} THEN Slots ELSE eligible) :
            \A j, k \in DOMAIN order : j < k => Before(start, order[j], order[k])

UpTo(n, max) == IF n < max THEN n ELSE max

\* Fault: listing a half-open slot in a sweep claims its probe.
SweepClaims(w, shared, base) ==
    LET order == FilterRotation(base)
    IN  /\ flight[w] = Idle
        /\ flight' = [flight EXCEPT ![w] =
               [slots |-> SubSeq(order, 1, UpTo(Len(order), MaxFailover)),
                shared |-> shared]]
        /\ claim' = [i \in Slots |-> IF HalfOpen(i) /\ Eligible(i) THEN ClaimWindow
                                     ELSE claim[i]]
        /\ UNCHANGED <<up, strikes, quarantined, cool, cursor, trouble>>

\* A capped sweep over the filtered rotation, from the shared cursor or from a base of
\* its own.  It claims no probe.
Sweep(w, shared, base) ==
    LET order == FilterRotation(base)
    IN  /\ flight[w] = Idle
        /\ flight' = [flight EXCEPT ![w] =
               [slots |-> SubSeq(order, 1, UpTo(Len(order), MaxFailover)),
                shared |-> shared]]
        /\ UNCHANGED <<up, strikes, quarantined, cool, claim, cursor, trouble>>

\* select for one attempt: the first eligible slot from the cursor on, with the claim
\* if it is a probe; the cursor's own when there is none.
Select(w) ==
    LET eligible == { i \in Slots : Eligible(i) }
        i == CHOOSE i \in IF eligible = {} THEN {cursor} ELSE eligible :
                 \A j \in eligible : Along(cursor, i) <= Along(cursor, j)
    IN  /\ flight[w] = Idle
        /\ flight' = [flight EXCEPT ![w] = [slots |-> <<i>>, shared |-> FALSE]]
        /\ claim' = [claim EXCEPT ![i] =
                         IF HalfOpen(i) /\ Eligible(i) THEN ClaimWindow ELSE @]
        /\ cursor' = After(i)
        /\ UNCHANGED <<up, strikes, quarantined, cool, trouble>>

----------------------------------------------------------------------------
(* Outcomes.                                                               *)

RecordSuccess(i) ==
    /\ strikes' = [strikes EXCEPT ![i] = 0]
    /\ quarantined' = quarantined \ {i}
    /\ claim' = [claim EXCEPT ![i] = 0]
    /\ cool' = [cool EXCEPT ![i] = 0]

\* At the threshold the slot is quarantined, or its cooldown starts again.
RecordFailure(i) ==
    /\ strikes' = [strikes EXCEPT ![i] = UpTo(@ + 1, Threshold)]
    /\ IF strikes[i] + 1 >= Threshold
       THEN /\ quarantined' = quarantined \cup {i}
            /\ cool' = [cool EXCEPT ![i] = Cooldown]
            /\ claim' = [claim EXCEPT ![i] = 0]
       ELSE UNCHANGED <<quarantined, cool, claim>>

\* The next slot of the sweep, or its end.  A sweep on the shared cursor ends past
\* the slot it tried last.
Advance(w) ==
    LET f == flight[w]
    IN  IF Len(f.slots) > 1
        THEN flight' = [flight EXCEPT ![w].slots = Tail(@)] /\ UNCHANGED cursor
        ELSE flight' = [flight EXCEPT ![w] = Idle]
             /\ cursor' = IF f.shared THEN After(f.slots[1]) ELSE cursor

\* The attempt went through: the sweep is over.
Succeed(w) ==
    LET f == flight[w]
    IN  /\ f # Idle /\ f.slots[1] \in up
        /\ RecordSuccess(f.slots[1])
        /\ flight' = [flight EXCEPT ![w] = Idle]
        /\ cursor' = IF f.shared THEN After(f.slots[1]) ELSE cursor
        /\ UNCHANGED <<up, trouble>>

\* Transport-clean but nothing for this match: the next slot is tried.
EmptyResult(w) ==
    LET f == flight[w]
    IN  /\ f # Idle /\ f.shared /\ f.slots[1] \in up
        /\ RecordSuccess(f.slots[1])
        /\ Advance(w)
        /\ UNCHANGED <<up, trouble>>

FailOver(w) ==
    LET f == flight[w]
    IN  /\ f # Idle /\ f.slots[1] \notin up
        /\ RecordFailure(f.slots[1])
        /\ Advance(w)
        /\ UNCHANGED <<up, trouble>>

\* The pass times out or its cycle is cancelled: nothing is recorded.
Abandon(w) ==
    /\ flight[w] # Idle /\ trouble < MaxTrouble
    /\ flight' = [flight EXCEPT ![w] = Idle]
    /\ trouble' = trouble + 1
    /\ UNCHANGED <<up, strikes, quarantined, cool, claim, cursor>>

\* A pinned fan-out moves the shared cursor past the slots it started from, once all
\* its units are through; their number is any.
FanOutEnds(i) ==
    /\ cursor' = i
    /\ UNCHANGED <<up, strikes, quarantined, cool, claim, flight, trouble>>

\* A proxy goes down or comes back.
Flip(i) ==
    /\ trouble < MaxTrouble
    /\ up' = IF i \in up THEN up \ {i} ELSE up \cup {i}
    /\ trouble' = trouble + 1
    /\ UNCHANGED <<strikes, quarantined, cool, claim, cursor, flight>>

Down(n) == IF n = 0 THEN 0 ELSE n - 1

Tick ==
    /\ \E i \in Slots : cool[i] > 0 \/ claim[i] > 0
    /\ cool' = [i \in Slots |-> Down(cool[i])]
    /\ claim' = [i \in Slots |-> Down(claim[i])]
    /\ UNCHANGED <<up, strikes, quarantined, cursor, flight, trouble>>

HealthNext ==
    \/ Tick
    \/ \E i \in Slots : FanOutEnds(i) \/ Flip(i)
    \/ \E w \in Loaders :
        \/ Select(w) \/ Succeed(w) \/ EmptyResult(w) \/ FailOver(w) \/ Abandon(w)
        \/ Sweep(w, TRUE, cursor)
        \/ \E base \in Slots : Sweep(w, FALSE, base)

\* Time passes and attempts end, each has a timeout.
HealthFairness ==
    /\ WF_proxyVars(Tick)
    /\ \A w \in Loaders : WF_proxyVars(Succeed(w) \/ FailOver(w))

\* A proxy that works again comes back into the rotation for good, as long as
\* selections keep coming to its position: cooldowns and probe claims never keep it
\* out, whatever sweeps, cancelled probes and late failures other loaders record.
RecoveredProxyReturns ==
    \A i \in Slots :
        /\ <>[](i \in up)
        /\ []<><<flight' # flight /\ cursor = i /\ \E w \in Loaders : Select(w)>>_proxyVars
        => <>[](i \notin quarantined)

HealthSpec == HealthInit /\ [][HealthNext]_proxyVars /\ HealthFairness
=============================================================================
