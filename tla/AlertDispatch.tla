---------------------------- MODULE AlertDispatch ----------------------------
(***************************************************************************)
(* The alert dispatcher: one alert fanned out to several channels, each    *)
(* with its own claim in Redis, a caller that repeats the dispatch while   *)
(* the pick still qualifies, and what can happen in between: cancellation  *)
(* at any await, a channel or Redis that fails before or after the effect, *)
(* the death of the process, the claim's time to live, and a claim left by *)
(* the release that had one global key per alert.                          *)
(*                                                                         *)
(*   app/notifications/dispatcher.py   AlertDispatcher                     *)
(*   app/notifications/dedupe.py       RedisIdempotencyStore               *)
(*   app/notifications/telegram.py, webhook.py   send                      *)
(***************************************************************************)
EXTENDS Naturals, Sequences

CONSTANTS
    Alerts,          \* market states worth an alert, by dedupe key
    Sinks,           \* the configured order of the channels: a sequence
    Configured,      \* channels with a token or a URL
    Legacy,          \* alerts the previous release may have claimed globally
    MaxAccepts,      \* bound: deliveries counted per alert and channel
    MaxFaults        \* bound: cancellations, deaths, Redis failures and lost answers

Channels == { Sinks[i] : i \in 1 .. Len(Sinks) }
Keys == Alerts \X Channels

ASSUME AlertDispatchAssumption ==
    /\ Sinks \in Seq(Channels) /\ Len(Sinks) > 0
    /\ \A i, j \in 1 .. Len(Sinks) : Sinks[i] = Sinks[j] => i = j
    /\ Configured \subseteq Channels
    /\ Legacy \subseteq Alerts
    /\ MaxAccepts \in Nat /\ MaxFaults \in Nat

VARIABLES
    store,           \* per-channel claims in Redis
    legacy,          \* global claims of the previous release in Redis
    task,            \* the running dispatch (at most one)
    accepted,        \* how often each channel has taken each alert
    served,          \* history: deliveries by a channel that did not fail, until expiry
    confirmed,       \* history: deliveries the dispatcher knows of, until expiry
    stranded,        \* history: claims left behind by a Redis failure or a death
    faults           \* faults so far

vars == <<store, legacy, task, accepted, served, confirmed, stranded, faults>>

----------------------------------------------------------------------------
(* The running dispatch: which channel is next, what it awaits, whether it *)
(* is being cancelled, and the channels it will report as delivered.       *)

Task == [alert : Alerts, at : 1 .. Len(Sinks),
         awaits : {"claim", "send", "answer", "release", "return"},
         cancelled : BOOLEAN, reported : SUBSET Channels]

\* _sink_key: every channel has a claim of its own.
KeyOf(t) == <<t.alert, Sinks[t.at]>>

\* Fault: a failing channel hands back the claims of the whole alert.
GivenBackAll(t) == { <<t.alert, s>> : s \in Channels }

\* The claim that a failed or cancelled send hands back.
GivenBack(t) == { KeyOf(t) }

Awaiting(t, what) == task' = {[t EXCEPT !.awaits = what]}

\* The loop's next channel, or the end of dispatch.
Advanced(t) ==
    IF t.at = Len(Sinks) THEN [t EXCEPT !.awaits = "return"]
    ELSE [t EXCEPT !.at = @ + 1, !.awaits = "claim"]

\* results.append((sink.name, delivered)) and on to the next channel.
Report(t, delivered) ==
    task' = {[Advanced(t) EXCEPT
                !.reported = IF delivered THEN @ \cup {Sinks[t.at]} ELSE @]}

\* Store exceptions and cancellations leave dispatch by raising.
Raise == task' = {}

Fault == faults < MaxFaults /\ faults' = faults + 1

Init ==
    /\ store = {}
    /\ legacy = Legacy
    /\ task = {}
    /\ accepted = [k \in Keys |-> 0]
    /\ served = {} /\ confirmed = {} /\ stranded = {}
    /\ faults = 0

----------------------------------------------------------------------------
(* Claim.                                                                  *)

\* The poll cycle (or revalidation, or the audit) dispatches, and will again.
Dispatch(a) ==
    /\ task = {}
    /\ task' = {[alert |-> a, at |-> 1, awaits |-> "claim", cancelled |-> FALSE,
                 reported |-> {}]}
    /\ UNCHANGED <<store, legacy, accepted, served, confirmed, stranded, faults>>

Seen(t) == KeyOf(t) \in store \/ t.alert \in legacy

\* Fault: a claim won while the caller was being cancelled is kept.
AfterClaimForgetsCancel(t) ==
    IF t.cancelled THEN Raise
    ELSE IF Sinks[t.at] \in Configured THEN Awaiting(t, "send")
    ELSE Report(t, FALSE)

\* What follows a won claim: a cancelled dispatch gives it back, a channel without
\* a token is a no-op whose claim sticks.
AfterClaim(t) ==
    IF t.cancelled THEN Awaiting(t, "release")
    ELSE IF Sinks[t.at] \in Configured THEN Awaiting(t, "send")
    ELSE Report(t, FALSE)

ClaimWon(t) ==
    /\ t.awaits = "claim" /\ ~Seen(t)
    /\ store' = store \cup {KeyOf(t)}
    /\ AfterClaim(t)
    /\ UNCHANGED <<legacy, accepted, served, confirmed, stranded, faults>>

\* A channel that has a claim, or an alert with a global one (which seeds the
\* channel's), is skipped and reported as delivered.
ClaimSeen(t) ==
    /\ t.awaits = "claim" /\ Seen(t)
    /\ store' = store \cup {KeyOf(t)}
    /\ IF t.cancelled THEN Raise ELSE Report(t, TRUE)
    /\ UNCHANGED <<legacy, accepted, served, confirmed, stranded, faults>>

\* Three lost races for the watched keys: not claimed, reported as delivered.
ClaimContended(t) ==
    /\ t.awaits = "claim" /\ t.alert \in Legacy
    /\ Fault
    /\ IF t.cancelled THEN Raise ELSE Report(t, TRUE)
    /\ UNCHANGED <<store, legacy, accepted, served, confirmed, stranded>>

\* Redis raises, before or after the transaction took effect, and dispatch raises; or
\* the process dies there.
ClaimFails(t) ==
    /\ t.awaits = "claim"
    /\ Fault
    /\ \/ UNCHANGED <<store, stranded>>
       \/ /\ store' = store \cup {KeyOf(t)}
          /\ stranded' = IF Seen(t) THEN stranded ELSE stranded \cup {KeyOf(t)}
    /\ Raise
    /\ UNCHANGED <<legacy, accepted, served, confirmed>>

----------------------------------------------------------------------------
(* Send.                                                                   *)

ChannelAccepts(t) ==
    /\ t.awaits = "send" /\ accepted[KeyOf(t)] < MaxAccepts
    /\ accepted' = [accepted EXCEPT ![KeyOf(t)] = @ + 1]
    /\ served' = served \cup {KeyOf(t)}
    /\ Awaiting(t, "answer")
    /\ UNCHANGED <<store, legacy, confirmed, stranded, faults>>

Answered(t) ==
    /\ t.awaits = "answer"
    /\ confirmed' = confirmed \cup {KeyOf(t)}
    /\ Report(t, TRUE)
    /\ UNCHANGED <<store, legacy, accepted, served, stranded, faults>>

\* Fault: a failed send keeps its claim.
AfterFailureKeepsClaim(t) == Report(t, FALSE)

\* delivered = False on a configured channel: the claim goes back.
AfterFailure(t) == Awaiting(t, "release")

ChannelRefuses(t) ==
    /\ t.awaits = "send"
    /\ AfterFailure(t)
    /\ UNCHANGED <<store, legacy, accepted, served, confirmed, stranded, faults>>

\* The channel took the alert and the answer never came (a timeout).
AnswerLost(t) ==
    /\ t.awaits = "answer"
    /\ Fault
    /\ AfterFailure(t)
    /\ served' = served \ {KeyOf(t)}
    /\ UNCHANGED <<store, legacy, accepted, confirmed, stranded>>

----------------------------------------------------------------------------
(* Release, cancellation, the end.                                         *)

Released(t) ==
    /\ t.awaits = "release"
    /\ store' = store \ GivenBack(t)
    /\ IF t.cancelled THEN Raise ELSE Report(t, FALSE)
    /\ UNCHANGED <<legacy, accepted, served, confirmed, stranded, faults>>

\* Redis raises, before or after the delete took effect, and dispatch raises; or the
\* process dies there.
ReleaseFails(t) ==
    /\ t.awaits = "release"
    /\ Fault
    /\ \/ store' = store \ GivenBack(t) /\ UNCHANGED stranded
       \/ stranded' = stranded \cup {KeyOf(t)} /\ UNCHANGED store
    /\ Raise
    /\ UNCHANGED <<legacy, accepted, served, confirmed>>

\* The watchdog or shutdown cancels the caller.  A claim or a release in flight is
\* waited for; a send in flight is abandoned and its claim given back.
Cancel(t) ==
    /\ ~t.cancelled
    /\ Fault
    /\ \/ /\ t.awaits \in {"claim", "release"}
          /\ task' = {[t EXCEPT !.cancelled = TRUE]}
       \/ /\ t.awaits \in {"send", "answer"}
          /\ task' = {[t EXCEPT !.cancelled = TRUE, !.awaits = "release"]}
    /\ UNCHANGED <<store, legacy, accepted, served, confirmed, stranded>>

Return(t) ==
    /\ t.awaits = "return"
    /\ task' = {}
    /\ UNCHANGED <<store, legacy, accepted, served, confirmed, stranded, faults>>

\* The claim of an unfinished send survives the process in Redis.
Die(t) ==
    /\ t.awaits \in {"send", "answer"}
    /\ Fault
    /\ task' = {}
    /\ stranded' = stranded \cup {KeyOf(t)}
    /\ UNCHANGED <<store, legacy, accepted, served, confirmed>>

\* ALERT_DEDUPE_TTL_SECONDS pass; no dispatch lasts that long.
Expire(k) ==
    /\ k \in store /\ task = {}
    /\ store' = store \ {k}
    /\ served' = served \ {k}
    /\ confirmed' = confirmed \ {k}
    /\ stranded' = stranded \ {k}
    /\ UNCHANGED <<legacy, task, accepted, faults>>

ExpireLegacy(a) ==
    /\ a \in legacy /\ task = {}
    /\ legacy' = legacy \ {a}
    /\ UNCHANGED <<store, task, accepted, served, confirmed, stranded, faults>>

Step(t) ==
    \/ ClaimWon(t) \/ ClaimSeen(t) \/ ChannelAccepts(t) \/ ChannelRefuses(t)
    \/ Answered(t) \/ Released(t) \/ Return(t)

Mishap(t) ==
    \/ ClaimContended(t) \/ ClaimFails(t) \/ AnswerLost(t) \/ ReleaseFails(t)
    \/ Cancel(t) \/ Die(t)

Next ==
    \/ \E a \in Alerts : Dispatch(a) \/ ExpireLegacy(a)
    \/ \E t \in task : Step(t) \/ Mishap(t)
    \/ \E k \in Keys : Expire(k)

Spec == Init /\ [][Next]_vars

\* The scheduler polls again and again, awaited calls return, and a channel that is
\* tried again and again takes the alert.  Nothing is assumed of the time to live.
Fairness ==
    /\ \A a \in Alerts : SF_vars(Dispatch(a))
    /\ WF_vars(\E t \in task : Step(t))
    /\ \A k \in Keys : SF_vars(\E t \in task : KeyOf(t) = k /\ ChannelAccepts(t))

FairSpec == Spec /\ Fairness

----------------------------------------------------------------------------
(* Properties.                                                             *)

\* A claim never suppresses an alert its channel has not taken: whatever was cancelled
\* or refused, a claim in Redis belongs to a delivery, to the send in flight, to a
\* channel that is not configured, to the previous release's global claim, or to a
\* Redis failure or a death (dispatch's releases, _claim's release under cancellation).
ClaimMeansAccepted ==
    \A k \in store :
        \/ accepted[k] > 0 \/ k \in stranded
        \/ k[2] \notin Configured \/ k[1] \in Legacy
        \/ \E t \in task : KeyOf(t) = k /\ t.awaits \in {"send", "answer", "release"}

\* The dispatcher implements Delivery: no confirmed delivery is repeated before its
\* claim expires, in particular not because another channel failed.
Promise == INSTANCE Delivery WITH
    Keys <- Keys, accepted <- accepted, confirmed <- confirmed

Delivers == Promise!Spec

\* Every alert reaches every configured channel in the end, through refusals, lost
\* answers and cancellations, unless its claim was stranded by a Redis failure or a
\* death, or the previous release had already claimed it.
EventuallyAccepted ==
    \A k \in Keys :
        k[2] \in Configured /\ k[1] \notin Legacy
            => <>(accepted[k] > 0 \/ k \in stranded)

----------------------------------------------------------------------------
(* Statements of the repository that the code does not keep.               *)

\* dispatcher.py:91 - "the sink-specific claim exists because this channel already
\* accepted the alert": a dispatch reports success only for channels that took it.
ReportedMeansAccepted ==
    \A t \in task : \A s \in t.reported : accepted[<<t.alert, s>>] > 0

\* dispatcher.py:4 - "a healthy channel is never duplicated": while an alert's claims
\* live, a channel that never failed takes the alert once.
HealthyChannelNotDuplicated ==
    [][\A k \in served : accepted'[k] = accepted[k]]_vars
=============================================================================
