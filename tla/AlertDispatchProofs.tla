------------------------- MODULE AlertDispatchProofs -------------------------
(***************************************************************************)
(* Theorems about AlertDispatch for every set of alerts, every order of    *)
(* channels and every number of faults: what a claim stands for, and that  *)
(* the dispatcher keeps the promise of module Delivery.                    *)
(***************************************************************************)
EXTENDS AlertDispatch, TLAPS

----------------------------------------------------------------------------
(* The inductive invariant.                                                *)

TypeInv ==
    /\ store \subseteq Keys /\ confirmed \subseteq Keys /\ legacy \subseteq Legacy
    /\ task \subseteq Task
    /\ accepted \in [Keys -> Nat]

OneTask == \A t, u \in task : t = u

\* A dispatch between its claim and the outcome of its send.
Claimed(t) == t.awaits \in {"send", "answer", "release"}

\* A delivery on record was taken by its channel and still has its claim.
ConfirmedIsClaimed == \A k \in confirmed : k \in store /\ accepted[k] > 0

\* The claim a dispatch has won is still there and belongs to no delivery on record.
ClaimIsFresh ==
    \A t \in task : /\ Claimed(t) => KeyOf(t) \in store \ confirmed
                    /\ t.awaits = "answer" => accepted[KeyOf(t)] > 0

\* Why a claim may suppress its alert.
Justified(k) ==
    \/ accepted[k] > 0 \/ k \in stranded
    \/ k[2] \notin Configured \/ k[1] \in Legacy
    \/ \E t \in task : KeyOf(t) = k /\ Claimed(t)

Inv == TypeInv /\ OneTask /\ ConfirmedIsClaimed /\ ClaimIsFresh /\ ClaimMeansAccepted

----------------------------------------------------------------------------
(* Lemmas.                                                                 *)

\* _sink_key: the claim of a running dispatch is one of an alert on a configured-in channel.
LEMMA KeyOfTask ==
    ASSUME NEW t \in Task
    PROVE  KeyOf(t) \in Keys /\ KeyOf(t)[1] = t.alert /\ KeyOf(t)[2] = Sinks[t.at]
  BY DEF KeyOf, Keys, Channels, Task

\* Awaiting something else, cancelled or not, leaves the dispatch on its alert and channel.
LEMMA AwaitingTask ==
    ASSUME NEW t \in Task, NEW what \in {"claim", "send", "answer", "release", "return"},
           \/ task' = {[t EXCEPT !.awaits = what]}
           \/ task' = {[t EXCEPT !.cancelled = TRUE, !.awaits = what]}
    PROVE  \E u \in Task : task' = {u} /\ KeyOf(u) = KeyOf(t) /\ u.awaits = what
  <1>1. /\ [t EXCEPT !.awaits = what] \in Task
        /\ [t EXCEPT !.awaits = what].awaits = what
        /\ KeyOf([t EXCEPT !.awaits = what]) = KeyOf(t)
    BY DEF Task, KeyOf
  <1>2. /\ [t EXCEPT !.cancelled = TRUE, !.awaits = what] \in Task
        /\ [t EXCEPT !.cancelled = TRUE, !.awaits = what].awaits = what
        /\ KeyOf([t EXCEPT !.cancelled = TRUE, !.awaits = what]) = KeyOf(t)
    BY DEF Task, KeyOf
  <1>3. CASE task' = {[t EXCEPT !.awaits = what]}
    BY <1>1, <1>3
  <1>4. CASE task' = {[t EXCEPT !.cancelled = TRUE, !.awaits = what]}
    BY <1>2, <1>4
  <1> QED
    BY <1>3, <1>4

\* A cancellation during a claim or a release leaves the dispatch awaiting it.
LEMMA CancelledTask ==
    ASSUME NEW t \in Task, task' = {[t EXCEPT !.cancelled = TRUE]}
    PROVE  \E u \in Task : task' = {u} /\ KeyOf(u) = KeyOf(t) /\ u.awaits = t.awaits
  <1>1. /\ [t EXCEPT !.cancelled = TRUE] \in Task
        /\ [t EXCEPT !.cancelled = TRUE].awaits = t.awaits
        /\ KeyOf([t EXCEPT !.cancelled = TRUE]) = KeyOf(t)
    BY DEF Task, KeyOf
  <1> QED
    BY <1>1

\* dispatch's loop: after a channel's result comes the next channel's claim, or the end.
LEMMA ReportTask ==
    ASSUME NEW t \in Task, NEW delivered \in BOOLEAN, Report(t, delivered)
    PROVE  \E u \in Task : task' = {u} /\ ~Claimed(u)
  <1> DEFINE next == Advanced(t)
             u == [next EXCEPT !.reported = IF delivered THEN @ \cup {Sinks[t.at]} ELSE @]
  <1>1. t.at \in 1 .. Len(Sinks) /\ Len(Sinks) \in Nat /\ Sinks[t.at] \in Channels
    BY AlertDispatchAssumption DEF Task, Channels
  <1>2. next \in Task /\ next.awaits \in {"claim", "return"}
    <2>1. CASE t.at = Len(Sinks)
      BY <2>1 DEF Advanced, Task
    <2>2. CASE t.at # Len(Sinks)
      <3>1. t.at + 1 \in 1 .. Len(Sinks)
        BY <1>1, <2>2
      <3> QED
        BY <2>2, <3>1 DEF Advanced, Task
    <2> QED
      BY <2>1, <2>2
  <1> HIDE DEF next
  <1>3. u \in Task /\ u.awaits = next.awaits
    BY <1>1, <1>2 DEF Task
  <1>4. task' = {u}
    BY DEF Report, next
  <1> QED
    BY <1>2, <1>3, <1>4 DEF Claimed

----------------------------------------------------------------------------
(* Every step preserves the inductive invariant.                           *)

\* Redis is empty of channel claims and no dispatch runs.
LEMMA InitInv == Init => Inv
  BY DEF Init, Inv, TypeInv, OneTask, ConfirmedIsClaimed, ClaimIsFresh, ClaimMeansAccepted

\* A step of dispatch t touches one claim, that of its alert on its channel: every other
\* claim keeps the reason it has.
LEMMA OneClaimAtATime ==
    ASSUME Inv, NEW t \in task,
           legacy' = legacy, confirmed' \subseteq Keys, accepted' \in [Keys -> Nat],
           \A k \in Keys : accepted[k] <= accepted'[k],
           stranded \subseteq stranded',
           store' \subseteq store \cup {KeyOf(t)},
           ConfirmedIsClaimed',
           task' = {} \/ \E u \in Task : task' = {u},
           ClaimIsFresh',
           KeyOf(t) \in store' => Justified(KeyOf(t))'
    PROVE  Inv'
  <1>1. KeyOf(t) \in Keys
    BY KeyOfTask DEF Inv, TypeInv
  <1>2. TypeInv'
    BY <1>1 DEF Inv, TypeInv
  <1>3. OneTask'
    BY DEF OneTask
  <1>4. ASSUME NEW k \in store' PROVE Justified(k)'
    <2>1. CASE k = KeyOf(t)
      BY <2>1
    <2>2. CASE k # KeyOf(t)
      <3>1. k \in store /\ k \in Keys
        BY <2>2 DEF Inv, TypeInv
      <3>2. \/ accepted[k] > 0 \/ k \in stranded
            \/ k[2] \notin Configured \/ k[1] \in Legacy
        BY <2>2, <3>1 DEF Inv, ClaimMeansAccepted, OneTask
      <3>3. accepted[k] \in Nat /\ accepted'[k] \in Nat /\ accepted[k] <= accepted'[k]
        BY <3>1 DEF Inv, TypeInv
      <3> QED
        BY <3>2, <3>3 DEF Justified
    <2> QED
      BY <2>1, <2>2
  <1>5. ClaimMeansAccepted'
    BY <1>4 DEF ClaimMeansAccepted, Justified, Claimed
  <1> QED
    BY <1>2, <1>3, <1>5 DEF Inv

\* dispatch and _claim, await by await: the claim, the send, the release, what can go
\* wrong at each of them, and the end.
LEMMA TaskKeepsInv ==
    ASSUME Inv, NEW t \in task, Step(t) \/ Mishap(t)
    PROVE  Inv'
  <1> DEFINE k == KeyOf(t)
  <1>a. t \in Task /\ k \in Keys /\ k[1] = t.alert /\ k[2] = Sinks[t.at]
    BY KeyOfTask DEF Inv, TypeInv
  <1>b. /\ store \subseteq Keys /\ confirmed \subseteq Keys /\ accepted \in [Keys -> Nat]
        /\ legacy \subseteq Legacy
        /\ Claimed(t) => k \in store /\ k \notin confirmed
        /\ t.awaits = "answer" => accepted[k] > 0
        /\ k \in store => Justified(k)
    BY DEF Inv, TypeInv, ClaimIsFresh, ClaimMeansAccepted, Justified, Claimed
  <1>c. ConfirmedIsClaimed /\ \A u \in task : u = t
    BY DEF Inv, OneTask
  <1>1. CASE ClaimWon(t)
    <2>1. k \notin store /\ store' = store \cup {k} /\ k \notin confirmed
          /\ UNCHANGED <<legacy, accepted, confirmed, stranded>>
      BY <1>1, <1>c DEF ClaimWon, Seen, ConfirmedIsClaimed
    <2>2. CASE Awaiting(t, "release") \/ (Sinks[t.at] \in Configured /\ Awaiting(t, "send"))
      <3>1. PICK u \in Task : task' = {u} /\ KeyOf(u) = k /\ u.awaits \in {"release", "send"}
        <4>1. ASSUME NEW what \in {"release", "send"}, Awaiting(t, what)
              PROVE  \E u \in Task : task' = {u} /\ KeyOf(u) = k /\ u.awaits = what
          <5>1. /\ t \in Task /\ task' = {[t EXCEPT !.awaits = what]}
                /\ what \in {"claim", "send", "answer", "release", "return"}
            BY <1>a, <4>1 DEF Awaiting
          <5> HIDE DEF k
          <5>2. \E u \in Task : task' = {u} /\ KeyOf(u) = KeyOf(t) /\ u.awaits = what
            BY <5>1, AwaitingTask
          <5> QED
            BY <5>2 DEF k
        <4> QED
          BY <2>2, <4>1
      <3>2. Claimed(u) /\ u.awaits # "answer"
        BY <3>1 DEF Claimed
      <3>3. ClaimIsFresh'
        BY <2>1, <3>1, <3>2 DEF ClaimIsFresh
      <3>4. Justified(k)'
        BY <3>1, <3>2 DEF Justified
      <3>5. ConfirmedIsClaimed'
        BY <1>c, <2>1 DEF ConfirmedIsClaimed
      <3> QED
        BY <1>b, <2>1, <3>1, <3>3, <3>4, <3>5, OneClaimAtATime
    <2>3. CASE Sinks[t.at] \notin Configured /\ Report(t, FALSE)
      <3>1. PICK u \in Task : task' = {u} /\ ~Claimed(u)
        BY <1>a, <2>3, ReportTask
      <3>2. ClaimIsFresh' /\ Justified(k)' /\ ConfirmedIsClaimed'
        BY <1>a, <1>c, <2>1, <2>3, <3>1 DEF ClaimIsFresh, Justified, Claimed, ConfirmedIsClaimed
      <3> QED
        BY <1>b, <2>1, <3>1, <3>2, OneClaimAtATime
    <2> QED
      BY <1>1, <2>2, <2>3 DEF ClaimWon, AfterClaim
  <1>2. ASSUME store' \subseteq store \cup {k}, store \subseteq store', k \in store' => Justified(k)',
               UNCHANGED <<legacy, accepted, confirmed>>, stranded \subseteq stranded',
               task' = {} \/ \E delivered \in BOOLEAN : Report(t, delivered)
        PROVE  Inv'
    <2>1. task' = {} \/ \E u \in Task : task' = {u} /\ ~Claimed(u)
      BY <1>a, <1>2, ReportTask
    <2>2. ClaimIsFresh'
      BY <2>1 DEF ClaimIsFresh, Claimed
    <2>3. ConfirmedIsClaimed'
      BY <1>c, <1>2 DEF ConfirmedIsClaimed
    <2> QED
      BY <1>b, <1>2, <2>1, <2>2, <2>3, OneClaimAtATime
  <1>3. CASE ClaimSeen(t)
    <2>1. Justified(k)'
      <3>1. CASE k \in store
        <4>1. \/ accepted[k] > 0 \/ k \in stranded
              \/ k[2] \notin Configured \/ k[1] \in Legacy
          BY <1>3, <1>b, <1>c, <3>1 DEF Justified, ClaimSeen, Claimed
        <4> QED
          BY <1>3, <4>1 DEF Justified, ClaimSeen
      <3>2. CASE k \notin store
        BY <1>3, <1>a, <1>b, <3>2 DEF Justified, ClaimSeen, Seen
      <3> QED
        BY <3>1, <3>2
    <2> QED
      BY <1>2, <1>3, <2>1 DEF ClaimSeen, Raise
  <1>4. CASE ClaimContended(t)
    <2>1. k \in store' => Justified(k)'
      BY <1>4, <1>a DEF ClaimContended, Justified
    <2> QED
      BY <1>2, <1>4, <2>1 DEF ClaimContended, Raise
  <1>5. CASE ClaimFails(t)
    <2>1. k \in store' => Justified(k)'
      <3>1. CASE k \in store
        <4>1. \/ accepted[k] > 0 \/ k \in stranded
              \/ k[2] \notin Configured \/ k[1] \in Legacy
          BY <1>5, <1>b, <1>c, <3>1 DEF Justified, ClaimFails, Claimed
        <4> QED
          BY <1>5, <4>1 DEF Justified, ClaimFails
      <3>2. CASE k \notin store
        BY <1>5, <1>a, <1>b, <3>2 DEF Justified, ClaimFails, Seen
      <3> QED
        BY <3>1, <3>2
    <2> QED
      BY <1>2, <1>5, <2>1 DEF ClaimFails, Raise
  <1>6. CASE ChannelAccepts(t)
    <2>1. /\ accepted' = [accepted EXCEPT ![k] = @ + 1] /\ t.awaits = "send"
          /\ Awaiting(t, "answer") /\ UNCHANGED <<store, legacy, confirmed, stranded>>
      BY <1>6 DEF ChannelAccepts
    <2>2. /\ accepted' \in [Keys -> Nat] /\ accepted'[k] > 0
          /\ \A i \in Keys : accepted[i] <= accepted'[i]
      BY <1>a, <1>b, <2>1
    <2>3. PICK u \in Task : task' = {u} /\ KeyOf(u) = k /\ u.awaits = "answer"
      BY <1>a, <2>1, AwaitingTask DEF Awaiting
    <2>4. ClaimIsFresh'
      BY <1>a, <1>b, <2>1, <2>2, <2>3 DEF ClaimIsFresh, Claimed
    <2>5. Justified(k)'
      BY <2>2 DEF Justified
    <2>6. ConfirmedIsClaimed'
      <3>1. \A i \in confirmed : i \in Keys /\ accepted[i] \in Nat /\ accepted'[i] \in Nat
        BY <1>b, <2>2
      <3> QED
        BY <1>c, <2>1, <2>2, <3>1 DEF ConfirmedIsClaimed
    <2> QED
      BY <1>b, <2>1, <2>2, <2>3, <2>4, <2>5, <2>6, OneClaimAtATime
  <1>7. CASE Answered(t)
    <2>1. /\ confirmed' = confirmed \cup {k} /\ t.awaits = "answer" /\ Report(t, TRUE)
          /\ UNCHANGED <<store, legacy, accepted, stranded>>
      BY <1>7 DEF Answered
    <2>2. PICK u \in Task : task' = {u} /\ ~Claimed(u)
      BY <1>a, <2>1, ReportTask
    <2>3. accepted[k] > 0 /\ k \in store
      BY <1>b, <2>1 DEF Claimed
    <2>4. ClaimIsFresh' /\ Justified(k)'
      BY <2>1, <2>2, <2>3 DEF ClaimIsFresh, Claimed, Justified
    <2>5. ConfirmedIsClaimed'
      BY <1>c, <2>1, <2>3 DEF ConfirmedIsClaimed
    <2> QED
      BY <1>a, <1>b, <2>1, <2>2, <2>4, <2>5, OneClaimAtATime
  <1>8. ASSUME task' = {} \/ (\E u \in Task : task' = {u} /\ KeyOf(u) = k /\ u.awaits = "release"),
               Claimed(t), UNCHANGED <<store, legacy, accepted, confirmed>>,
               stranded \subseteq stranded', task' = {} => k \in stranded'
        PROVE  Inv'
    <2>1. ClaimIsFresh'
      BY <1>b, <1>8 DEF ClaimIsFresh, Claimed
    <2>2. Justified(k)'
      BY <1>8 DEF Justified, Claimed
    <2>3. ConfirmedIsClaimed'
      BY <1>c, <1>8 DEF ConfirmedIsClaimed
    <2> QED
      BY <1>b, <1>8, <2>1, <2>2, <2>3, OneClaimAtATime
  <1>9. CASE ChannelRefuses(t) \/ AnswerLost(t) \/ Die(t)
    <2>1. CASE ChannelRefuses(t) \/ AnswerLost(t)
      <3>1. /\ task' = {[t EXCEPT !.awaits = "release"]} /\ Claimed(t)
            /\ UNCHANGED <<store, legacy, accepted, confirmed, stranded>>
        BY <2>1 DEF ChannelRefuses, AnswerLost, AfterFailure, Awaiting, Claimed
      <3>2. \E u \in Task : task' = {u} /\ KeyOf(u) = k /\ u.awaits = "release"
        BY <1>a, <3>1, AwaitingTask
      <3>3. task' # {}
        BY <3>1
      <3> QED
        BY <1>8, <3>1, <3>2, <3>3
    <2>2. CASE Die(t)
      BY <1>8, <2>2 DEF Die, Claimed
    <2> QED
      BY <1>9, <2>1, <2>2
  <1>10. CASE Released(t) \/ ReleaseFails(t)
    <2>1. /\ t.awaits = "release" /\ k \notin confirmed
          /\ UNCHANGED <<legacy, accepted, confirmed>> /\ stranded \subseteq stranded'
          /\ store' = store \/ store' = store \ {k}
          /\ k \in store' => k \in stranded'
          /\ task' = {} \/ Report(t, FALSE)
      BY <1>10, <1>b DEF Released, ReleaseFails, GivenBack, Raise, Claimed
    <2>2. task' = {} \/ \E u \in Task : task' = {u} /\ ~Claimed(u)
      BY <1>a, <2>1, ReportTask
    <2>3. ClaimIsFresh'
      BY <2>2 DEF ClaimIsFresh, Claimed
    <2>4. ConfirmedIsClaimed'
      BY <1>c, <2>1 DEF ConfirmedIsClaimed
    <2>5. k \in store' => Justified(k)'
      BY <2>1 DEF Justified
    <2> QED
      BY <1>b, <2>1, <2>2, <2>3, <2>4, <2>5, OneClaimAtATime
  <1>11. CASE Cancel(t)
    <2>1. CASE t.awaits \in {"claim", "release"} /\ task' = {[t EXCEPT !.cancelled = TRUE]}
      <3>1. PICK u \in Task : task' = {u} /\ KeyOf(u) = k /\ u.awaits = t.awaits
        BY <1>a, <2>1, CancelledTask
      <3>2. ClaimIsFresh'
        BY <1>11, <1>b, <2>1, <3>1 DEF ClaimIsFresh, Claimed, Cancel
      <3>3. k \in store' => Justified(k)'
        BY <1>11, <1>b, <1>c, <3>1 DEF Cancel, Justified, Claimed
      <3>4. ConfirmedIsClaimed'
        BY <1>11, <1>c DEF Cancel, ConfirmedIsClaimed
      <3> QED
        BY <1>11, <1>b, <3>1, <3>2, <3>3, <3>4, OneClaimAtATime DEF Cancel
    <2>2. CASE t.awaits \in {"send", "answer"}
               /\ task' = {[t EXCEPT !.cancelled = TRUE, !.awaits = "release"]}
      <3>1. \E u \in Task : task' = {u} /\ KeyOf(u) = k /\ u.awaits = "release"
        BY <1>a, <2>2, AwaitingTask
      <3> QED
        BY <1>8, <1>11, <2>2, <3>1 DEF Cancel, Claimed
    <2> QED
      BY <1>11, <2>1, <2>2 DEF Cancel
  <1>12. CASE Return(t)
    <2>1. k \in store' => Justified(k)'
      BY <1>12, <1>b, <1>c DEF Return, Justified, Claimed
    <2> QED
      BY <1>2, <1>12, <2>1 DEF Return
  <1> QED
    BY <1>1, <1>3, <1>4, <1>5, <1>6, <1>7, <1>9, <1>10, <1>11, <1>12 DEF Step, Mishap

\* Every step of dispatch, the repeated calls and the expiry of a claim preserve it.
LEMMA NextInv == Inv /\ [Next]_vars => Inv'
  <1> SUFFICES ASSUME Inv, [Next]_vars PROVE Inv'
    OBVIOUS
  <1>1. ASSUME NEW a \in Alerts, Dispatch(a) PROVE Inv'
    <2> DEFINE u == [alert |-> a, at |-> 1, awaits |-> "claim", cancelled |-> FALSE,
                     reported |-> {}]
    <2>1. task = {} /\ task' = {u}
          /\ UNCHANGED <<store, legacy, accepted, confirmed, stranded>>
      BY <1>1 DEF Dispatch
    <2>2. 1 \in 1 .. Len(Sinks)
      BY AlertDispatchAssumption
    <2>3. u \in Task /\ ~Claimed(u) /\ u.awaits = "claim"
      BY <2>2 DEF Task, Claimed
    <2> HIDE DEF u
    <2>4. TypeInv' /\ OneTask' /\ ConfirmedIsClaimed'
      BY <2>1, <2>3 DEF Inv, TypeInv, OneTask, ConfirmedIsClaimed
    <2>5. ClaimIsFresh' /\ ClaimMeansAccepted'
      BY <2>1, <2>3 DEF Inv, ClaimIsFresh, ClaimMeansAccepted, Claimed
    <2> QED
      BY <2>4, <2>5 DEF Inv
  <1>2. ASSUME NEW a \in Alerts, ExpireLegacy(a) PROVE Inv'
    BY <1>2 DEF ExpireLegacy, Inv, TypeInv, OneTask, ConfirmedIsClaimed, ClaimIsFresh,
                ClaimMeansAccepted
  <1>3. ASSUME NEW t \in task, Step(t) \/ Mishap(t) PROVE Inv'
    BY <1>3, TaskKeepsInv
  <1>4. ASSUME NEW k \in Keys, Expire(k) PROVE Inv'
    BY <1>4 DEF Expire, Inv, TypeInv, OneTask, ConfirmedIsClaimed, ClaimIsFresh,
                ClaimMeansAccepted
  <1>5. CASE UNCHANGED vars
    BY <1>5 DEF vars, Inv, TypeInv, OneTask, ConfirmedIsClaimed, ClaimIsFresh,
                ClaimMeansAccepted, Claimed
  <1> QED
    BY <1>1, <1>2, <1>3, <1>4, <1>5 DEF Next

----------------------------------------------------------------------------
(* The theorems.                                                           *)

\* The inductive invariant holds of every behaviour of the dispatcher.
THEOREM Invariance == Spec => []Inv
  BY InitInv, NextInv, PTL DEF Spec

\* dispatch and _claim: whatever is refused, cancelled, lost or killed, a claim in Redis
\* that will suppress an alert stands for a delivery, for a send still to be settled, or
\* for one of the named exceptions.
THEOREM Claim_MeansAccepted == Spec => []ClaimMeansAccepted
  BY Invariance, PTL DEF Inv

----------------------------------------------------------------------------
(* The dispatcher implements Delivery.                                     *)

\* A step of the dispatcher is an acceptance, a confirmation or an expiry of Delivery, or
\* changes neither what was accepted nor what is on record.
LEMMA StepSimulation == Inv /\ [Next]_vars => [Promise!Next]_<<accepted, confirmed>>
  <1> SUFFICES ASSUME Inv, [Next]_vars, ~ UNCHANGED <<accepted, confirmed>>
               PROVE  Promise!Next
    OBVIOUS
  <1> USE DEF Promise!Next
  <1>1. ASSUME NEW t \in task, ChannelAccepts(t) PROVE Promise!Next
    <2>1. KeyOf(t) \in Keys
      BY KeyOfTask DEF Inv, TypeInv
    <2>2. KeyOf(t) \notin confirmed
      BY <1>1 DEF Inv, ClaimIsFresh, Claimed, ChannelAccepts
    <2> QED
      BY <1>1, <2>1, <2>2 DEF ChannelAccepts, Promise!Accept
  <1>2. ASSUME NEW t \in task, Answered(t) PROVE Promise!Next
    <2>1. KeyOf(t) \in Keys
      BY KeyOfTask DEF Inv, TypeInv
    <2>2. accepted[KeyOf(t)] > 0
      BY <1>2 DEF Inv, ClaimIsFresh, Answered
    <2> QED
      BY <1>2, <2>1, <2>2 DEF Answered, Promise!Confirm
  <1>3. ASSUME NEW k \in Keys, Expire(k) PROVE Promise!Next
    BY <1>3 DEF Expire, Promise!Forget
  <1> QED
    BY <1>1, <1>2, <1>3
    DEF Next, vars, Dispatch, ExpireLegacy, Step, Mishap, ClaimWon, ClaimSeen,
        ClaimContended, ClaimFails, ChannelRefuses, AnswerLost, Released, ReleaseFails,
        Cancel, Return, Die

\* The dispatcher implements Delivery, for every set of alerts and channels: no delivery
\* on record is repeated before its claim expires, in particular not because another
\* channel failed, and nothing is recorded that no channel took.
THEOREM Implementation == Spec => Delivers
  <1>1. Init => Promise!Init
    BY DEF Init, Promise!Init
  <1> QED
    BY <1>1, StepSimulation, Invariance, PTL DEF Spec, Delivers, Promise!Spec, Promise!vars
=============================================================================
