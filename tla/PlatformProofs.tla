--------------------------- MODULE PlatformProofs ---------------------------
(***************************************************************************)
(* The variables of every component of MCPlatform keep their types, for    *)
(* every value of the constants.  Most of it the components' own           *)
(* invariants say; what they leave out is proved here: the proxy slots,    *)
(* the counters and bounds, and the rows that transactions carry.          *)
(***************************************************************************)
EXTENDS PricingProofs, ServiceProofs, StoreProofs, OutcomeProofs

----------------------------------------------------------------------------
(* Sets of slots in the order of a measure.                                *)

\* A sequence of a set's members by which a measure grows.
Sorts(order, S, measure) ==
    /\ order \in [1 .. Cardinality(S) -> S]
    /\ \A j, k \in 1 .. Cardinality(S) : j < k => measure[order[j]] < measure[order[k]]

\* The least member, and then the others in their order.
LEMMA LeastFirst ==
    ASSUME NEW S, IsFiniteSet(S), NEW measure, NEW e \in S, NEW tail,
           \A f \in S : measure[f] \in Nat,
           \A f \in S \ {e} : measure[e] < measure[f],
           Sorts(tail, S \ {e}, measure)
    PROVE  \E order : Sorts(order, S, measure)
  <1> DEFINE n == Cardinality(S)
             order == [k \in 1 .. n |-> IF k = 1 THEN e ELSE tail[k - 1]]
  <1>1. n \in Nat /\ n > 0 /\ Cardinality(S \ {e}) = n - 1
    BY FS_RemoveElement, FS_CardinalityType, FS_EmptySet
  <1> HIDE DEF n
  <1>2. tail \in [1 .. n - 1 -> S \ {e}]
        /\ \A j, k \in 1 .. n - 1 : j < k => measure[tail[j]] < measure[tail[k]]
    BY <1>1 DEF Sorts
  <1>3. \A k \in 2 .. n : order[k] = tail[k - 1] /\ order[k] \in S \ {e}
    BY <1>1, <1>2
  <1>4. order \in [1 .. n -> S] /\ order[1] = e
    <2>1. ASSUME NEW k \in 1 .. n PROVE (IF k = 1 THEN e ELSE tail[k - 1]) \in S
      <3>1. CASE k = 1
        BY <3>1
      <3>2. CASE k # 1
        <4>1. k - 1 \in 1 .. n - 1
          BY <1>1, <2>1, <3>2
        <4> QED
          BY <1>2, <3>2, <4>1
      <3> QED
        BY <3>1, <3>2
    <2>2. 1 \in 1 .. n
      BY <1>1
    <2> QED
      BY <2>1, <2>2
  <1>5. ASSUME NEW j \in 1 .. n, NEW k \in 1 .. n, j < k
        PROVE  measure[order[j]] < measure[order[k]]
    <2>1. k \in 2 .. n /\ k - 1 \in 1 .. n - 1
      BY <1>1, <1>5
    <2>2. CASE j = 1
      BY <1>3, <1>4, <2>1, <2>2
    <2>3. CASE j # 1
      <3>1. j \in 2 .. n /\ j - 1 \in 1 .. n - 1 /\ j - 1 < k - 1
        BY <1>1, <1>5, <2>3
      <3> QED
        BY <1>2, <1>3, <2>1, <3>1
    <2> QED
      BY <2>2, <2>3
  <1> HIDE DEF order
  <1> QED
    BY <1>4, <1>5 DEF Sorts, n

LEMMA Sortable ==
    ASSUME NEW U, IsFiniteSet(U), NEW measure, \A i \in U : measure[i] \in Nat,
           \A i, j \in U : measure[i] = measure[j] => i = j
    PROVE  \A S \in SUBSET U : \E order : Sorts(order, S, measure)
  <1> DEFINE Unsorted(S) == ~ \E order : Sorts(order, S, measure)
             sizes == { n \in Nat : \E S \in SUBSET U : Unsorted(S) /\ Cardinality(S) = n }
  <1> SUFFICES ASSUME NEW S0 \in SUBSET U, Unsorted(S0) PROVE FALSE
    OBVIOUS
  <1>1. \A S \in SUBSET U : IsFiniteSet(S) /\ Cardinality(S) \in Nat
    BY FS_Subset, FS_CardinalityType
  <1>2. Cardinality(S0) \in sizes
    BY <1>1
  <1>3. PICK n \in sizes : \A m \in sizes : n <= m
    BY <1>2, Smallest
  <1>4. PICK S \in SUBSET U : Unsorted(S) /\ Cardinality(S) = n
    OBVIOUS
  <1>5. CASE S = {}
    <2>1. Cardinality(S) = 0
      BY <1>5, FS_EmptySet
    <2>2. Sorts([k \in 1 .. 0 |-> k], S, measure)
      BY <2>1 DEF Sorts
    <2> QED
      BY <1>4, <2>2
  <1>6. CASE S # {}
    <2>1. PICK e \in S : \A f \in S : measure[e] <= measure[f]
      BY <1>6, LeastOf
    <2>2. \A f \in S \ {e} : measure[e] < measure[f]
      BY <2>1
    <2>3. S \ {e} \in SUBSET U /\ Cardinality(S \ {e}) = n - 1
      BY <1>1, <1>4, FS_RemoveElement
    <2>4. n \in Nat /\ n - 1 \in Nat
      BY <1>1, <2>3
    <2>5. n - 1 \notin sizes
      BY <1>3, <2>4
    <2>6. PICK tail : Sorts(tail, S \ {e}, measure)
      BY <2>3, <2>4, <2>5
    <2> HIDE DEF Unsorted
    <2>7. \E order : Sorts(order, S, measure)
      BY <1>1, <2>2, <2>6, LeastFirst
    <2> QED
      BY <1>4, <2>7 DEF Unsorted
  <1> QED
    BY <1>5, <1>6

----------------------------------------------------------------------------
(* ProxyHealth: what a loader has left to try are slots of the pool.       *)

LEMMA ProxySteps == [Next]_vars => Health!HealthNext \/ UNCHANGED proxyVars
  BY DEF Next, Only, vars

LEMMA ProxyConstants ==
    /\ PoolSize \in Nat /\ PoolSize > 0 /\ Threshold \in Nat /\ Threshold > 0
    /\ Cooldown \in Nat /\ ClaimWindow \in Nat /\ MaxTrouble \in Nat
    /\ MaxFailover \in Nat /\ MaxFailover > 0
    /\ Health!Slots = 0 .. PoolSize - 1
  BY PlatformAssumption DEF Health!HealthAssumption, Health!Slots

\* An attempt holds at least one slot, and no more than a pass may try.
Attempt(f) ==
    /\ f \in [slots : Seq(Health!Slots), shared : BOOLEAN]
    /\ Len(f.slots) <= MaxFailover
    /\ f # Health!Idle => f.slots # <<>>

ProxyInv ==
    /\ up \subseteq Health!Slots /\ quarantined \subseteq Health!Slots
    /\ strikes \in [Health!Slots -> 0 .. Threshold]
    /\ cool \in [Health!Slots -> 0 .. Cooldown] /\ claim \in [Health!Slots -> 0 .. ClaimWindow]
    /\ cursor \in Health!Slots /\ trouble \in 0 .. MaxTrouble
    /\ flight = [w \in Loaders |-> flight[w]]
    /\ \A w \in Loaders : Attempt(flight[w])

LEMMA ProxyInitInv == Health!HealthInit => ProxyInv
  <1> SUFFICES ASSUME Health!HealthInit PROVE ProxyInv
    OBVIOUS
  <1>1. Attempt(Health!Idle)
    BY ProxyConstants DEF Attempt, Health!Idle
  <1> QED
    BY <1>1, ProxyConstants DEF Health!HealthInit, ProxyInv

LEMMA AlongTheRotation ==
    ASSUME NEW start \in Health!Slots
    PROVE  /\ \A i \in Health!Slots : Health!Along(start, i) \in 0 .. PoolSize - 1
           /\ \A i, j \in Health!Slots : Health!Along(start, i) = Health!Along(start, j) => i = j
  BY ProxyConstants DEF Health!Along

LEMMA RotationOfSlots ==
    ASSUME NEW start \in Health!Slots
    PROVE  /\ Health!FilterRotation(start) \in Seq(Health!Slots)
           /\ Health!FilterRotation(start) # <<>>
  <1> DEFINE eligible == {i \in Health!Slots : Health!Eligible(i)}
             kept == IF eligible = {} THEN Health!Slots ELSE eligible
             measure == [i \in Health!Slots |->
                           Health!Along(start, i) + IF Health!Healthy(i) THEN 0 ELSE PoolSize]
             ordered(order) == \A j, k \in DOMAIN order :
                                  j < k => Health!Before(start, order[j], order[k])
  <1>1. kept \in SUBSET Health!Slots /\ kept # {}
    BY ProxyConstants
  <1>2. IsFiniteSet(Health!Slots)
    BY ProxyConstants, FS_Interval
  <1>3. ASSUME NEW i \in Health!Slots PROVE measure[i] \in Nat
    <2>1. Health!Along(start, i) \in 0 .. PoolSize - 1
      BY AlongTheRotation
    <2> QED
      BY <2>1, ProxyConstants
  <1>4. \A i, j \in Health!Slots :
            /\ measure[i] = measure[j] => i = j
            /\ measure[i] < measure[j] => Health!Before(start, i, j)
    <2> SUFFICES ASSUME NEW i \in Health!Slots, NEW j \in Health!Slots
                 PROVE  /\ measure[i] = measure[j] => i = j
                        /\ measure[i] < measure[j] => Health!Before(start, i, j)
      OBVIOUS
    <2>1. Health!Along(start, i) \in 0 .. PoolSize - 1
          /\ Health!Along(start, j) \in 0 .. PoolSize - 1
          /\ (Health!Along(start, i) = Health!Along(start, j) => i = j)
      BY AlongTheRotation
    <2> QED
      BY <2>1, ProxyConstants DEF Health!Before
  <1> HIDE DEF measure, kept
  <1>5. PICK order : Sorts(order, kept, measure)
    BY <1>1, <1>2, <1>3, <1>4, Sortable
  <1>6. IsFiniteSet(kept) /\ Cardinality(kept) \in Nat /\ Cardinality(kept) # 0
    BY <1>1, <1>2, FS_Subset, FS_CardinalityType, FS_EmptySet
  <1>7. Health!SetToSeqs(kept)
          = {f \in [1 .. Cardinality(kept) -> kept] :
               \A i, j \in 1 .. Cardinality(kept) : i # j => f[i] # f[j]}
    BY Zenon DEF Health!SetToSeqs, Health!Cardinality, Cardinality
  <1>8. order \in Health!SetToSeqs(kept) /\ ordered(order)
    <2>1. order \in [1 .. Cardinality(kept) -> kept]
          /\ \A j, k \in 1 .. Cardinality(kept) : j < k => measure[order[j]] < measure[order[k]]
      BY <1>5 DEF Sorts
    <2>2. ASSUME NEW j \in 1 .. Cardinality(kept), NEW k \in 1 .. Cardinality(kept), j # k
          PROVE  order[j] # order[k]
      <3>1. j < k \/ k < j
        BY <1>6, <2>2
      <3>2. measure[order[j]] \in Nat /\ measure[order[k]] \in Nat
        BY <1>1, <1>3, <2>1
      <3> QED
        BY <2>1, <3>1, <3>2
    <2>3. ordered(order)
      BY <1>1, <1>4, <2>1
    <2> QED
      BY <1>7, <2>1, <2>2, <2>3
  <1>9. Health!FilterRotation(start) = CHOOSE o \in Health!SetToSeqs(kept) : ordered(o)
    BY Zenon DEF Health!FilterRotation, kept
  <1> HIDE DEF ordered
  <1>10. Health!FilterRotation(start) \in Health!SetToSeqs(kept)
    BY <1>8, <1>9
  <1>11. Health!FilterRotation(start) \in [1 .. Cardinality(kept) -> kept]
    BY <1>7, <1>10
  <1> QED
    BY <1>1, <1>6, <1>11

\* The part of a rotation that a capped pass tries.
LEMMA CappedPass ==
    ASSUME NEW start \in Health!Slots, NEW shared \in BOOLEAN
    PROVE  LET order == Health!FilterRotation(start)
           IN  Attempt([slots |-> SubSeq(order, 1, Health!UpTo(Len(order), MaxFailover)),
                        shared |-> shared])
  <1> DEFINE order == Health!FilterRotation(start)
             n == Health!UpTo(Len(order), MaxFailover)
  <1>1. order \in Seq(Health!Slots) /\ order # <<>>
    BY RotationOfSlots
  <1> HIDE DEF order
  <1>2. Len(order) \in Nat /\ Len(order) > 0
    BY <1>1
  <1>3. n \in 1 .. Len(order) /\ n <= MaxFailover
    BY <1>2, ProxyConstants DEF Health!UpTo
  <1> HIDE DEF n
  <1>4. SubSeq(order, 1, n) \in Seq(Health!Slots) /\ Len(SubSeq(order, 1, n)) = n
    BY <1>1, <1>2, <1>3, SubSeqProperties
  <1>5. SubSeq(order, 1, n) # <<>>
    BY <1>3, <1>4
  <1> HIDE DEF Health!Idle
  <1> QED
    BY <1>3, <1>4, <1>5, ProxyConstants DEF Attempt, order, n

\* The slot an attempt probes next.
LEMMA FirstOfAttempt ==
    ASSUME NEW f, Attempt(f), f # Health!Idle
    PROVE  f.slots[1] \in Health!Slots /\ Health!After(f.slots[1]) \in Health!Slots
  <1>1. f.slots \in Seq(Health!Slots) /\ f.slots # <<>>
    BY DEF Attempt
  <1>2. f.slots[1] \in Health!Slots
    BY <1>1
  <1>3. \A i \in Nat : (i + 1) % PoolSize \in 0 .. PoolSize - 1
    BY ProxyConstants
  <1> QED
    BY <1>2, <1>3, ProxyConstants DEF Health!After

LEMMA AttemptMoves ==
    ASSUME ProxyInv, NEW w \in Loaders, flight[w] # Health!Idle,
           \/ Health!Advance(w)
           \/ /\ flight' = [flight EXCEPT ![w] = Health!Idle]
              /\ cursor' = IF flight[w].shared THEN Health!After(flight[w].slots[1]) ELSE cursor
    PROVE  /\ flight' = [v \in Loaders |-> flight'[v]] /\ cursor' \in Health!Slots
           /\ \A v \in Loaders : Attempt(flight'[v])
  <1>1. Attempt(flight[w]) /\ Attempt(Health!Idle)
    BY ProxyConstants DEF ProxyInv, Attempt, Health!Idle
  <1>2. Health!After(flight[w].slots[1]) \in Health!Slots
    BY <1>1, FirstOfAttempt
  <1>3. PICK f : f = [flight[w] EXCEPT !.slots = Tail(@)]
    OBVIOUS
  <1>4. Len(flight[w].slots) > 1 => Attempt(f)
    <2> SUFFICES ASSUME Len(flight[w].slots) > 1 PROVE Attempt(f)
      OBVIOUS
    <2>1. flight[w].slots \in Seq(Health!Slots) /\ flight[w].slots # <<>>
          /\ Len(flight[w].slots) <= MaxFailover /\ flight[w].shared \in BOOLEAN
      BY <1>1 DEF Attempt
    <2>2. /\ Tail(flight[w].slots) \in Seq(Health!Slots)
          /\ Len(Tail(flight[w].slots)) = Len(flight[w].slots) - 1
      BY <2>1
    <2>3. Len(Tail(flight[w].slots)) > 0
      BY <2>1, <2>2
    <2>4. f = [slots |-> Tail(flight[w].slots), shared |-> flight[w].shared]
      BY <1>1, <1>3 DEF Attempt
    <2>5. Tail(flight[w].slots) # <<>>
      <3>1. ASSUME NEW rest, Len(rest) > 0 PROVE rest # <<>>
        BY <3>1
      <3> QED
        BY <2>3, <3>1
    <2>6. Len(Tail(flight[w].slots)) <= MaxFailover
      <3>1. MaxFailover \in Nat /\ Len(flight[w].slots) \in Nat
        BY <2>1, ProxyConstants
      <3> QED
        BY <2>1, <2>2, <3>1
    <2> HIDE DEF Health!Idle
    <2>7. f.slots = Tail(flight[w].slots) /\ f.shared = flight[w].shared
      BY <2>4
    <2> QED
      BY <2>1, <2>2, <2>4, <2>5, <2>6, <2>7 DEF Attempt
  <1>5. \/ flight' = [flight EXCEPT ![w] = Health!Idle] /\ cursor' \in Health!Slots
        \/ Len(flight[w].slots) > 1 /\ flight' = [flight EXCEPT ![w] = f] /\ cursor' = cursor
    BY <1>2, <1>3 DEF Health!Advance, ProxyInv
  <1> QED
    BY <1>1, <1>4, <1>5 DEF ProxyInv

\* Neither an outcome nor the passing of time leaves the range of a slot's counters.
LEMMA SlotCounters ==
    ASSUME ProxyInv, NEW i \in Health!Slots,
           Health!RecordSuccess(i) \/ Health!RecordFailure(i)
    PROVE  /\ quarantined' \subseteq Health!Slots
           /\ strikes' \in [Health!Slots -> 0 .. Threshold]
           /\ cool' \in [Health!Slots -> 0 .. Cooldown]
           /\ claim' \in [Health!Slots -> 0 .. ClaimWindow]
  <1>1. CASE Health!RecordSuccess(i)
    <2>1. 0 \in 0 .. Threshold /\ 0 \in 0 .. Cooldown /\ 0 \in 0 .. ClaimWindow
      BY ProxyConstants
    <2> QED
      BY <1>1, <2>1 DEF Health!RecordSuccess, ProxyInv
  <1>2. CASE Health!RecordFailure(i)
    <2>0. strikes[i] \in 0 .. Threshold /\ Threshold \in Nat /\ Threshold > 0
      BY ProxyConstants DEF ProxyInv
    <2>1. strikes[i] \in 0 .. Threshold /\ Health!UpTo(strikes[i] + 1, Threshold) \in 0 .. Threshold
      BY <2>0 DEF Health!UpTo
    <2>2. strikes' \in [Health!Slots -> 0 .. Threshold]
      BY <1>2, <2>1 DEF Health!RecordFailure, ProxyInv
    <2>3. /\ quarantined' = quarantined \/ quarantined' = quarantined \cup {i}
          /\ cool' = cool \/ cool' = [cool EXCEPT ![i] = Cooldown]
          /\ claim' = claim \/ claim' = [claim EXCEPT ![i] = 0]
      BY <1>2 DEF Health!RecordFailure
    <2> QED
      <3>0. Cooldown \in 0 .. Cooldown /\ 0 \in 0 .. ClaimWindow
        BY ProxyConstants
      <3>1. cool' \in [Health!Slots -> 0 .. Cooldown]
        BY <2>3, <3>0 DEF ProxyInv
      <3>2. claim' \in [Health!Slots -> 0 .. ClaimWindow]
        BY <2>3, <3>0 DEF ProxyInv
      <3>3. quarantined' \subseteq Health!Slots
        BY <2>3 DEF ProxyInv
      <3> QED
        BY <2>2, <3>1, <3>2, <3>3
  <1> QED
    BY <1>1, <1>2

LEMMA ProxyNextInv ==
    ASSUME ProxyInv, Health!HealthNext PROVE ProxyInv'
  <1>1. CASE Health!Tick
    <2>1. ASSUME NEW max \in Nat, NEW n \in 0 .. max PROVE Health!Down(n) \in 0 .. max
      BY <2>1 DEF Health!Down
    <2>2. cool' = [i \in Health!Slots |-> Health!Down(cool[i])]
          /\ claim' = [i \in Health!Slots |-> Health!Down(claim[i])]
          /\ UNCHANGED <<up, strikes, quarantined, cursor, flight, trouble>>
      BY <1>1 DEF Health!Tick
    <2>3. \A i \in Health!Slots : /\ Health!Down(cool[i]) \in 0 .. Cooldown
                                  /\ Health!Down(claim[i]) \in 0 .. ClaimWindow
      BY <2>1, ProxyConstants DEF ProxyInv
    <2> QED
      BY <2>2, <2>3 DEF ProxyInv
  <1>2. ASSUME NEW i \in Health!Slots, Health!FanOutEnds(i) \/ Health!Flip(i) PROVE ProxyInv'
    <2>1. CASE Health!FanOutEnds(i)
      BY <2>1 DEF Health!FanOutEnds, ProxyInv
    <2>2. CASE Health!Flip(i)
      <3>0. MaxTrouble \in Nat
        BY ProxyConstants
      <3>1. trouble' \in 0 .. MaxTrouble
        BY <2>2, <3>0 DEF Health!Flip, ProxyInv
      <3>2. up' \subseteq Health!Slots
        BY <2>2 DEF Health!Flip, ProxyInv
      <3> QED
        BY <2>2, <3>1, <3>2 DEF Health!Flip, ProxyInv
    <2> QED
      BY <1>2, <2>1, <2>2
  <1>3. ASSUME NEW w \in Loaders, Health!Select(w) PROVE ProxyInv'
    <2> DEFINE eligible == {i \in Health!Slots : Health!Eligible(i)}
               offered == IF eligible = {} THEN {cursor} ELSE eligible
               next(e) == \A j \in eligible : Health!Along(cursor, e) <= Health!Along(cursor, j)
    <2>1. cursor \in Health!Slots
      BY DEF ProxyInv
    <2>2. \E e \in offered : next(e)
      <3>1. CASE eligible = {}
        BY <3>1
      <3>2. CASE eligible # {}
        <4> DEFINE along == [i \in Health!Slots |-> Health!Along(cursor, i)]
        <4>1. ASSUME NEW i \in eligible PROVE along[i] \in Nat
          BY <2>1, AlongTheRotation
        <4> HIDE DEF along, eligible
        <4>2. PICK i \in eligible : \A j \in eligible : along[i] <= along[j]
          BY <3>2, <4>1, LeastOf
        <4>3. eligible \subseteq Health!Slots
          BY DEF eligible
        <4> QED
          BY <3>2, <4>2, <4>3 DEF along
      <3> QED
        BY <3>1, <3>2
    <2>3. PICK i : i = CHOOSE e \in offered : next(e)
      OBVIOUS
    <2>4. i \in Health!Slots
      BY <2>1, <2>2, <2>3
    <2>5. /\ flight' = [flight EXCEPT ![w] = [slots |-> <<i>>, shared |-> FALSE]]
          /\ claim' = [claim EXCEPT ![i] = IF Health!HalfOpen(i) /\ Health!Eligible(i)
                                           THEN ClaimWindow ELSE @]
          /\ cursor' = Health!After(i)
          /\ UNCHANGED <<up, strikes, quarantined, cool, trouble>>
      BY <1>3, <2>3 DEF Health!Select
    <2> HIDE DEF offered, next
    <2>6. Attempt([slots |-> <<i>>, shared |-> FALSE])
      BY <2>4, ProxyConstants DEF Attempt, Health!Idle
    <2>7. cursor' \in Health!Slots
      <3>1. Health!After(i) \in Health!Slots
        BY <2>6, FirstOfAttempt DEF Health!Idle
      <3> QED
        BY <2>5, <3>1
    <2>8. claim' \in [Health!Slots -> 0 .. ClaimWindow]
      <3>1. ClaimWindow \in 0 .. ClaimWindow
        BY ProxyConstants
      <3>2. claim' = claim \/ claim' = [claim EXCEPT ![i] = ClaimWindow]
        BY <2>5 DEF ProxyInv
      <3> QED
        BY <3>1, <3>2 DEF ProxyInv
    <2> QED
      BY <2>5, <2>6, <2>7, <2>8 DEF ProxyInv
  <1>4. ASSUME NEW w \in Loaders, Health!Succeed(w) PROVE ProxyInv'
    <2>1. flight[w] # Health!Idle /\ flight[w].slots[1] \in Health!Slots
          /\ Health!RecordSuccess(flight[w].slots[1]) /\ UNCHANGED <<up, trouble>>
      BY <1>4, FirstOfAttempt DEF Health!Succeed, ProxyInv
    <2>2. /\ flight' = [v \in Loaders |-> flight'[v]] /\ cursor' \in Health!Slots
          /\ \A v \in Loaders : Attempt(flight'[v])
      BY <1>4, <2>1, AttemptMoves DEF Health!Succeed
    <2> QED
      BY <2>1, <2>2, SlotCounters DEF ProxyInv
  <1>5. ASSUME NEW w \in Loaders, Health!EmptyResult(w) \/ Health!FailOver(w) PROVE ProxyInv'
    <2>1. flight[w] # Health!Idle /\ flight[w].slots[1] \in Health!Slots
          /\ Health!Advance(w) /\ UNCHANGED <<up, trouble>>
          /\ \/ Health!RecordSuccess(flight[w].slots[1])
             \/ Health!RecordFailure(flight[w].slots[1])
      BY <1>5, FirstOfAttempt DEF Health!EmptyResult, Health!FailOver, ProxyInv
    <2>2. /\ flight' = [v \in Loaders |-> flight'[v]] /\ cursor' \in Health!Slots
          /\ \A v \in Loaders : Attempt(flight'[v])
      BY <2>1, AttemptMoves
    <2> QED
      BY <2>1, <2>2, SlotCounters DEF ProxyInv
  <1>6. ASSUME NEW w \in Loaders, Health!Abandon(w) PROVE ProxyInv'
    <2>1. Attempt(Health!Idle)
      BY ProxyConstants DEF Attempt, Health!Idle
    <2> QED
      <3>0. MaxTrouble \in Nat
        BY ProxyConstants
      <3>1. trouble' \in 0 .. MaxTrouble
        BY <1>6, <3>0 DEF Health!Abandon, ProxyInv
      <3> QED
        BY <1>6, <2>1, <3>1 DEF Health!Abandon, ProxyInv
  <1>7. ASSUME NEW w \in Loaders, NEW shared \in BOOLEAN, NEW base \in Health!Slots,
               Health!Sweep(w, shared, base)
        PROVE  ProxyInv'
    <2>1. PICK f : /\ Attempt(f) /\ flight' = [flight EXCEPT ![w] = f]
                   /\ UNCHANGED <<up, strikes, quarantined, cool, claim, cursor, trouble>>
      BY <1>7, CappedPass DEF Health!Sweep
    <2> QED
      BY <2>1 DEF ProxyInv
  <1>8. cursor \in Health!Slots
    BY DEF ProxyInv
  <1> QED
    BY <1>1, <1>2, <1>3, <1>4, <1>5, <1>6, <1>7, <1>8 DEF Health!HealthNext

LEMMA ProxyInvariant == Spec => []ProxyInv
  <1>1. Init => ProxyInv
    BY ProxyInitInv DEF Init
  <1>2. ProxyInv /\ [Next]_vars => ProxyInv'
    <2>1. ProxyInv /\ UNCHANGED proxyVars => ProxyInv'
      BY DEF proxyVars, ProxyInv
    <2> QED
      BY <2>1, ProxySteps, ProxyNextInv
  <1> QED
    BY <1>1, <1>2, PTL DEF Spec

LEMMA ProxiesTyped == ProxyInv => Health!HealthTypeOK
  <1> SUFFICES ASSUME ProxyInv PROVE Health!HealthTypeOK
    OBVIOUS
  <1>1. ASSUME NEW w \in Loaders
        PROVE  /\ flight[w].shared \in BOOLEAN
               /\ Len(flight[w].slots) <= MaxFailover
               /\ Health!ToSet(flight[w].slots) \subseteq Health!Slots
    <2>1. Attempt(flight[w])
      BY DEF ProxyInv
    <2> QED
      BY <2>1 DEF Attempt, Health!ToSet
  <1> QED
    BY <1>1 DEF ProxyInv, Health!HealthTypeOK

----------------------------------------------------------------------------
(* Components whose invariants already hold their types.                   *)

LEMMA InvariantsType ==
    /\ LifeInv => Life!TypeOK
    /\ GateInv => Gate!InPlayTypeOK
    /\ EvidenceInv => Evidence!EvidenceTypeOK
    /\ ScoreInv => Scores!ScoreTypeOK
    /\ GradesInv => Grades!GradeTypeOK
    /\ LinesInv => Market!LinesTypeOK
  BY DEF LifeInv, GateInv, EvidenceInv, ScoreInv, GradesInv, LinesInv

LEMMA BookIsTyped == BookInv => Bankroll!BankrollTypeOK
  <1> SUFFICES ASSUME BookInv PROVE Bankroll!BankrollTypeOK
    OBVIOUS
  <1>1. BookTyped
    BY DEF BookInv
  <1>2. ASSUME NEW s \in Bankroll!Syncs PROVE sync[s] \in SyncType
    BY <1>1 DEF BookTyped
  <1> QED
    BY <1>1, <1>2 DEF BookTyped, SyncType, Bankroll!BankrollTypeOK

----------------------------------------------------------------------------
(* SelfAudit: the bounds, and what was seen and told.                      *)

AuditRest ==
    /\ deadTold \in BOOLEAN
    /\ restarts \in 0 .. MaxRestarts /\ undelivered \in 0 .. MaxUndelivered
    /\ seen \subseteq Self!Anomalies \cup {DeadMan} /\ told \subseteq Self!Anomalies \cup {DeadMan}

LEMMA AuditRestInvariant == Spec => []AuditRest
  <1>0. MaxRestarts \in Nat /\ MaxUndelivered \in Nat
    BY PlatformAssumption DEF Self!AuditAssumption
  <1>1. Init => AuditRest
    <2> SUFFICES ASSUME Self!AuditInit PROVE AuditRest
      BY DEF Init
    <2>1. deadTold = FALSE /\ restarts = 0 /\ undelivered = 0 /\ seen = {} /\ told = {}
      BY DEF Self!AuditInit
    <2>2. deadTold \in BOOLEAN
      BY <2>1
    <2>3. restarts \in 0 .. MaxRestarts /\ undelivered \in 0 .. MaxUndelivered
      BY <1>0, <2>1
    <2> QED
      BY <2>1, <2>2, <2>3 DEF AuditRest
  <1>2. AuditInv /\ AuditRest /\ [Next]_vars => AuditRest'
    <2> SUFFICES ASSUME AuditInv, AuditRest, Self!AuditNext \/ UNCHANGED auditVars
                 PROVE  AuditRest'
      BY AuditSteps
    <2>1. pending \subseteq Self!Anomalies \cup {DeadMan}
      BY DEF AuditInv, AuditTyped
    <2>2. CASE Self!AuditRestart
      <3>1. /\ restarts < MaxRestarts /\ restarts' = restarts + 1 /\ undelivered' = undelivered
            /\ deadTold' = FALSE /\ seen' = {} /\ told' = {}
        BY <2>2 DEF Self!AuditRestart
      <3>2. deadTold' \in BOOLEAN
        BY <3>1
      <3>3. restarts' \in 0 .. MaxRestarts /\ undelivered' \in 0 .. MaxUndelivered
        BY <1>0, <3>1 DEF AuditRest
      <3> QED
        BY <3>1, <3>2, <3>3 DEF AuditRest
    <2>3. ASSUME NEW found \in SUBSET Self!Anomalies, NEW fresh \in BOOLEAN,
                 Self!Audit(found, fresh)
          PROVE  AuditRest'
      <3>1. /\ seen' \subseteq found \cup {DeadMan} /\ told' \subseteq told
            /\ deadTold' \in BOOLEAN /\ UNCHANGED <<restarts, undelivered>>
        BY <2>3 DEF Self!Audit, Self!History
      <3> QED
        BY <3>1 DEF AuditRest
    <2>4. ASSUME NEW k \in pending, Self!Confirm(k) PROVE AuditRest'
      BY <2>1, <2>4 DEF Self!Confirm, AuditRest
    <2>5. ASSUME NEW k \in pending, Self!Undelivered(k) PROVE AuditRest'
      BY <1>0, <2>5 DEF Self!Undelivered, AuditRest
    <2>6. CASE UNCHANGED auditVars
      BY <2>6 DEF auditVars, AuditRest
    <2> QED
      BY <2>2, <2>3, <2>4, <2>5, <2>6 DEF Self!AuditNext
  <1> QED
    BY <1>1, <1>2, AuditInvariant, PTL DEF Spec

LEMMA AuditIsTyped == AuditInv /\ AuditRest => Self!AuditTypeOK
  BY DEF AuditInv, AuditTyped, AuditRest, Self!AuditTypeOK

----------------------------------------------------------------------------
(* ProxySessions: the cycle, and how many sessions and leases there are.   *)

SessionsRest ==
    /\ cycles \in 0 .. MaxFetches
    /\ fetching \in BOOLEAN /\ cancelled \in BOOLEAN /\ complete \in BOOLEAN
    /\ avoid \in [Pages -> SUBSET Proxies]

\* The proxy of the session that a page gives up.
LEMMA LeasedProxy ==
    ASSUME SessionsInv, NEW pg \in Pages, page[pg] \in Borrowing
    PROVE  lease[pg][1] \in Proxies
  <1>1. lease[pg] \in Pool!Sessions
    BY DEF SessionsInv, PoolTyped, PagesSound
  <1> QED
    BY <1>1, SessionPairs

LEMMA SessionsRestInvariant == Spec => []SessionsRest
  <1>0. MaxFetches \in Nat
    BY PlatformAssumption DEF Pool!SessionsAssumption
  <1>1. Init => SessionsRest
    <2> SUFFICES ASSUME Pool!SessionsInit PROVE SessionsRest
      BY DEF Init
    <2>1. /\ cycles = 0 /\ fetching = FALSE /\ cancelled = FALSE /\ complete = TRUE
          /\ avoid = [pg \in Pages |-> {}]
      BY DEF Pool!SessionsInit
    <2>2. fetching \in BOOLEAN /\ cancelled \in BOOLEAN /\ complete \in BOOLEAN
      BY <2>1
    <2>3. cycles \in 0 .. MaxFetches /\ avoid \in [Pages -> SUBSET Proxies]
      BY <1>0, <2>1
    <2> QED
      BY <2>2, <2>3 DEF SessionsRest
  <1>2. SessionsInv /\ SessionsRest /\ [Next]_vars => SessionsRest'
    <2> SUFFICES ASSUME SessionsInv, SessionsRest, Pool!SessionsNext \/ UNCHANGED sessionVars
                 PROVE  SessionsRest'
      BY PoolSteps
    <2>1. CASE Pool!Begin
      <3>1. /\ cycles < MaxFetches /\ cycles' = cycles + 1 /\ fetching' = TRUE
            /\ cancelled' = FALSE /\ complete' = FALSE /\ avoid' = [pg \in Pages |-> {}]
        BY <2>1 DEF Pool!Begin
      <3>2. cycles' \in 0 .. MaxFetches
        BY <1>0, <3>1 DEF SessionsRest
      <3> QED
        BY <3>1, <3>2 DEF SessionsRest
    <2>2. CASE Pool!Cancel \/ Pool!End
      BY <2>2 DEF Pool!Cancel, Pool!End, SessionsRest
    <2>3. ASSUME NEW pg \in Pages,
                 Pool!Fetch(pg) \/ Pool!Fetched(pg) \/ Pool!FailsOnce(pg) \/ Pool!Retry(pg)
                 \/ Pool!FailsForGood(pg) \/ Pool!Unwind(pg)
          PROVE  SessionsRest'
      <3>1. UNCHANGED <<cycles, fetching, cancelled, avoid, complete>>
        BY <2>3 DEF Pool!Fetch, Pool!Fetched, Pool!FailsOnce, Pool!Retry, Pool!FailsForGood,
                    Pool!Unwind
      <3> QED
        BY <3>1 DEF SessionsRest
    <2>4. ASSUME NEW pg \in Pages, Pool!Evict(pg) \/ Pool!FailsAgain(pg) PROVE SessionsRest'
      <3>1. page[pg] \in Borrowing
        BY <2>4 DEF Pool!Evict, Pool!FailsAgain, Pool!Turn, Borrowing
      <3>2. avoid' = [avoid EXCEPT ![pg] = {lease[pg][1]}]
            /\ UNCHANGED <<cycles, fetching, cancelled, complete>>
        BY <2>4 DEF Pool!Evict, Pool!FailsAgain, Pool!EvictAndReturn
      <3> QED
        BY <3>1, <3>2, LeasedProxy DEF SessionsRest
    <2>5. CASE UNCHANGED sessionVars
      BY <2>5 DEF sessionVars, SessionsRest
    <2> QED
      BY <2>1, <2>2, <2>3, <2>4, <2>5 DEF Pool!SessionsNext
  <1> QED
    BY <1>1, <1>2, SessionsInvariant, PTL DEF Spec

\* A proxy's last session is one of the pool's, and every lease is of a page.
LEMMA SessionsAreTyped == SessionsInv /\ SessionsRest => Pool!SessionsTypeOK
  <1> SUFFICES ASSUME SessionsInv, SessionsRest PROVE Pool!SessionsTypeOK
    OBVIOUS
  <1>1. PoolTyped /\ PoolSound
    BY DEF SessionsInv
  <1>2. ASSUME NEW x \in Proxies PROVE built[x] \in 0 .. Pool!MaxBuilt
    <2>1. built[x] \in Nat
      BY <1>1 DEF PoolTyped
    <2>2. CASE built[x] = 0
      <3>1. Pool!MaxBuilt \in Nat
        BY EvictionsBound
      <3> QED
        BY <2>2, <3>1
    <2>3. CASE built[x] # 0
      <3>1. <<x, built[x]>> \in EverBuilt
        BY <1>1, <2>1, <2>3 DEF PoolSound
      <3>2. <<x, built[x]>> \in Pool!Sessions
        BY <1>1, <3>1 DEF PoolTyped, EverBuilt
      <3> QED
        BY <2>1, <3>2 DEF Pool!Sessions
    <2> QED
      BY <2>2, <2>3
  <1>3. ASSUME NEW s \in Pool!Sessions PROVE leases[s] \in 0 .. Cardinality(Pages)
    <2>1. Borrowers(s) \subseteq Pages
      BY DEF Borrowers
    <2>2. Cardinality(Borrowers(s)) \in Nat /\ Cardinality(Pages) \in Nat
          /\ Cardinality(Borrowers(s)) <= Cardinality(Pages)
      BY <2>1, FinitePages, FS_Subset, FS_CardinalityType
    <2> QED
      BY <1>1, <2>2 DEF PoolSound
  <1>4. Pool!Cardinality(Pages) = Cardinality(Pages)
    BY Zenon DEF Pool!Cardinality, Cardinality
  <1>5. built \in [Proxies -> 0 .. Pool!MaxBuilt]
    BY <1>1, <1>2 DEF PoolTyped
  <1>6. leases \in [Pool!Sessions -> 0 .. Pool!Cardinality(Pages)]
    BY <1>1, <1>3, <1>4 DEF PoolTyped
  <1> QED
    BY <1>1, <1>5, <1>6 DEF PoolTyped, SessionsRest, Pool!SessionsTypeOK

----------------------------------------------------------------------------
(* PollHealth: the flags that say nothing of the records.                  *)

PollRest ==
    /\ guarded \in BOOLEAN /\ due \in BOOLEAN
    /\ \A s \in Polls!Fleet : withheld[s] \in BOOLEAN

LEMMA PollRestInvariant == Spec => []PollRest
  <1>1. Init => PollRest
    BY DEF Init, Polls!PollInit, PollRest
  <1>2. PollInv /\ PollRest /\ [Next]_vars => PollRest'
    <2> SUFFICES ASSUME PollInv, PollRest, Polls!PollNext \/ UNCHANGED healthVars
                 PROVE  PollRest'
      BY PollSteps
    <2>1. withheld = [s \in Polls!Fleet |-> withheld[s]]
      BY DEF PollInv, PollTyped
    <2>2. CASE Polls!SweepBegins \/ Polls!SlotSkipped \/ UNCHANGED healthVars
      BY <2>2 DEF Polls!SweepBegins, Polls!SlotSkipped, healthVars, PollRest
    <2>3. CASE Polls!CycleFails
      <3>1. withheld' = [withheld EXCEPT ![turn] = FALSE] /\ UNCHANGED <<guarded, due>>
        BY <2>3 DEF Polls!CycleFails, Polls!TurnOver
      <3> QED
        BY <2>1, <3>1 DEF PollRest
    <2>4. CASE Polls!TimePasses
      <3>1. due' \in BOOLEAN /\ UNCHANGED <<guarded, withheld>>
        BY <2>4 DEF Polls!TimePasses
      <3> QED
        BY <3>1 DEF PollRest
    <2>5. ASSUME NEW report \in Polls!Reports, Polls!CycleCompletes(report) PROVE PollRest'
      <3>1. PICK odds : odds = report.withholds
        OBVIOUS
      <3>2. odds \in BOOLEAN
        BY <3>1, ReportFields
      <3>3. withheld' = [withheld EXCEPT ![turn] = odds] /\ UNCHANGED <<guarded, due>>
        BY <2>5, <3>1 DEF Polls!CycleCompletes, Polls!TurnOver
      <3> QED
        BY <2>1, <3>2, <3>3 DEF PollRest
    <2> QED
      BY <2>2, <2>3, <2>4, <2>5 DEF Polls!PollNext
  <1> QED
    BY <1>1, <1>2, PollInvariant, PTL DEF Spec

LEMMA PollIsTyped == PollInv /\ PollRest => Polls!PollTypeOK
  <1> SUFFICES ASSUME PollInv, PollRest PROVE Polls!PollTypeOK
    OBVIOUS
  <1>1. PollTyped
    BY DEF PollInv
  <1>2. ASSUME NEW s \in Polls!Fleet
        PROVE  \/ lastPoll[s] = Polls!Unpolled /\ turn # s
               \/ /\ lastPoll[s].state \in {"in_progress", "completed", "failed"}
                  /\ lastPoll[s].state = "in_progress" <=> turn = s
                  /\ lastPoll[s].degraded \in BOOLEAN /\ lastPoll[s].run \in 0 .. RunThreshold
                  /\ lastPoll[s].finished \in Polls!Never .. Polls!Ceiling + 1
    <2>1. RecordSound(s)
      BY DEF PollInv
    <2>2. CASE lastPoll[s] \in Records
      <3>1. lastPoll[s].state = "in_progress" <=> turn = s
        BY <2>1, <2>2 DEF RecordSound
      <3> QED
        BY <2>2, <3>1 DEF Records
    <2>3. CASE lastPoll[s] \notin Records
      BY <1>1, <2>1, <2>3 DEF PollTyped, RecordSound
    <2> QED
      BY <2>2, <2>3
  <1>3. withheld \in [Polls!Fleet -> BOOLEAN]
    BY <1>1 DEF PollTyped, PollRest
  <1> QED
    BY <1>1, <1>2, <1>3 DEF PollTyped, PollRest, Polls!PollTypeOK

----------------------------------------------------------------------------
(* SnapshotStore: the bounds of the cycles, and the failed events.         *)

StoreRest ==
    /\ gateFirst \in BOOLEAN /\ captures \in 0 .. MaxCaptures
    /\ writing => captures < MaxCaptures
    /\ accidents \in 0 .. MaxAccidents /\ failed \subseteq Store!Events

LEMMA StoreInvariant == Spec => []StoreInv
  <1>1. Init => StoreInv
    BY StoreInitInv DEF Init
  <1> QED
    BY <1>1, StoreNextInv, PTL DEF Spec

LEMMA StoreRestInvariant == Spec => []StoreRest
  <1>0. MaxCaptures \in Nat /\ MaxAccidents \in Nat
    BY PlatformAssumption DEF Store!StoreAssumption
  <1>1. Init => StoreRest
    <2>1. Store!StoreInit => gateFirst \in BOOLEAN /\ captures = 0 /\ writing = FALSE
                             /\ accidents = 0 /\ failed = {}
      BY DEF Store!StoreInit
    <2> QED
      BY <1>0, <2>1 DEF Init, StoreRest
  <1>2. StoreRest /\ [Next]_vars => StoreRest'
    <2> SUFFICES ASSUME StoreRest, Store!StoreNext \/ UNCHANGED oddsVars
                 PROVE  StoreRest'
      BY StoreSteps
    <2>1. Store!Attempted \subseteq Store!Events
      BY DEF Store!Attempted, Store!Events, Store!ToWrite
    <2>2. ASSUME NEW prices, Store!Observe(prices) PROVE StoreRest'
      BY <2>2 DEF Store!Observe, StoreRest
    <2>3. ASSUME NEW q \in Quotes, Store!Sweep(q) PROVE StoreRest'
      BY <2>3 DEF Store!Sweep, StoreRest
    <2>4. ASSUME Store!EndCapture, gateFirst' = gateFirst, failed' \subseteq Store!Events,
                 Store!Mishap \/ accidents' = accidents
          PROVE  StoreRest'
      <3>1. writing' = FALSE /\ captures' \in 0 .. MaxCaptures
        BY <1>0, <2>4 DEF Store!EndCapture, StoreRest
      <3>2. accidents' \in 0 .. MaxAccidents
        BY <1>0, <2>4 DEF Store!Mishap, StoreRest
      <3> QED
        BY <2>4, <3>1, <3>2 DEF StoreRest
    <2>5. ASSUME NEW fails \in SUBSET Store!Attempted,
                 Store!Persist(fails) \/ Store!PersistUnheard(fails)
          PROVE  StoreRest'
      BY <2>1, <2>4, <2>5 DEF Store!Persist, Store!PersistUnheard
    <2>6. CASE Store!PersistFails
      BY <2>1, <2>4, <2>6 DEF Store!PersistFails
    <2>7. ASSUME NEW committed \in BOOLEAN, Store!StoreDies(committed) PROVE StoreRest'
      BY <2>4, <2>7 DEF Store!StoreDies
    <2>8. CASE UNCHANGED oddsVars
      BY <2>8 DEF oddsVars, StoreRest
    <2> QED
      BY <2>2, <2>3, <2>5, <2>6, <2>7, <2>8 DEF Store!StoreNext
  <1> QED
    BY <1>1, <1>2, PTL DEF Spec

\* Every row is of a cycle that has ended.
LEMMA StoreIsTyped == StoreInv /\ StoreRest => Store!StoreTypeOK
  <1> SUFFICES ASSUME StoreInv, StoreRest PROVE Store!StoreTypeOK
    OBVIOUS
  <1>1. StoreTyped
    BY DEF StoreInv
  <1>2. ASSUME NEW q \in Quotes, NEW shot \in Store!ToSet(stored[q]) PROVE shot \in Store!Row
    <2>1. stored[q] \in Seq(Shot)
      BY <1>1 DEF StoreTyped
    <2>2. shot \in Shot
      BY <2>1 DEF Store!ToSet
    <2>3. shot.at \in 1 .. captures
      BY DEF StoreInv, Shots
    <2>4. shot.at \in 1 .. MaxCaptures
      <3>1. captures \in 0 .. MaxCaptures /\ MaxCaptures \in Nat
        BY PlatformAssumption DEF StoreRest, Store!StoreAssumption
      <3> QED
        BY <2>3, <3>1
    <2> QED
      BY <2>2, <2>4 DEF Shot, Store!Row
  <1> QED
    BY <1>1, <1>2 DEF StoreTyped, StoreRest, Store!StoreTypeOK

----------------------------------------------------------------------------
(* EventIdentity: one row per reference, and only rows settle or queue.    *)

IdentityRest ==
    /\ Identity!IsInjective(minted)
    /\ settled \subseteq Identity!Minted /\ queue \subseteq Identity!Minted

\* A row is minted once, and what is refused is the move of a row.
LEMMA CommitRows ==
    ASSUME IdentityInv, IdentityRest, NEW s \in Identity!Sessions, Identity!Commit(s)
    PROVE  IdentityRest'
  <1>1. PICK d : d = session[s]
    OBVIOUS
  <1>2. /\ d.does # "idle" /\ IdentityTyped /\ DecisionHolds(s) /\ LinksHold
        /\ minted \in Seq(Refs)
    BY <1>1 DEF IdentityInv, IdentityTyped, Identity!Commit
  <1>3. /\ minted' = IF d.does = "mint" /\ d.event \notin Identity!Minted
                     THEN Append(minted, d.event) ELSE minted
        /\ queue' = IF d.does = "refuse" THEN queue \cup {d.event} ELSE queue
        /\ settled' = settled
    BY <1>1 DEF Identity!Commit
  <1>4. d.event \in Refs /\ (d.does = "refuse" => d.event \in Identity!Minted)
    <2>1. /\ d.ref \in Refs /\ d.event \in Refs
          /\ d.does = "refuse" => Known(d.ref) /\ d.event = Home(d.ref)
      BY <1>1, <1>2 DEF DecisionHolds
    <2> QED
      BY <1>2, <2>1 DEF Known, Home, LinksHold
  <1>5. Identity!IsInjective(minted') /\ Identity!Minted \subseteq (Identity!Minted)'
    <2>1. CASE minted' = minted
      BY <2>1 DEF IdentityRest, Identity!IsInjective, Identity!Minted
    <2>2. CASE d.event \notin Identity!Minted /\ minted' = Append(minted, d.event)
      <3>1. /\ Len(minted) \in Nat /\ DOMAIN minted = 1 .. Len(minted)
            /\ minted' \in Seq(Refs) /\ Len(minted') = Len(minted) + 1
            /\ minted'[Len(minted) + 1] = d.event
            /\ \A i \in 1 .. Len(minted) : minted'[i] = minted[i]
        BY <1>2, <1>4, <2>2, AppendProperties
      <3>2. DOMAIN minted' = 1 .. Len(minted) + 1
        BY <3>1
      <3>3. \A i \in 1 .. Len(minted) : minted[i] # d.event
        BY <2>2, <3>1 DEF Identity!Minted, Identity!ToSet
      <3>4. \A i, j \in 1 .. Len(minted) : minted[i] = minted[j] => i = j
        BY <3>1 DEF IdentityRest, Identity!IsInjective
      <3>5. ASSUME NEW i \in 1 .. Len(minted) + 1, NEW j \in 1 .. Len(minted) + 1,
                   minted'[i] = minted'[j]
            PROVE  i = j
        <4>1. /\ i \in 1 .. Len(minted) \/ i = Len(minted) + 1
              /\ j \in 1 .. Len(minted) \/ j = Len(minted) + 1
          BY <3>1
        <4> QED
          BY <3>1, <3>3, <3>4, <3>5, <4>1
      <3>6. Identity!IsInjective(minted')
        BY <3>2, <3>5 DEF Identity!IsInjective
      <3>7. Identity!Minted \subseteq (Identity!Minted)'
        BY <3>1, <3>2 DEF Identity!Minted, Identity!ToSet
      <3> QED
        BY <3>6, <3>7
    <2> QED
      BY <1>3, <2>1, <2>2
  <1> QED
    BY <1>3, <1>4, <1>5 DEF IdentityRest

LEMMA IdentityRestInvariant == Spec => []IdentityRest
  <1>1. Init => IdentityRest
    BY DEF Init, Identity!IdentityInit, IdentityRest, Identity!IsInjective
  <1>2. IdentityInv /\ IdentityRest /\ [Next]_vars => IdentityRest'
    <2> SUFFICES ASSUME IdentityInv, IdentityRest,
                        Identity!IdentityNext \/ UNCHANGED eventVars
                 PROVE  IdentityRest'
      BY IdentitySteps
    <2>1. ASSUME UNCHANGED <<minted, settled, queue>> PROVE IdentityRest'
      BY <2>1 DEF IdentityRest, Identity!IsInjective, Identity!Minted
    <2>2. ASSUME NEW e \in Refs, Identity!Settle(e) PROVE IdentityRest'
      BY <2>2 DEF Identity!Settle, IdentityRest, Identity!IsInjective, Identity!Minted
    <2>3. ASSUME NEW s, NEW r, NEW k, Identity!Resolve(s, r, k) PROVE IdentityRest'
      BY <2>1, <2>3 DEF Identity!Resolve, Identity!Decides
    <2>4. ASSUME NEW r, NEW k, Identity!Refresh(r, k) PROVE IdentityRest'
      BY <2>1, <2>4 DEF Identity!Refresh, Identity!Decides
    <2>5. CASE UNCHANGED eventVars
      BY <2>1, <2>5 DEF eventVars
    <2> QED
      BY <2>2, <2>3, <2>4, <2>5, CommitRows DEF Identity!IdentityNext
  <1> QED
    BY <1>1, <1>2, IdentityInvariant, PTL DEF Spec

LEMMA IdentityIsTyped == IdentityInv /\ IdentityRest => Identity!IdentityTypeOK
  <1> SUFFICES ASSUME IdentityInv, IdentityRest PROVE Identity!IdentityTypeOK
    OBVIOUS
  <1>1. IdentityTyped
    BY DEF IdentityInv
  <1>2. Identity!Minted \subseteq Refs
    BY <1>1 DEF IdentityTyped, Identity!Minted, Identity!ToSet
  <1> QED
    BY <1>1, <1>2 DEF IdentityTyped, IdentityRest, Identity!IdentityTypeOK

----------------------------------------------------------------------------
(* CloseLine: the rows, and the rows that cycle and transactions have read. *)

\* What was read of some rows.
RowsRead(rows) == DOMAIN rows \subseteq Versions /\ \A p \in DOMAIN rows : rows[p] \in Close!Row

CycleTyped ==
    /\ cycle.step \in {"idle", "detecting", "minting", "minted", "repricing", "mentioning"}
    /\ cycle.early \in BOOLEAN /\ cycle.tier \in {"volume", "premium"}
    /\ cycle.unsent \subseteq Versions /\ RowsRead(cycle.seen)
    /\ \A p \in DOMAIN cycle.verdict : cycle.verdict[p] \in Close!Verdicts
    /\ cycle.step = "repricing" => DOMAIN cycle.verdict \subseteq DOMAIN cycle.seen

TxTyped ==
    \A w \in Close!Settlers :
        tx[w].kind \in {"none", "auto", "event", "record", "finalize"} /\ RowsRead(tx[w].seen)

\* A cycle loses a price once at most.
LossesBound ==
    \A p \in Versions :
        /\ losses[p] <= polls
        /\ cycle.step \in {"detecting", "minting", "minted", "repricing"} => losses[p] < polls

CloseCounts ==
    /\ time \in {"before", "playing", "due"} /\ skipStreak \in [Versions -> 0 .. SkipLimit]
    /\ polls \in 0 .. MaxPolls /\ slips \in 0 .. MaxSlips /\ requests \in 0 .. MaxByHand

CloseRest ==
    /\ row \in [Versions -> Close!Row] /\ CycleTyped /\ TxTyped /\ LossesBound /\ CloseCounts

LEMMA CloseConstants ==
    SkipLimit \in Nat /\ MaxPolls \in Nat /\ MaxSlips \in Nat /\ MaxByHand \in Nat
  BY PlatformAssumption DEF Close!CloseAssumption

LEMMA NothingRead == RowsRead(<<>>)
  BY DEF RowsRead

\* The records that the writers make.
LEMMA RowsWritten ==
    ASSUME NEW r \in Close!Row, NEW tier \in {"volume", "premium"}, NEW price \in Close!QuotedBy,
           NEW lost \in BOOLEAN
    PROVE  /\ Close!Absent \in Close!Row
           /\ [Close!Absent EXCEPT !.status = "alerted", !.tier = tier, !.price = price]
                \in Close!Row
           /\ [r EXCEPT !.tier = "premium", !.price = price, !.close = Close!NoClose,
                        !.snap = FALSE, !.gaveUp = FALSE] \in Close!Row
           /\ [r EXCEPT !.status = "superseded"] \in Close!Row
           /\ [r EXCEPT !.status = "settled"] \in Close!Row
           /\ [r EXCEPT !.gaveUp = TRUE] \in Close!Row
           /\ [r EXCEPT !.close = [by |-> "poll", price |-> price], !.gaveUp = FALSE,
                        !.lost = lost] \in Close!Row
           /\ [r EXCEPT !.close = [by |-> "snapshot", price |-> price], !.snap = TRUE,
                        !.gaveUp = FALSE] \in Close!Row
  <1>0. 0 \in Close!QuotedBy
    BY CloseConstants DEF Close!QuotedBy
  <1>1. TRUE \in BOOLEAN /\ FALSE \in BOOLEAN
    OBVIOUS
  <1>2. Close!Absent \in Close!Row
    BY <1>0, <1>1 DEF Close!Absent, Close!NoClose, Close!Row
  <1>3. [Close!Absent EXCEPT !.status = "alerted", !.tier = tier, !.price = price] \in Close!Row
    BY <1>0, <1>1 DEF Close!Absent, Close!NoClose, Close!Row
  <1>4. [r EXCEPT !.tier = "premium", !.price = price, !.close = Close!NoClose,
                  !.snap = FALSE, !.gaveUp = FALSE] \in Close!Row
    BY <1>0, <1>1 DEF Close!NoClose, Close!Row
  <1>5. [r EXCEPT !.status = "superseded"] \in Close!Row
        /\ [r EXCEPT !.status = "settled"] \in Close!Row
    BY DEF Close!Row
  <1>6. [r EXCEPT !.gaveUp = TRUE] \in Close!Row
    BY <1>1 DEF Close!Row
  <1>7. [r EXCEPT !.close = [by |-> "poll", price |-> price], !.gaveUp = FALSE,
                  !.lost = lost] \in Close!Row
    BY <1>1 DEF Close!Row
  <1>8. [r EXCEPT !.close = [by |-> "snapshot", price |-> price], !.snap = TRUE,
                  !.gaveUp = FALSE] \in Close!Row
    BY <1>1 DEF Close!Row
  <1> QED
    BY <1>2, <1>3, <1>4, <1>5, <1>6, <1>7, <1>8

LEMMA CloseSettings ==
    ASSUME CloseRest, Close!CloseNext PROVE CloseCounts'
  <1> USE CloseConstants
  <1>1. /\ time \in {"before", "playing", "due"} /\ skipStreak \in [Versions -> 0 .. SkipLimit]
        /\ polls \in 0 .. MaxPolls /\ slips \in 0 .. MaxSlips /\ requests \in 0 .. MaxByHand
    BY DEF CloseRest, CloseCounts
  <1>2. ASSUME NEW close, Close!Revalidate(close)
        PROVE  skipStreak' \in [Versions -> 0 .. SkipLimit]
    <2>1. skipStreak' = [p \in Versions |-> skipStreak'[p]]
          /\ \A p \in Versions :
               skipStreak'[p] \in {skipStreak[p], 0, SkipLimit,
                                   IF skipStreak[p] < SkipLimit THEN skipStreak[p] + 1 ELSE 0}
      BY <1>2 DEF Close!Revalidate
    <2>2. ASSUME NEW p \in Versions PROVE skipStreak'[p] \in 0 .. SkipLimit
      <3>1. skipStreak[p] \in 0 .. SkipLimit
        BY <1>1
      <3> QED
        BY <2>1, <3>1
    <2> QED
      BY <2>1, <2>2
  <1>3. ASSUME skipStreak' \in [Versions -> 0 .. SkipLimit],
               time' = time \/ time' \in {"playing", "due"},
               polls' = polls \/ (polls < MaxPolls /\ polls' = polls + 1),
               slips' = slips \/ (slips < MaxSlips /\ slips' = slips + 1),
               requests' = requests \/ (requests < MaxByHand /\ requests' = requests + 1)
        PROVE  CloseCounts'
    BY <1>1, <1>3 DEF CloseCounts
  <1>4. CASE Close!TimePasses
    BY <1>1, <1>3, <1>4 DEF Close!TimePasses
  <1>5. CASE Close!BeginCycle
    BY <1>1, <1>3, <1>5 DEF Close!BeginCycle
  <1>6. CASE Close!NothingDetected \/ \E tier \in {"volume", "premium"} : Close!Detect(tier)
    BY <1>1, <1>3, <1>6 DEF Close!NothingDetected, Close!Detect
  <1>7. CASE \E moved \in BOOLEAN : Close!Mint(moved)
    BY <1>1, <1>3, <1>7 DEF Close!Mint
  <1>8. ASSUME NEW close, Close!Revalidate(close) PROVE CloseCounts'
    BY <1>1, <1>2, <1>3, <1>8 DEF Close!Revalidate
  <1>9. CASE Close!Revalidation \/ Close!RevalidationUnheard
    BY <1>1, <1>3, <1>9 DEF Close!Revalidation, Close!RevalidationUnheard
  <1>10. CASE Close!RevalidationFails
    BY <1>1, <1>3, <1>10 DEF Close!RevalidationFails
  <1>11. CASE Close!EndCycle
    BY <1>1, <1>3, <1>11 DEF Close!EndCycle
  <1>12. ASSUME NEW p \in Versions, Close!Mention(p) PROVE CloseCounts'
    BY <1>1, <1>3, <1>12 DEF Close!Mention
  <1>13. ASSUME NEW v \in Versions, Close!Restart(v) PROVE CloseCounts'
    BY <1>1, <1>3, <1>13 DEF Close!Restart
  <1>14. CASE Close!JobReads
    BY <1>1, <1>3, <1>14 DEF Close!JobReads, Close!Reads
  <1>15. CASE Close!RequestReads
    BY <1>1, <1>3, <1>15 DEF Close!RequestReads, Close!Reads
  <1>16. CASE Close!Records
    BY <1>1, <1>3, <1>16 DEF Close!Records
  <1>17. ASSUME NEW w, NEW graded, NEW covered,
                Close!Settles(w, graded, covered) \/ Close!Finalizes(covered)
         PROVE  CloseCounts'
    BY <1>1, <1>3, <1>17 DEF Close!Settles, Close!Finalizes
  <1> QED
    BY <1>4, <1>5, <1>6, <1>7, <1>8, <1>9, <1>10, <1>11, <1>12, <1>13, <1>14, <1>15, <1>16,
       <1>17 DEF Close!CloseNext

\* A cycle counts its losses when it ends its pricing, and as the cycle of one poll.
LEMMA LossesCounted ==
    ASSUME CloseInv, CloseRest, Close!CloseNext PROVE LossesBound'
  <1>1. /\ polls \in Nat /\ losses \in [Versions -> Nat]
        /\ \A p \in Versions :
             /\ losses[p] <= polls
             /\ cycle.step \in {"detecting", "minting", "minted", "repricing"} => losses[p] < polls
    BY CloseConstants DEF CloseInv, CountsAreNumbers, CloseRest, CloseCounts, LossesBound
  <1>2. CASE Close!BeginCycle
    <2>1. polls' = polls + 1 /\ losses' = losses
      BY <1>2 DEF Close!BeginCycle, Close!histories
    <2> QED
      BY <1>1, <2>1 DEF LossesBound
  <1>3. CASE Close!Revalidation \/ Close!RevalidationUnheard
    <2>1. /\ cycle.step = "repricing" /\ polls' = polls
          /\ losses' = Close!Plus(losses, Close!Crossed)
      BY <1>3 DEF Close!Revalidation, Close!RevalidationUnheard, Close!VerdictsCommit
    <2>2. \A p \in Versions : losses'[p] = losses[p] \/ losses'[p] = losses[p] + 1
      BY <1>1, <2>1 DEF Close!Plus
    <2>3. cycle'.step \in {"mentioning", "idle"}
      <3>1. CASE Close!Revalidation
        BY <3>1 DEF Close!Revalidation, Close!Idle
      <3>2. CASE Close!RevalidationUnheard
        BY <3>2 DEF Close!RevalidationUnheard, Close!Idle
      <3> QED
        BY <1>3, <3>1, <3>2
    <2> QED
      BY <1>1, <2>1, <2>2, <2>3 DEF LossesBound
  <1>4. ASSUME polls' = polls, losses' = losses,
               \/ cycle'.step \notin {"detecting", "minting", "minted", "repricing"}
               \/ cycle.step \in {"detecting", "minting", "minted", "repricing"}
        PROVE  LossesBound'
    BY <1>1, <1>4 DEF LossesBound
  <1>5. CASE Close!NothingDetected \/ \E tier \in {"volume", "premium"} : Close!Detect(tier)
    BY <1>4, <1>5 DEF Close!NothingDetected, Close!Detect, Close!histories
  <1>6. CASE \/ \E moved \in BOOLEAN : Close!Mint(moved)
             \/ \E close \in [Close!Revalidated ->
                                {"unpriced", "implausible", "below", "above"}] :
                  Close!Revalidate(close)
    BY <1>4, <1>6 DEF Close!Mint, Close!Revalidate, Close!histories
  <1>7. CASE Close!RevalidationFails \/ Close!EndCycle \/ \E v \in Versions : Close!Restart(v)
    BY <1>4, <1>7 DEF Close!RevalidationFails, Close!EndCycle, Close!Restart, Close!Idle,
                      Close!histories
  <1>8. ASSUME NEW p \in Versions, Close!Mention(p) PROVE LossesBound'
    <2>1. cycle'.step = cycle.step /\ polls' = polls /\ losses' = losses
      BY <1>8 DEF Close!Mention, CloseInv, CycleTimely
    <2> QED
      BY <1>4, <2>1
  <1>9. ASSUME cycle' = cycle, polls' = polls, losses' = losses PROVE LossesBound'
    BY <1>4, <1>9
  <1>10. CASE Close!TimePasses \/ Close!JobReads \/ Close!RequestReads \/ Close!Records
    BY <1>9, <1>10 DEF Close!TimePasses, Close!JobReads, Close!RequestReads, Close!Reads,
                       Close!Records, Close!histories
  <1>11. CASE \/ \E w \in Close!Settlers, graded, covered \in SUBSET Versions :
                   Close!Settles(w, graded, covered)
              \/ \E covered \in SUBSET Versions : Close!Finalizes(covered)
    BY <1>9, <1>11 DEF Close!Settles, Close!Finalizes, Close!histories
  <1> QED
    BY <1>2, <1>3, <1>5, <1>6, <1>7, <1>8, <1>10, <1>11 DEF Close!CloseNext

\* What the cycle has read, and its verdicts on it.
LEMMA CycleIsTyped ==
    ASSUME CloseInv, CloseRest, Close!CloseNext PROVE CycleTyped'
  <1>1. /\ CycleTyped /\ row \in [Versions -> Close!Row] /\ version \in Versions
        /\ cycle = [step |-> cycle.step, early |-> cycle.early, seen |-> cycle.seen,
                    tier |-> cycle.tier, verdict |-> cycle.verdict, unsent |-> cycle.unsent]
    BY DEF CloseRest, CloseInv, CycleTimely
  <1>2. ASSUME cycle' = Close!Idle PROVE CycleTyped'
    <2>1. /\ cycle'.step = "idle" /\ cycle'.early = FALSE /\ cycle'.tier = "volume"
          /\ cycle'.seen = <<>> /\ cycle'.verdict = <<>> /\ cycle'.unsent = {}
      BY <1>2 DEF Close!Idle
    <2>2. cycle'.early \in BOOLEAN
      BY <2>1
    <2> QED
      BY <2>1, <2>2, NothingRead DEF CycleTyped
  <1>3. CASE Close!BeginCycle
    <2>1. /\ cycle'.step = "detecting" /\ cycle'.early = (time = "before")
          /\ cycle'.tier = "volume" /\ cycle'.seen = <<>> /\ cycle'.verdict = <<>>
          /\ cycle'.unsent = {}
      BY <1>3 DEF Close!BeginCycle, Close!Idle
    <2>2. cycle'.early \in BOOLEAN
      BY <2>1
    <2> QED
      BY <2>1, <2>2, NothingRead DEF CycleTyped
  <1>4. CASE Close!NothingDetected
    BY <1>1, <1>4 DEF Close!NothingDetected, CycleTyped
  <1>5. ASSUME NEW tier \in {"volume", "premium"}, Close!Detect(tier) PROVE CycleTyped'
    <2>1. RowsRead([p \in {version} |-> row[p]])
      BY <1>1 DEF RowsRead
    <2>2. /\ cycle'.step = "minting" /\ cycle'.tier = tier /\ cycle'.early = cycle.early
          /\ cycle'.seen = [p \in {version} |-> row[p]] /\ cycle'.verdict = cycle.verdict
          /\ cycle'.unsent = cycle.unsent
      BY <1>1, <1>5 DEF Close!Detect
    <2> QED
      BY <1>1, <2>1, <2>2 DEF CycleTyped
  <1>6. ASSUME NEW moved \in BOOLEAN, Close!Mint(moved) PROVE CycleTyped'
    <2>1. /\ cycle'.step = "minted" /\ cycle'.tier = cycle.tier /\ cycle'.early = cycle.early
          /\ cycle'.seen = <<>> /\ cycle'.verdict = cycle.verdict
          /\ cycle'.unsent = cycle.unsent
      BY <1>1, <1>6 DEF Close!Mint
    <2> QED
      BY <1>1, <2>1, NothingRead DEF CycleTyped
  <1>7. ASSUME NEW close, Close!Revalidate(close) PROVE CycleTyped'
    <2>1. RowsRead([p \in Close!Revalidated |-> row[p]])
      BY <1>1 DEF RowsRead, Close!Revalidated, Close!Open
    <2>2. /\ cycle'.step = "repricing" /\ cycle'.tier = cycle.tier
          /\ cycle'.early = cycle.early /\ cycle'.unsent = cycle.unsent
          /\ cycle'.seen = [p \in Close!Revalidated |-> row[p]]
          /\ cycle'.verdict = [p \in Close!Revalidated |->
                IF Close!GivesUp(p, close) THEN "giveUp"
                ELSE IF close[p] \in {"below", "above"} THEN close[p] ELSE "skip"]
      BY <1>1, <1>7 DEF Close!Revalidate
    <2>3. DOMAIN cycle'.verdict = DOMAIN cycle'.seen
          /\ \A p \in DOMAIN cycle'.verdict : cycle'.verdict[p] \in Close!Verdicts
      BY <2>2 DEF Close!Verdicts
    <2> QED
      BY <1>1, <2>1, <2>2, <2>3 DEF CycleTyped
  <1>8. CASE Close!Revalidation
    <2>1. PICK lost : lost = {p \in DOMAIN cycle.verdict : Close!Crosses(p)}
      OBVIOUS
    <2>2. lost \subseteq Versions
      BY <1>1, <1>8, <2>1 DEF Close!Revalidation, Close!VerdictsCommit, CycleTyped, RowsRead
    <2>3. /\ cycle'.step = "mentioning" /\ cycle'.early = cycle.early
          /\ cycle'.tier = "volume" /\ cycle'.seen = <<>> /\ cycle'.verdict = <<>>
          /\ cycle'.unsent = lost
      BY <1>8, <2>1 DEF Close!Revalidation, Close!Crossed, Close!Idle
    <2> QED
      BY <1>1, <2>2, <2>3, NothingRead DEF CycleTyped
  <1>9. CASE \/ Close!RevalidationUnheard \/ Close!RevalidationFails \/ Close!EndCycle
             \/ \E v \in Versions : Close!Restart(v)
    BY <1>2, <1>9 DEF Close!RevalidationUnheard, Close!RevalidationFails, Close!EndCycle,
                      Close!Restart
  <1>10. ASSUME NEW p \in Versions, Close!Mention(p) PROVE CycleTyped'
    BY <1>1, <1>10 DEF Close!Mention, CycleTyped
  <1>11. ASSUME cycle' = cycle PROVE CycleTyped'
    BY <1>1, <1>11 DEF CycleTyped
  <1>12. CASE Close!TimePasses \/ Close!JobReads \/ Close!RequestReads \/ Close!Records
    BY <1>11, <1>12 DEF Close!TimePasses, Close!JobReads, Close!RequestReads, Close!Reads,
                        Close!Records
  <1>13. CASE \/ \E w \in Close!Settlers, graded, covered \in SUBSET Versions :
                   Close!Settles(w, graded, covered)
              \/ \E covered \in SUBSET Versions : Close!Finalizes(covered)
    BY <1>11, <1>13 DEF Close!Settles, Close!Finalizes
  <1> QED
    BY <1>3, <1>4, <1>5, <1>6, <1>7, <1>8, <1>9, <1>10, <1>12, <1>13 DEF Close!CloseNext

\* What a transaction has read.
LEMMA TxIsTyped ==
    ASSUME CloseInv, CloseRest, Close!CloseNext PROVE TxTyped'
  <1>1. /\ TxTyped /\ row \in [Versions -> Close!Row]
        /\ \A w \in Close!Settlers : tx[w] = [kind |-> tx[w].kind, seen |-> tx[w].seen]
        /\ tx = [w \in Close!Settlers |-> tx[w]]
    BY DEF CloseRest, CloseInv, TxHolds
  <1>2. ASSUME tx' = tx PROVE TxTyped'
    BY <1>1, <1>2 DEF TxTyped
  <1>3. ASSUME NEW w \in Close!Settlers,
               NEW kind \in {"none", "auto", "event", "record", "finalize"}, NEW rows,
               RowsRead(rows), tx' = [tx EXCEPT ![w] = [kind |-> kind, seen |-> rows]]
        PROVE  TxTyped'
    BY <1>1, <1>3 DEF TxTyped
  <1>4. RowsRead(Close!Open)
    BY <1>1 DEF RowsRead, Close!Open
  <1>5. "job" \in Close!Settlers /\ "request" \in Close!Settlers
    BY DEF Close!Settlers
  <1>6. CASE Close!JobReads
    BY <1>3, <1>4, <1>5, <1>6 DEF Close!JobReads, Close!Reads
  <1>7. CASE Close!RequestReads
    <2>1. CASE Close!Reads("request", "event", Close!Open)
      BY <1>3, <1>4, <1>5, <2>1 DEF Close!Reads
    <2>2. ASSUME NEW p \in Versions, Close!Reads("request", "record", [q \in {p} |-> row[q]])
          PROVE  TxTyped'
      <3>1. RowsRead([q \in {p} |-> row[q]])
        BY <1>1 DEF RowsRead
      <3> QED
        BY <1>3, <1>5, <2>2, <3>1 DEF Close!Reads
    <2> QED
      BY <1>7, <2>1, <2>2 DEF Close!RequestReads
  <1>8. CASE Close!Records
    <2>1. tx' = [tx EXCEPT !["request"] = [kind |-> "finalize", seen |-> tx["request"].seen]]
      <3>1. tx' = [tx EXCEPT !["request"].kind = "finalize"]
        BY <1>8 DEF Close!Records
      <3>2. ASSUME NEW t, t = [kind |-> t.kind, seen |-> t.seen]
            PROVE  [t EXCEPT !.kind = "finalize"] = [kind |-> "finalize", seen |-> t.seen]
        BY <3>2
      <3>3. [tx["request"] EXCEPT !.kind = "finalize"]
              = [kind |-> "finalize", seen |-> tx["request"].seen]
        BY <1>1, <1>5, <3>2
      <3> QED
        BY <3>1, <3>3
    <2>2. RowsRead(tx["request"].seen)
      BY <1>1, <1>5 DEF TxTyped
    <2> QED
      BY <1>3, <1>5, <2>1, <2>2
  <1>9. ASSUME NEW w \in Close!Settlers, tx' = [tx EXCEPT ![w] = Close!NoTx] PROVE TxTyped'
    BY <1>3, <1>9, NothingRead DEF Close!NoTx
  <1>10. CASE \/ \E w \in Close!Settlers, graded, covered \in SUBSET Versions :
                   Close!Settles(w, graded, covered)
              \/ \E covered \in SUBSET Versions : Close!Finalizes(covered)
    BY <1>5, <1>9, <1>10 DEF Close!Settles, Close!Finalizes
  <1>11. ASSUME NEW v \in Versions, Close!Restart(v) PROVE TxTyped'
    <2>1. tx' = [w \in Close!Settlers |-> Close!NoTx]
      BY <1>11 DEF Close!Restart
    <2> QED
      BY <2>1, NothingRead DEF TxTyped, Close!NoTx
  <1>12. CASE \/ Close!TimePasses \/ Close!BeginCycle \/ Close!NothingDetected
              \/ \E tier \in {"volume", "premium"} : Close!Detect(tier)
              \/ \E moved \in BOOLEAN : Close!Mint(moved)
    BY <1>2, <1>12 DEF Close!TimePasses, Close!BeginCycle, Close!NothingDetected,
                       Close!Detect, Close!Mint
  <1>13. CASE \/ \E close \in [Close!Revalidated ->
                                 {"unpriced", "implausible", "below", "above"}] :
                   Close!Revalidate(close)
              \/ Close!Revalidation \/ Close!RevalidationUnheard
              \/ Close!RevalidationFails \/ Close!EndCycle
              \/ \E p \in Versions : Close!Mention(p)
    BY <1>2, <1>13 DEF Close!Revalidate, Close!Revalidation, Close!RevalidationUnheard,
                       Close!RevalidationFails, Close!EndCycle, Close!Mention
  <1> QED
    BY <1>6, <1>7, <1>8, <1>10, <1>11, <1>12, <1>13 DEF Close!CloseNext

\* A row as a re-price, a verdict or a settlement leaves it.
LEMMA RowsAreTyped ==
    ASSUME CloseInv, CloseRest, Close!CloseNext PROVE row' \in [Versions -> Close!Row]
  <1>1. /\ row \in [Versions -> Close!Row] /\ CycleTyped /\ TxTyped /\ version \in Versions
        /\ polls \in Close!QuotedBy
    BY DEF CloseRest, CloseInv, CloseCounts, Close!QuotedBy
  <1>2. ASSUME row' = [p \in Versions |-> row'[p]],
               \A p \in Versions : row'[p] \in Close!Row
        PROVE  row' \in [Versions -> Close!Row]
    BY <1>2
  <1>3. ASSUME NEW r, RowsRead(r), NEW p \in DOMAIN r
        PROVE  p \in Versions /\ r[p].price \in Close!QuotedBy
    BY <1>3 DEF RowsRead, Close!Row
  <1>4. ASSUME NEW moved \in BOOLEAN, Close!Mint(moved)
        PROVE  row' \in [Versions -> Close!Row]
    <2>1. /\ row' = [p \in Versions |-> row'[p]]
          /\ \A p \in Versions :
               row'[p] \in {[Close!Absent EXCEPT !.status = "alerted", !.tier = cycle.tier,
                                                 !.price = polls],
                            Close!Repriced(p), [row[p] EXCEPT !.status = "superseded"], row[p]}
      BY <1>4 DEF Close!Mint
    <2>2. ASSUME NEW p \in Versions PROVE row'[p] \in Close!Row
      <3>1. row[p] \in Close!Row /\ cycle.tier \in {"volume", "premium"}
        BY <1>1 DEF CycleTyped
      <3>2. /\ [Close!Absent EXCEPT !.status = "alerted", !.tier = cycle.tier, !.price = polls]
                 \in Close!Row
            /\ [row[p] EXCEPT !.tier = "premium", !.price = polls, !.close = Close!NoClose,
                              !.snap = FALSE, !.gaveUp = FALSE] \in Close!Row
            /\ [row[p] EXCEPT !.status = "superseded"] \in Close!Row
        BY <1>1, <3>1, RowsWritten
      <3> QED
        BY <2>1, <3>1, <3>2 DEF Close!Repriced
    <2> QED
      BY <1>2, <2>1, <2>2
  <1>5. CASE Close!Revalidation \/ Close!RevalidationUnheard
    <2>1. /\ row' = [p \in Versions |-> row'[p]] /\ cycle.step = "repricing"
          /\ \A p \in Versions :
               row'[p] = row[p] \/ (p \in DOMAIN cycle.verdict /\ row'[p] = Close!Verdict(p))
      BY <1>5 DEF Close!Revalidation, Close!RevalidationUnheard, Close!VerdictsCommit
    <2>2. ASSUME NEW p \in DOMAIN cycle.verdict PROVE Close!Verdict(p) \in Close!Row
      <3>1. /\ p \in DOMAIN cycle.seen /\ p \in Versions /\ row[p] \in Close!Row
            /\ cycle.seen[p].price \in Close!QuotedBy
        <4>1. RowsRead(cycle.seen) /\ p \in DOMAIN cycle.seen
          BY <1>1, <2>1, <2>2 DEF CycleTyped
        <4> QED
          BY <1>1, <1>3, <4>1
      <3>2. PICK lost : lost = IF cycle.seen[p].tier = "premium"
                               THEN cycle.verdict[p] = "below" ELSE row[p].lost
        OBVIOUS
      <3>3. lost \in BOOLEAN
        <4>1. row[p].lost \in BOOLEAN
          BY <3>1 DEF Close!Row
        <4>2. (cycle.verdict[p] = "below") \in BOOLEAN
          OBVIOUS
        <4> QED
          BY <3>2, <4>1, <4>2
      <3>4. [row[p] EXCEPT !.gaveUp = TRUE] \in Close!Row
            /\ [row[p] EXCEPT !.close = [by |-> "poll", price |-> cycle.seen[p].price],
                              !.gaveUp = FALSE, !.lost = lost] \in Close!Row
        BY <3>1, <3>3, RowsWritten
      <3> QED
        BY <3>2, <3>4 DEF Close!Verdict
    <2> QED
      BY <1>1, <1>2, <2>1, <2>2
  <1>6. ASSUME NEW w \in Close!Settlers, NEW p \in DOMAIN tx[w].seen
        PROVE  p \in Versions /\ Close!Closed(w, p) \in Close!Row
    <2>1. RowsRead(tx[w].seen)
      BY <1>1 DEF TxTyped
    <2>2. p \in Versions /\ tx[w].seen[p].price \in Close!QuotedBy
      BY <1>3, <1>6, <2>1
    <2> QED
      BY <1>1, <2>2, RowsWritten DEF Close!Closed
  <1>7. ASSUME NEW r \in Close!Row PROVE [r EXCEPT !.status = "settled"] \in Close!Row
    BY <1>1, RowsWritten
  <1>8. ASSUME NEW w \in Close!Settlers, NEW graded, NEW covered,
               Close!Settles(w, graded, covered)
        PROVE  row' \in [Versions -> Close!Row]
    <2>1. /\ row' = [p \in Versions |-> row'[p]]
          /\ \A p \in Versions : \E r \in {row[p], Close!Closed(w, p)} :
               /\ r = row[p] \/ p \in DOMAIN tx[w].seen
               /\ row'[p] = r \/ row'[p] = [r EXCEPT !.status = "settled"]
      BY <1>8 DEF Close!Settles
    <2>2. ASSUME NEW p \in Versions PROVE row'[p] \in Close!Row
      <3>1. PICK r \in {row[p], Close!Closed(w, p)} :
               /\ r = row[p] \/ p \in DOMAIN tx[w].seen
               /\ row'[p] = r \/ row'[p] = [r EXCEPT !.status = "settled"]
        BY <2>1
      <3>2. r \in Close!Row
        BY <1>1, <1>6, <3>1
      <3> QED
        BY <1>7, <3>1, <3>2
    <2> QED
      BY <1>2, <2>1, <2>2
  <1>9. CASE Close!Records
    <2>1. /\ row' = [p \in Versions |-> row'[p]]
          /\ \A p \in Versions : row'[p] \in {row[p], [row[p] EXCEPT !.status = "settled"]}
      BY <1>9 DEF Close!Records
    <2> QED
      BY <1>1, <1>2, <1>7, <2>1
  <1>10. ASSUME NEW covered, Close!Finalizes(covered) PROVE row' \in [Versions -> Close!Row]
    <2>1. /\ row' = [p \in Versions |-> row'[p]] /\ "request" \in Close!Settlers
          /\ \A p \in Versions :
               \/ row'[p] = row[p]
               \/ p \in DOMAIN tx["request"].seen /\ row'[p] = Close!Closed("request", p)
      BY <1>10 DEF Close!Finalizes, Close!Settlers
    <2> QED
      BY <1>1, <1>2, <1>6, <2>1
  <1>11. CASE \/ Close!TimePasses \/ Close!BeginCycle \/ Close!NothingDetected
              \/ \E tier \in {"volume", "premium"} : Close!Detect(tier)
              \/ \E close \in [Close!Revalidated ->
                                 {"unpriced", "implausible", "below", "above"}] :
                   Close!Revalidate(close)
    BY <1>1, <1>11 DEF Close!TimePasses, Close!BeginCycle, Close!NothingDetected,
                       Close!Detect, Close!Revalidate
  <1>12. CASE \/ Close!RevalidationFails \/ Close!EndCycle \/ Close!JobReads
              \/ Close!RequestReads \/ \E p \in Versions : Close!Mention(p)
              \/ \E v \in Versions : Close!Restart(v)
    BY <1>1, <1>12 DEF Close!RevalidationFails, Close!EndCycle, Close!JobReads,
                       Close!RequestReads, Close!Reads, Close!Mention, Close!Restart
  <1> QED
    BY <1>4, <1>5, <1>8, <1>9, <1>10, <1>11, <1>12 DEF Close!CloseNext

LEMMA CloseRestInvariant == Spec => []CloseRest
  <1>1. Init => CloseRest
    <2> SUFFICES ASSUME Close!CloseInit PROVE CloseRest
      BY DEF Init
    <2>1. /\ time = "before" /\ row = [p \in Versions |-> Close!Absent]
          /\ skipStreak = [p \in Versions |-> 0] /\ cycle = Close!Idle
          /\ tx = [w \in Close!Settlers |-> Close!NoTx]
          /\ polls = 0 /\ slips = 0 /\ requests = 0
          /\ losses = [p \in Versions |-> 0]
      BY DEF Close!CloseInit
    <2>2. row \in [Versions -> Close!Row]
      <3>1. Close!Absent \in Close!Row
        <4>1. 0 \in Close!QuotedBy
          BY CloseConstants DEF Close!QuotedBy
        <4> QED
          BY <4>1 DEF Close!Absent, Close!NoClose, Close!Row
      <3> QED
        BY <2>1, <3>1
    <2>3. CycleTyped
      <3>1. /\ cycle.step = "idle" /\ cycle.early = FALSE /\ cycle.tier = "volume"
            /\ cycle.seen = <<>> /\ cycle.verdict = <<>> /\ cycle.unsent = {}
        BY <2>1 DEF Close!Idle
      <3>2. cycle.early \in BOOLEAN
        BY <3>1
      <3> QED
        BY <3>1, <3>2, NothingRead DEF CycleTyped
    <2>4. TxTyped
      BY <2>1, NothingRead DEF TxTyped, Close!NoTx
    <2>5. LossesBound
      BY <2>1 DEF LossesBound, Close!Idle
    <2>6. CloseCounts
      BY <2>1, CloseConstants DEF CloseCounts
    <2> QED
      BY <2>2, <2>3, <2>4, <2>5, <2>6 DEF CloseRest
  <1>2. CloseInv /\ CloseRest /\ [Next]_vars => CloseRest'
    <2>1. CloseRest /\ UNCHANGED closeVars => CloseRest'
      BY DEF closeVars, CloseRest, CycleTyped, TxTyped, LossesBound, CloseCounts
    <2>2. CloseInv /\ CloseRest /\ Close!CloseNext => CloseRest'
      BY CloseSettings, LossesCounted, CycleIsTyped, TxIsTyped, RowsAreTyped DEF CloseRest
    <2> QED
      BY <2>1, <2>2, CloseSteps
  <1> QED
    BY <1>1, <1>2, CloseInvariance, PTL DEF Spec

\* What was mentioned or missed was lost.
LEMMA CloseIsTyped == CloseInv /\ CloseRest => Close!CloseTypeOK
  <1> SUFFICES ASSUME CloseInv, CloseRest PROVE Close!CloseTypeOK
    OBVIOUS
  <1>1. /\ CycleTyped /\ TxTyped /\ CloseCounts /\ ResultsHold /\ CountsAreNumbers
        /\ version \in Versions /\ row \in [Versions -> Close!Row]
    BY DEF CloseInv, CloseRest
  <1>2. \A n \in {mentioned, missed, losses} : n \in [Versions -> 0 .. MaxPolls]
    <2>1. ASSUME NEW n \in {mentioned, missed, losses}, NEW p \in Versions
          PROVE  n[p] \in 0 .. MaxPolls
      <3>1. losses[p] \in Nat /\ mentioned[p] \in Nat /\ missed[p] \in Nat
        BY <1>1 DEF CountsAreNumbers
      <3>2. losses[p] <= polls /\ polls \in 0 .. MaxPolls /\ MaxPolls \in Nat
        BY <1>1, CloseConstants DEF CloseRest, LossesBound, CloseCounts
      <3>3. losses[p] = mentioned[p] + missed[p]
            \/ losses[p] = mentioned[p] + missed[p] + 1
        BY <3>1 DEF CloseInv, Close!MentionsMatchLosses
      <3> QED
        BY <3>1, <3>2, <3>3
    <2> QED
      BY <1>1, <2>1 DEF CountsAreNumbers
  <1>3. \A rows \in {cycle.seen} \cup {tx[w].seen : w \in Close!Settlers} :
          DOMAIN rows \subseteq Versions /\ \A p \in DOMAIN rows : rows[p] \in Close!Row
    BY <1>1 DEF CycleTyped, TxTyped, RowsRead
  <1>4. result \subseteq Versions /\ byHand \subseteq Versions
    BY <1>1 DEF ResultsHold
  <1>5. /\ cycle.step \in {"idle", "detecting", "minting", "minted", "repricing", "mentioning"}
        /\ cycle.early \in BOOLEAN /\ cycle.tier \in {"volume", "premium"}
        /\ cycle.unsent \subseteq Versions
        /\ \A p \in DOMAIN cycle.verdict : cycle.verdict[p] \in Close!Verdicts
        /\ \A w \in Close!Settlers :
             tx[w].kind \in {"none", "auto", "event", "record", "finalize"}
    BY <1>1 DEF CycleTyped, TxTyped
  <1> QED
    BY <1>1, <1>2, <1>3, <1>4, <1>5 DEF CloseCounts, Close!CloseTypeOK

----------------------------------------------------------------------------
(* All of them.                                                            *)

PartChosen == part \in Parts

LEMMA PartInvariant == Spec => []PartChosen
  <1>1. Init => PartChosen
    BY DEF Init, PartChosen
  <1>2. PartChosen /\ [Next]_vars => PartChosen'
    BY DEF PartChosen, Next, Only, vars
  <1> QED
    BY <1>1, <1>2, PTL DEF Spec

\* What is true of each component whether it runs or not.
PlatformInv ==
    /\ LifeInv /\ GateInv /\ EvidenceInv /\ ScoreInv /\ GradesInv /\ LinesInv /\ ProxyInv
    /\ BookInv
    /\ AuditInv /\ AuditRest /\ SessionsInv /\ SessionsRest /\ PollInv /\ PollRest
    /\ StoreInv /\ StoreRest /\ IdentityInv /\ IdentityRest /\ CloseInv /\ CloseRest

LEMMA PlatformInvariant == Spec => []PlatformInv
  <1>1. Spec => [](LifeInv /\ GateInv /\ EvidenceInv /\ ScoreInv /\ GradesInv /\ LinesInv
                   /\ ProxyInv /\ BookInv)
    BY LifeInvariant, GateInvariant, EvidenceInvariance, ScoreInvariant, GradeInvariant,
       LinesInvariant, ProxyInvariant, BookInvariant, PTL
  <1>2. Spec => [](AuditInv /\ AuditRest /\ SessionsInv /\ SessionsRest /\ PollInv /\ PollRest)
    BY AuditInvariant, AuditRestInvariant, SessionsInvariant, SessionsRestInvariant,
       PollInvariant, PollRestInvariant, PTL
  <1>3. Spec => [](StoreInv /\ StoreRest /\ IdentityInv /\ IdentityRest /\ CloseInv /\ CloseRest)
    BY StoreInvariant, StoreRestInvariant, IdentityInvariant, IdentityRestInvariant,
       CloseInvariance, CloseRestInvariant, PTL
  <1>4. /\ LifeInv /\ GateInv /\ EvidenceInv /\ ScoreInv /\ GradesInv /\ LinesInv
             /\ ProxyInv /\ BookInv
        /\ AuditInv /\ AuditRest /\ SessionsInv /\ SessionsRest /\ PollInv /\ PollRest
        /\ StoreInv /\ StoreRest /\ IdentityInv /\ IdentityRest /\ CloseInv /\ CloseRest
        => PlatformInv
    BY DEF PlatformInv
  <1> QED
    BY <1>1, <1>2, <1>3, <1>4, PTL

\* The variables of the component that runs keep their types, for any settings that the code
\* accepts: no counter leaves its range, no proxy slot, session, row or reference comes from
\* nowhere (the handlers of all fourteen components).
THEOREM Type_OK == Spec => []TypeOK
  <1>1. PartChosen /\ PlatformInv => TypeOK
    BY InvariantsType, BookIsTyped, AuditIsTyped, SessionsAreTyped, PollIsTyped, StoreIsTyped,
       IdentityIsTyped, CloseIsTyped, ProxiesTyped DEF PartChosen, PlatformInv, TypeOK
  <1> QED
    BY <1>1, PartInvariant, PlatformInvariant, PTL
=============================================================================
