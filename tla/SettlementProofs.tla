-------------------------- MODULE SettlementProofs ---------------------------
(***************************************************************************)
(* Theorems about Settlement for every set of picks, events, bets and      *)
(* requests: what the advisory lock on a bet and the settled-twin check    *)
(* guarantee when the cycle and the dashboard settle at the same time.     *)
(***************************************************************************)
EXTENDS Settlement, TLAPS

----------------------------------------------------------------------------
(* The inductive invariant.                                                *)

\* A row a transaction has written is neither the one it is at nor one it has yet to
\* visit.
VisitsOnce(t) ==
    /\ t.at \notin t.todo
    /\ t.at \notin t.settles \cup t.parks
    /\ t.todo \cap (t.settles \cup t.parks) = {}

\* What the settled-twin check has decided stays true until the transaction ends,
\* because the lock on the bet is held from then on: no twin of a guarded pick that is
\* about to get a result has one, but for those written while no guard applied.
KeepsDecision(t) ==
    \A p \in t.settles \cap t.guarded :
        /\ BetOf[p] \in t.locks
        /\ \A q \in Twins(p) : /\ q \in t.settles => q \notin t.guarded
                               /\ result[q] # "none" => q \in loose

\* A pick about to be superseded has a twin that has, or gets with it, a result.
HasProof(t) ==
    \A p \in t.parks : \E q \in Twins(p) : result[q] # "none" \/ q \in t.settles

\* The engine inserts results and never overwrites one.
Inserts(t) == t.kind # "record" => \A p \in t.settles : result[p] = "none"

SoundTx(t) ==
    /\ VisitsOnce(t) /\ KeepsDecision(t) /\ HasProof(t) /\ Inserts(t)
    /\ t.guarded \subseteq HasKickoff

\* A result written under the guard is of an event whose kickoff is known.
GuardedHasKickoff == \A p \in Picks : result[p] # "none" => p \in loose \cup HasKickoff

Inv ==
    /\ TypeOK /\ GuardedHasKickoff /\ CountedOnce /\ SupersededOnProof
    /\ \A w \in Workers : SoundTx(work[w])

----------------------------------------------------------------------------
(* Lemmas.                                                                 *)

\* A twin is a pick on the same bet, and twins are twins of each other.
LEMMA TwinsAreMutual ==
    ASSUME NEW p \in Picks, NEW q \in Twins(p)
    PROVE  q \in Picks /\ p \in Twins(q) /\ BetOf[q] = BetOf[p] /\ q # p
  BY DEF Twins

\* A step of one transaction that leaves the committed state alone: it is enough that
\* the transaction stays sound and apart from the others.
LEMMA OneTransaction ==
    ASSUME Inv, NEW w \in Workers, NEW u \in Tx,
           work' = [work EXCEPT ![w] = u],
           UNCHANGED <<status, result, dated, due, parked, loose>>,
           manual' \in 0 .. MaxManual, faults' \in 0 .. MaxFaults,
           u.settles \cap u.parks = {},
           \A v \in Workers \ {w} :
              /\ u.locks \cap work[v].locks = {}
              /\ (u.settles \cup u.parks) \cap Writes(v) = {},
           SoundTx(u)
    PROVE  Inv'
  <1>1. /\ work \in [Workers -> Tx] /\ work'[w] = u
        /\ \A v \in Workers \ {w} : work'[v] = work[v]
    BY DEF Inv, TypeOK
  <1>2. TypeOK'
    <2>1. work' \in [Workers -> Tx]
      BY <1>1
    <2>2. \A v \in Workers : work'[v].settles \cap work'[v].parks = {}
      BY <1>1 DEF Inv, TypeOK
    <2>3. \A v, x \in Workers : v # x =>
             /\ work'[v].locks \cap work'[x].locks = {}
             /\ Writes(v)' \cap Writes(x)' = {}
      <3> SUFFICES ASSUME NEW v \in Workers, NEW x \in Workers, v # x
                   PROVE  /\ work'[v].locks \cap work'[x].locks = {}
                          /\ Writes(v)' \cap Writes(x)' = {}
        OBVIOUS
      <3>1. CASE v # w /\ x # w
        BY <1>1, <3>1 DEF Inv, TypeOK, Writes
      <3>2. CASE v = w
        BY <1>1, <3>2 DEF Writes
      <3>3. CASE x = w
        BY <1>1, <3>3 DEF Writes
      <3> QED
        BY <3>1, <3>2, <3>3
    <2> QED
      BY <2>1, <2>2, <2>3 DEF Inv, TypeOK
  <1>3. HasKickoff' = HasKickoff
    BY DEF HasKickoff
  <1>4. GuardedHasKickoff' /\ CountedOnce' /\ SupersededOnProof'
    BY <1>3 DEF Inv, GuardedHasKickoff, CountedOnce, SupersededOnProof
  <1>5. ASSUME NEW v \in Workers PROVE SoundTx(work[v])'
    <2>1. SoundTx(work'[v])
      BY <1>1 DEF Inv
    <2> QED
      BY <1>3, <2>1 DEF SoundTx, VisitsOnce, KeepsDecision, HasProof, Inserts
  <1> QED
    BY <1>2, <1>4, <1>5 DEF Inv

\* A transaction that has written nothing yet is sound.
LEMMA FreshTransaction ==
    ASSUME Inv, NEW kind \in {"idle", "auto", "event", "record"}, NEW rows \in SUBSET Picks
    PROVE  /\ Opened(kind, rows) \in Tx /\ SoundTx(Opened(kind, rows))
           /\ Opened(kind, rows).settles = {} /\ Opened(kind, rows).parks = {}
           /\ Opened(kind, rows).locks = {}
  <1>1. 1 \in 1 .. Passes
    BY SettlementAssumption
  <1>2. Idle \in Tx /\ Nobody \notin rows /\ rows \cap HasKickoff \subseteq Picks
    BY <1>1, SettlementAssumption DEF Idle, Tx
  <1> DEFINE u == Opened(kind, rows)
  <1>3. u \in Tx
    BY <1>2 DEF Opened, Tx
  <1>4. /\ u.todo = rows /\ u.guarded = rows \cap HasKickoff /\ u.at = Nobody
        /\ u.locks = {} /\ u.settles = {} /\ u.parks = {}
    BY DEF Opened, Idle
  <1> HIDE DEF u
  <1>5. SoundTx(u)
    BY <1>2, <1>4 DEF SoundTx, VisitsOnce, KeepsDecision, HasProof, Inserts
  <1> QED
    BY <1>3, <1>4, <1>5 DEF u

\* An idle worker's transaction is empty.
LEMMA IdleIsFresh ==
    ASSUME Inv
    PROVE  /\ Idle \in Tx /\ SoundTx(Idle)
           /\ Idle.settles = {} /\ Idle.parks = {} /\ Idle.locks = {}
  <1>1. Idle \in Tx
    BY SettlementAssumption DEF Idle, Tx
  <1> QED
    BY <1>1 DEF Idle, SoundTx, VisitsOnce, KeepsDecision, HasProof, Inserts

\* Before the first transaction nothing is settled.
LEMMA InitInv == Init => Inv
  <1> SUFFICES ASSUME Init PROVE Inv
    OBVIOUS
  <1>1. Idle \in Tx
    BY SettlementAssumption DEF Idle, Tx
  <1>2. TypeOK
    BY <1>1, SettlementAssumption DEF Init, TypeOK, Writes, Idle
  <1>3. GuardedHasKickoff /\ CountedOnce /\ SupersededOnProof
    BY DEF Init, GuardedHasKickoff, CountedOnce, SupersededOnProof, Twins
  <1>4. SoundTx(Idle)
    BY DEF Idle, SoundTx, VisitsOnce, KeepsDecision, HasProof, Inserts
  <1> QED
    BY <1>2, <1>3, <1>4 DEF Inv, Init

----------------------------------------------------------------------------
(* The steps of one transaction.                                           *)

\* The scheduler's job or a dashboard request opens a transaction.
LEMMA OpeningKeepsInv ==
    ASSUME Inv, NEW w \in Workers, NEW kind \in {"auto", "event", "record"},
           NEW rows \in SUBSET Picks,
           work' = [work EXCEPT ![w] = Opened(kind, rows)],
           manual' \in 0 .. MaxManual,
           UNCHANGED <<status, result, dated, due, parked, loose, faults>>
    PROVE  Inv'
  <1>1. faults' \in 0 .. MaxFaults
    BY DEF Inv, TypeOK
  <1> DEFINE u == Opened(kind, rows)
  <1>2. /\ u \in Tx /\ SoundTx(u)
        /\ u.settles = {} /\ u.parks = {} /\ u.locks = {}
    BY FreshTransaction
  <1>3. work' = [work EXCEPT ![w] = u]
    OBVIOUS
  <1> HIDE DEF u
  <1> QED
    BY <1>1, <1>2, <1>3, OneTransaction

\* Whatever raises, and the deadlock detector, rolls the transaction back.
LEMMA RollBackKeepsInv ==
    ASSUME Inv, NEW w \in Workers, RollBack(w), faults' \in 0 .. MaxFaults
    PROVE  Inv'
  <1>1. manual' \in 0 .. MaxManual
    BY DEF Inv, TypeOK, RollBack
  <1> QED
    BY <1>1, IdleIsFresh, OneTransaction DEF RollBack, Ended

\* The loop takes its next row.
LEMMA TurnToKeepsInv == ASSUME Inv, NEW w \in Workers, TurnTo(w) PROVE Inv'
  <1> DEFINE t == work[w]
  <1>1. t \in Tx /\ SoundTx(t)
    BY DEF Inv, TypeOK
  <1>2. PICK p \in t.todo : work' = [work EXCEPT ![w].at = p, ![w].todo = @ \ {p}]
    BY DEF TurnTo, ToVisit
  <1> DEFINE u == [t EXCEPT !.at = p, !.todo = @ \ {p}]
  <1>3. p \in Picks /\ work' = [work EXCEPT ![w] = u]
    BY <1>1, <1>2 DEF Tx
  <1>4. /\ u \in Tx /\ u.at = p /\ u.todo = t.todo \ {p}
        /\ u.settles = t.settles /\ u.parks = t.parks /\ u.locks = t.locks
        /\ u.guarded = t.guarded /\ u.kind = t.kind
    BY <1>1, <1>3 DEF Tx
  <1> HIDE DEF u
  <1>5. SoundTx(u)
    BY <1>1, <1>2, <1>4 DEF SoundTx, VisitsOnce, KeepsDecision, HasProof, Inserts
  <1>6. manual' \in 0 .. MaxManual /\ faults' \in 0 .. MaxFaults
    BY DEF Inv, TypeOK, TurnTo
  <1>7. /\ u.settles \cap u.parks = {}
        /\ \A v \in Workers \ {w} : /\ u.locks \cap work[v].locks = {}
                                    /\ (u.settles \cup u.parks) \cap Writes(v) = {}
    BY <1>4 DEF Inv, TypeOK, Writes
  <1> QED
    BY <1>3, <1>4, <1>5, <1>6, <1>7, OneTransaction DEF TurnTo

\* _lock_settlement_instrument: the advisory lock is exclusive.
LEMMA LockKeepsInv == ASSUME Inv, NEW w \in Workers, Lock(w) PROVE Inv'
  <1> DEFINE t == work[w]
             u == [t EXCEPT !.locks = @ \cup {BetOf[t.at]}]
  <1>1. t \in Tx /\ SoundTx(t) /\ t.at \in Picks /\ BetOf[t.at] \in Bets
    BY SettlementAssumption DEF Inv, TypeOK, Lock, Tx
  <1>2. work' = [work EXCEPT ![w] = u]
    BY DEF Lock
  <1>3. /\ u \in Tx /\ u.at = t.at /\ u.todo = t.todo
        /\ u.settles = t.settles /\ u.parks = t.parks /\ u.locks = t.locks \cup {BetOf[t.at]}
        /\ u.guarded = t.guarded /\ u.kind = t.kind
    BY <1>1 DEF Tx
  <1>4. \A v \in Workers \ {w} : BetOf[t.at] \notin work[v].locks
    BY DEF Lock
  <1> HIDE DEF u
  <1>5. SoundTx(u)
    BY <1>1, <1>3 DEF SoundTx, VisitsOnce, KeepsDecision, HasProof, Inserts
  <1>6. manual' \in 0 .. MaxManual /\ faults' \in 0 .. MaxFaults
    BY DEF Inv, TypeOK, Lock
  <1>7. /\ u.settles \cap u.parks = {}
        /\ \A v \in Workers \ {w} : /\ u.locks \cap work[v].locks = {}
                                    /\ (u.settles \cup u.parks) \cap Writes(v) = {}
    BY <1>3, <1>4 DEF Inv, TypeOK, Writes
  <1> QED
    BY <1>2, <1>3, <1>5, <1>6, <1>7, OneTransaction DEF Lock

\* The settled-twin guard parks a pick: it has seen the twin's result.
LEMMA ParkKeepsInv == ASSUME Inv, NEW w \in Workers, Park(w) PROVE Inv'
  <1> DEFINE t == work[w]
             p == t.at
             u == [t EXCEPT !.at = Nobody, !.parks = @ \cup {p}]
  <1>1. /\ t \in Tx /\ SoundTx(t) /\ p \in Picks /\ Nobody \notin Picks
        /\ t.settles \subseteq Picks /\ t.parks \subseteq Picks /\ t.todo \subseteq Picks
    BY SettlementAssumption DEF Inv, TypeOK, Park, Decides, Tx
  <1>2. /\ work' = [work EXCEPT ![w] = u] /\ RowFree(w, p)
        /\ \E q \in Twins(p) : result[q] # "none" \/ q \in t.settles
    BY DEF Park, Decides, Guards, SettledTwin
  <1>3. /\ u \in Tx /\ u.at = Nobody /\ u.todo = t.todo
        /\ u.settles = t.settles /\ u.parks = t.parks \cup {p} /\ u.locks = t.locks
        /\ u.guarded = t.guarded /\ u.kind = t.kind
    BY <1>1 DEF Tx
  <1> HIDE DEF u
  <1>4. VisitsOnce(u)
    BY <1>1, <1>3 DEF SoundTx, VisitsOnce
  <1>5. HasProof(u)
    BY <1>1, <1>2, <1>3 DEF SoundTx, HasProof
  <1>6. SoundTx(u)
    BY <1>1, <1>3, <1>4, <1>5 DEF SoundTx, KeepsDecision, Inserts
  <1>7. manual' \in 0 .. MaxManual /\ faults' \in 0 .. MaxFaults
    BY DEF Inv, TypeOK, Park
  <1>8. u.settles \cap u.parks = {}
    BY <1>1, <1>3 DEF Inv, TypeOK, SoundTx, VisitsOnce
  <1>9. ASSUME NEW v \in Workers \ {w}
        PROVE  /\ u.locks \cap work[v].locks = {}
               /\ (u.settles \cup u.parks) \cap Writes(v) = {}
    <2>1. t.locks \cap work[v].locks = {} /\ Writes(w) \cap Writes(v) = {}
      BY DEF Inv, TypeOK
    <2>2. p \notin Writes(v) /\ Writes(w) = t.settles \cup t.parks
      BY <1>2 DEF RowFree, Writes
    <2> QED
      BY <1>3, <2>1, <2>2
  <1> QED
    BY <1>2, <1>3, <1>6, <1>7, <1>8, <1>9, OneTransaction DEF Park

\* The result row: the lock makes the check and the insert one decision.
LEMMA SettleKeepsInv == ASSUME Inv, NEW w \in Workers, Settle(w) PROVE Inv'
  <1> DEFINE t == work[w]
             p == t.at
             u == [t EXCEPT !.at = Nobody, !.settles = @ \cup {p}]
  <1>1. /\ t \in Tx /\ SoundTx(t) /\ p \in Picks /\ Nobody \notin Picks
        /\ t.settles \subseteq Picks /\ t.parks \subseteq Picks /\ t.todo \subseteq Picks
        /\ t.guarded \subseteq HasKickoff
    BY SettlementAssumption DEF Inv, TypeOK, Settle, Decides, Tx, SoundTx
  <1>2. /\ work' = [work EXCEPT ![w] = u] /\ RowFree(w, p)
        /\ p \in t.guarded => BetOf[p] \in t.locks
        /\ t.kind # "record" => result[p] = "none"
    BY DEF Settle, Decides, Cleared, MayWrite
  <1>3. p \in t.guarded => \A q \in Twins(p) \cap HasKickoff :
                               result[q] = "none" /\ q \notin t.settles
    BY DEF Settle, Guards, SettledTwin
  <1>4. /\ u \in Tx /\ u.at = Nobody /\ u.todo = t.todo
        /\ u.settles = t.settles \cup {p} /\ u.parks = t.parks /\ u.locks = t.locks
        /\ u.guarded = t.guarded /\ u.kind = t.kind
    BY <1>1 DEF Tx
  <1> HIDE DEF u
  <1>5. VisitsOnce(u)
    BY <1>1, <1>4 DEF SoundTx, VisitsOnce
  <1>6. KeepsDecision(u)
    <2> SUFFICES ASSUME NEW x \in u.settles \cap u.guarded, NEW q \in Twins(x)
                 PROVE  /\ BetOf[x] \in u.locks
                        /\ q \in u.settles => q \notin u.guarded
                        /\ result[q] # "none" => q \in loose
      BY <1>1, <1>2, <1>4 DEF KeepsDecision, SoundTx
    <2>1. x \in Picks /\ q \in Picks /\ x \in Twins(q) /\ x \in HasKickoff
      BY <1>1, <1>4, TwinsAreMutual
    <2>2. result[q] # "none" => q \in loose \cup HasKickoff
      BY <2>1 DEF Inv, GuardedHasKickoff
    <2>3. CASE x = p
      BY <1>1, <1>2, <1>3, <1>4, <2>1, <2>2, <2>3, TwinsAreMutual
    <2>4. CASE x # p
      <3>1. x \in t.settles \cap t.guarded
        BY <1>4, <2>4
      <3>2. /\ BetOf[x] \in u.locks
            /\ q \in t.settles => q \notin u.guarded
            /\ result[q] # "none" => q \in loose
        BY <1>1, <1>4, <3>1 DEF SoundTx, KeepsDecision
      <3>3. q = p => q \notin t.guarded
        BY <1>3, <2>1, <3>1
      <3> QED
        BY <1>4, <3>2, <3>3
    <2> QED
      BY <2>3, <2>4
  <1>7. HasProof(u) /\ Inserts(u)
    BY <1>1, <1>2, <1>4 DEF SoundTx, HasProof, Inserts
  <1>8. SoundTx(u)
    BY <1>1, <1>4, <1>5, <1>6, <1>7 DEF SoundTx
  <1>9. manual' \in 0 .. MaxManual /\ faults' \in 0 .. MaxFaults
    BY DEF Inv, TypeOK, Settle
  <1>10. u.settles \cap u.parks = {}
    BY <1>1, <1>4 DEF Inv, TypeOK, SoundTx, VisitsOnce
  <1>11. ASSUME NEW v \in Workers \ {w}
         PROVE  /\ u.locks \cap work[v].locks = {}
                /\ (u.settles \cup u.parks) \cap Writes(v) = {}
    <2>1. t.locks \cap work[v].locks = {} /\ Writes(w) \cap Writes(v) = {}
      BY DEF Inv, TypeOK
    <2>2. p \notin Writes(v) /\ Writes(w) = t.settles \cup t.parks
      BY <1>2 DEF RowFree, Writes
    <2> QED
      BY <1>4, <2>1, <2>2
  <1> QED
    BY <1>2, <1>4, <1>8, <1>9, <1>10, <1>11, OneTransaction DEF Settle

\* A row that is left as it is.
LEMMA SkipKeepsInv == ASSUME Inv, NEW w \in Workers, Skip(w) PROVE Inv'
  <1> DEFINE t == work[w]
             u == [t EXCEPT !.at = Nobody]
  <1>1. /\ t \in Tx /\ SoundTx(t) /\ Nobody \notin Picks
        /\ t.settles \subseteq Picks /\ t.parks \subseteq Picks /\ t.todo \subseteq Picks
    BY SettlementAssumption DEF Inv, TypeOK, Tx
  <1>2. work' = [work EXCEPT ![w] = u]
    BY DEF Skip
  <1>3. /\ u \in Tx /\ u.at = Nobody /\ u.todo = t.todo
        /\ u.settles = t.settles /\ u.parks = t.parks /\ u.locks = t.locks
        /\ u.guarded = t.guarded /\ u.kind = t.kind
    BY <1>1 DEF Tx
  <1> HIDE DEF u
  <1>4. SoundTx(u)
    BY <1>1, <1>3 DEF SoundTx, VisitsOnce, KeepsDecision, HasProof, Inserts
  <1>5. manual' \in 0 .. MaxManual /\ faults' \in 0 .. MaxFaults
    BY DEF Inv, TypeOK, Skip
  <1>6. /\ u.settles \cap u.parks = {}
        /\ \A v \in Workers \ {w} : /\ u.locks \cap work[v].locks = {}
                                    /\ (u.settles \cup u.parks) \cap Writes(v) = {}
    BY <1>3 DEF Inv, TypeOK, Writes
  <1> QED
    BY <1>2, <1>3, <1>4, <1>5, <1>6, OneTransaction DEF Skip

\* The cycle's next SELECT, in the same transaction: rows it has written are not open
\* to it any more, whatever other transactions see.
LEMMA NextPassKeepsInv == ASSUME Inv, NextPass PROVE Inv'
  <1> DEFINE t == work[Scheduler]
             rows == Alerted(t) \cap HasKickoff
             u == [t EXCEPT !.pass = @ + 1, !.todo = rows, !.guarded = @ \cup rows]
  <1>0. Scheduler \in Workers /\ Nobody \notin Picks
    BY SettlementAssumption DEF Workers
  <1>1. /\ Scheduler \in Workers /\ t \in Tx /\ SoundTx(t) /\ Nobody \notin Picks
        /\ t.settles \subseteq Picks /\ t.parks \subseteq Picks
    BY <1>0 DEF Inv, TypeOK, Tx
  <1>2. work' = [work EXCEPT ![Scheduler] = u]
    BY DEF NextPass
  <1>3. rows \subseteq Picks \cap HasKickoff /\ rows \cap (t.settles \cup t.parks) = {}
    BY DEF Alerted
  <1>4. t.pass \in 1 .. Passes /\ t.pass < Passes /\ Passes \in Nat
    BY <1>1, SettlementAssumption DEF NextPass, MorePasses, Tx
  <1>5. t.pass + 1 \in 1 .. Passes
    BY <1>4
  <1>6. t.at = Nobody
    BY DEF NextPass, LoopEnded
  <1> HIDE DEF rows
  <1>7. /\ u \in Tx /\ u.at = Nobody /\ u.todo = rows
        /\ u.settles = t.settles /\ u.parks = t.parks /\ u.locks = t.locks
        /\ u.guarded = t.guarded \cup rows /\ u.kind = t.kind
    BY <1>1, <1>3, <1>5, <1>6 DEF Tx
  <1> HIDE DEF u
  <1>8. VisitsOnce(u) /\ HasProof(u) /\ Inserts(u) /\ u.guarded \subseteq HasKickoff
    BY <1>1, <1>3, <1>7 DEF SoundTx, VisitsOnce, HasProof, Inserts
  <1>9. u.settles \cap u.guarded = t.settles \cap t.guarded
    BY <1>3, <1>7
  <1>10. KeepsDecision(u)
    BY <1>1, <1>3, <1>7, <1>9 DEF SoundTx, KeepsDecision
  <1>11. manual' \in 0 .. MaxManual /\ faults' \in 0 .. MaxFaults
    BY DEF Inv, TypeOK, NextPass
  <1>12. /\ u.settles \cap u.parks = {}
         /\ \A v \in Workers \ {Scheduler} : /\ u.locks \cap work[v].locks = {}
                                        /\ (u.settles \cup u.parks) \cap Writes(v) = {}
    BY <1>1, <1>7 DEF Inv, TypeOK, Writes
  <1> QED
    BY <1>1, <1>2, <1>7, <1>8, <1>10, <1>11, <1>12, OneTransaction DEF NextPass, SoundTx

----------------------------------------------------------------------------
(* The commit: what one transaction has decided becomes what all see.      *)

LEMMA CommitKeepsInv == ASSUME Inv, NEW w \in Workers, Commit(w) PROVE Inv'
  <1> DEFINE t == work[w]
  <1>1. /\ t \in Tx /\ SoundTx(t) /\ work \in [Workers -> Tx] /\ Idle \in Tx
        /\ t.settles \subseteq Picks /\ t.parks \subseteq Picks /\ t.guarded \subseteq HasKickoff
        /\ t.settles \cap t.parks = {}
    BY IdleIsFresh DEF Inv, TypeOK, Tx, SoundTx
  <1>2. /\ work' = [work EXCEPT ![w] = Idle] /\ parked' = parked \cup t.parks
        /\ loose' = loose \cup (t.settles \ t.guarded) /\ UNCHANGED <<dated, due, manual, faults>>
    BY DEF Commit, Ended
  <1>3. \A p \in Picks :
           /\ p \in t.settles => result'[p] \in {"engine", "record"} /\ status'[p] = "settled"
           /\ p \notin t.settles => result'[p] = result[p]
           /\ p \in t.parks => status'[p] = "superseded"
           /\ p \notin t.settles \cup t.parks => status'[p] = status[p]
    BY <1>1 DEF Commit
  <1>4. /\ result' \in [Picks -> {"none", "engine", "record"}]
        /\ status' \in [Picks -> {"alerted", "settled", "superseded"}]
    BY DEF Commit, Inv, TypeOK
  <1>5. HasKickoff' = HasKickoff
    BY <1>2 DEF HasKickoff
  <1>6. \A p \in Picks : result[p] # "none" => result'[p] # "none"
    BY <1>3
  <1>7. ASSUME NEW p \in t.settles \cap t.guarded, NEW q \in Twins(p), result'[q] # "none"
        PROVE  q \in loose'
    <2>1. q \in Picks
      BY <1>1, TwinsAreMutual
    <2> QED
      BY <1>1, <1>2, <1>3, <1>7, <2>1 DEF SoundTx, KeepsDecision
  <1>8. CountedOnce'
    <2> SUFFICES ASSUME NEW p \in Picks, NEW q \in Twins(p), result'[p] # "none",
                        result'[q] # "none"
                 PROVE  p \in loose' \/ q \in loose'
      BY DEF CountedOnce, Twins
    <2>1. q \in Picks /\ p \in Twins(q)
      BY TwinsAreMutual
    <2>2. CASE p \in t.settles
      BY <1>2, <1>7, <2>2
    <2>3. CASE q \in t.settles
      BY <1>2, <1>7, <2>1, <2>3
    <2>4. CASE p \notin t.settles /\ q \notin t.settles
      BY <1>2, <1>3, <2>1, <2>4 DEF Inv, CountedOnce
    <2> QED
      BY <2>2, <2>3, <2>4
  <1>9. GuardedHasKickoff'
    BY <1>1, <1>2, <1>3, <1>5 DEF Inv, GuardedHasKickoff
  <1>10. ASSUME NEW p \in parked \cup t.parks
         PROVE  \E q \in Twins(p) : result'[q] # "none"
    <2>1. p \in Picks
      BY <1>1 DEF Inv, TypeOK
    <2>2. PICK q \in Twins(p) : result[q] # "none" \/ q \in t.settles
      BY <1>1, <1>10 DEF Inv, SupersededOnProof, SoundTx, HasProof
    <2>3. q \in Picks
      BY <2>1, TwinsAreMutual
    <2> QED
      BY <1>3, <2>2, <2>3
  <1>11. ASSUME NEW p \in Picks, result'[p] # "none", status'[p] # "settled"
         PROVE  ({p} \cup Twins(p)) \cap loose' # {}
    <2>1. p \notin t.settles
      BY <1>3, <1>11
    <2>2. CASE p \in t.parks
      BY <1>8, <1>10, <1>11, <2>2 DEF CountedOnce, Twins
    <2>3. CASE p \notin t.parks
      BY <1>2, <1>3, <1>11, <2>1, <2>3 DEF Inv, SupersededOnProof
    <2> QED
      BY <2>2, <2>3
  <1>12. SupersededOnProof'
    BY <1>2, <1>10, <1>11 DEF SupersededOnProof, Twins
  <1>13. /\ work'[w] = Idle /\ Idle.locks = {} /\ Idle.settles = {} /\ Idle.parks = {}
         /\ \A v \in Workers \ {w} : work'[v] = work[v]
    BY <1>1, <1>2, IdleIsFresh
  <1>14. TypeOK'
    <2>1. work' \in [Workers -> Tx]
      BY <1>1, <1>2
    <2>2. \A v \in Workers : work'[v].settles \cap work'[v].parks = {}
      BY <1>13 DEF Inv, TypeOK
    <2>3. ASSUME NEW v \in Workers, NEW x \in Workers, v # x
          PROVE  /\ work'[v].locks \cap work'[x].locks = {}
                 /\ Writes(v)' \cap Writes(x)' = {}
      <3>1. CASE v # w /\ x # w
        BY <1>13, <2>3, <3>1 DEF Inv, TypeOK, Writes
      <3>2. CASE v = w
        BY <1>13, <3>2 DEF Writes
      <3>3. CASE x = w
        BY <1>13, <3>3 DEF Writes
      <3> QED
        BY <3>1, <3>2, <3>3
    <2>4. /\ parked' \subseteq Picks /\ loose' \subseteq Picks
          /\ dated' \subseteq Events /\ due' \subseteq Picks
          /\ manual' \in 0 .. MaxManual /\ faults' \in 0 .. MaxFaults
      BY <1>1, <1>2 DEF Inv, TypeOK
    <2> QED
      BY <1>4, <2>1, <2>2, <2>3, <2>4 DEF TypeOK
  <1>15. ASSUME NEW v \in Workers PROVE SoundTx(work[v])'
    <2>1. CASE v = w
      BY <1>13, <2>1 DEF Idle, SoundTx, VisitsOnce, KeepsDecision, HasProof, Inserts
    <2>2. CASE v # w
      <3> DEFINE x == work[v]
      <3>1. /\ x \in Tx /\ SoundTx(x) /\ work'[v] = x /\ x.settles \subseteq Picks
            /\ x.parks \subseteq Picks
            /\ x.locks \cap t.locks = {} /\ x.settles \cap t.settles = {}
        BY <1>13, <2>2 DEF Inv, TypeOK, Tx, Writes
      <3> HIDE DEF x
      <3>2. ASSUME NEW p \in x.settles \cap x.guarded, NEW q \in Twins(p)
            PROVE  /\ BetOf[p] \in x.locks
                   /\ q \in x.settles => q \notin x.guarded
                   /\ result'[q] # "none" => q \in loose'
        <4>1. /\ BetOf[p] \in x.locks
              /\ q \in x.settles => q \notin x.guarded
              /\ result[q] # "none" => q \in loose
          BY <3>1 DEF SoundTx, KeepsDecision
        <4>2. q \in Picks /\ BetOf[q] = BetOf[p]
          BY <3>1, TwinsAreMutual
        <4>3. q \in t.settles => q \in loose'
          <5>1. q \in t.settles \cap t.guarded => BetOf[q] \in t.locks
            <6>1. KeepsDecision(t)
              BY <1>1 DEF SoundTx
            <6> QED
              BY <6>1 DEF KeepsDecision
          <5>2. BetOf[q] \in x.locks /\ x.locks \cap t.locks = {}
            BY <3>1, <4>1, <4>2
          <5> QED
            BY <1>2, <5>2, <4>1, <4>2, <5>1
        <4>4. q \notin t.settles => result'[q] = result[q]
          BY <1>3, <4>2
        <4> QED
          BY <1>2, <4>1, <4>3, <4>4
      <3>3. ASSUME NEW p \in x.parks
            PROVE  \E q \in Twins(p) : result'[q] # "none" \/ q \in x.settles
        <4>1. PICK q \in Twins(p) : result[q] # "none" \/ q \in x.settles
          BY <3>1 DEF SoundTx, HasProof
        <4> QED
          BY <1>6, <3>1, <4>1, TwinsAreMutual
      <3>4. x.kind # "record" => \A p \in x.settles : result'[p] = "none"
        BY <1>3, <3>1 DEF SoundTx, Inserts
      <3>5. x.guarded \subseteq HasKickoff' /\ VisitsOnce(x)
        BY <1>5, <3>1 DEF SoundTx
      <3>6. KeepsDecision(work[v])'
        <4>1. \A p \in x.settles \cap x.guarded :
                 /\ BetOf[p] \in x.locks
                 /\ \A q \in Twins(p) : /\ q \in x.settles => q \notin x.guarded
                                        /\ result'[q] # "none" => q \in loose'
          BY <3>1, <3>2 DEF SoundTx, KeepsDecision
        <4>2. work'[v] = x
          BY <3>1
        <4> QED
          BY <4>1, <4>2 DEF KeepsDecision
      <3>7. HasProof(work[v])'
        BY <3>1, <3>3 DEF HasProof
      <3>8. Inserts(work[v])' /\ VisitsOnce(work[v])'
        BY <3>1, <3>4, <3>5 DEF Inserts, VisitsOnce
      <3>9. work[v]'.guarded \subseteq HasKickoff'
        BY <3>1, <3>5
      <3> QED
        BY <3>6, <3>7, <3>8, <3>9 DEF SoundTx
    <2> QED
      BY <2>1, <2>2
  <1> QED
    BY <1>8, <1>9, <1>12, <1>14, <1>15 DEF Inv

----------------------------------------------------------------------------
(* Every step preserves the inductive invariant.                           *)

\* What the rest of the program does: kickoffs are learnt, picks fall due, a poll
\* displaces a pick no transaction has written.
LEMMA OthersKeepInv ==
    ASSUME Inv,
           \/ \E e \in Events : LearnKickoff(e)
           \/ \E p \in Picks : FallDue(p) \/ Displace(p)
           \/ UNCHANGED vars
    PROVE  Inv'
  <1>1. /\ UNCHANGED <<result, work, parked, loose, manual, faults>>
        /\ dated \subseteq dated' /\ dated' \subseteq Events /\ due' \subseteq Picks
    BY DEF Inv, TypeOK, LearnKickoff, FallDue, Displace, vars
  <1>2. /\ status' \in [Picks -> {"alerted", "settled", "superseded"}]
        /\ \A p \in Picks : status[p] = "settled" => status'[p] = "settled"
        /\ \A p \in Picks : status'[p] = status[p] \/ status[p] = "alerted"
    BY DEF Inv, TypeOK, LearnKickoff, FallDue, Displace, vars
  <1>3. HasKickoff \subseteq HasKickoff'
    BY <1>1 DEF HasKickoff
  <1>4. TypeOK'
    BY <1>1, <1>2 DEF Inv, TypeOK, Writes
  <1>5. GuardedHasKickoff' /\ CountedOnce'
    BY <1>1, <1>3 DEF Inv, GuardedHasKickoff, CountedOnce, Twins
  <1>6. SupersededOnProof'
    BY <1>1, <1>2 DEF Inv, SupersededOnProof, Twins
  <1>7. ASSUME NEW w \in Workers PROVE SoundTx(work[w])'
    <2>1. SoundTx(work[w])
      BY DEF Inv
    <2>2. work[w].guarded \subseteq HasKickoff'
      BY <1>3, <2>1 DEF SoundTx
    <2> QED
      BY <1>1, <2>1, <2>2 DEF SoundTx, VisitsOnce, KeepsDecision, HasProof, Inserts, Twins
  <1> QED
    BY <1>4, <1>5, <1>6, <1>7 DEF Inv

LEMMA NextInv == Inv /\ [Next]_vars => Inv'
  <1> SUFFICES ASSUME Inv, [Next]_vars PROVE Inv'
    OBVIOUS
  <1>1. manual \in 0 .. MaxManual /\ faults \in 0 .. MaxFaults
        /\ MaxManual \in Nat /\ MaxFaults \in Nat
    BY SettlementAssumption DEF Inv, TypeOK
  <1>2. CASE BeginCycle
    <2>1. Scheduler \in Workers /\ Alerted(Idle) \cap (due \cup HasKickoff) \in SUBSET Picks
      BY DEF Workers, Alerted
    <2> QED
      BY <1>1, <1>2, <2>1, OpeningKeepsInv DEF BeginCycle
  <1>3. ASSUME NEW r \in Requests, NEW kind \in {"event", "record"}, NEW rows \in SUBSET Picks,
               Serve(r, kind, rows)
        PROVE  Inv'
    <2>1. r \in Workers
      BY DEF Workers
    <2>2. manual' \in 0 .. MaxManual
      BY <1>1, <1>3 DEF Serve
    <2> QED
      BY <1>3, <2>1, <2>2, OpeningKeepsInv DEF Serve
  <1>4. CASE \E r \in Requests, e \in Events : SettleEvent(r, e)
    <2>1. \A e \in Events : { p \in Alerted(Idle) : EventOf[p] = e } \in SUBSET Picks
      BY DEF Alerted
    <2> QED
      BY <1>3, <1>4, <2>1 DEF SettleEvent
  <1>5. CASE \E r \in Requests, p \in Picks : RecordResult(r, p)
    <2>1. \A p \in Picks : {p} \in SUBSET Picks
      OBVIOUS
    <2> QED
      BY <1>3, <1>5, <2>1 DEF RecordResult
  <1>6. ASSUME NEW w \in Workers, Fail(w) \/ DeadlockVictim(w) PROVE Inv'
    <2>1. faults' \in 0 .. MaxFaults /\ RollBack(w)
      BY <1>1, <1>6 DEF Fail, DeadlockVictim
    <2> QED
      BY <2>1, RollBackKeepsInv
  <1>7. ASSUME NEW w \in Workers, WorkerStep(w) PROVE Inv'
    BY <1>7, TurnToKeepsInv, LockKeepsInv, ParkKeepsInv, SettleKeepsInv, SkipKeepsInv,
       CommitKeepsInv DEF WorkerStep
  <1> QED
    BY <1>2, <1>4, <1>5, <1>6, <1>7, NextPassKeepsInv, OthersKeepInv DEF Next

----------------------------------------------------------------------------
(* The theorems.                                                           *)

\* The inductive invariant holds of every behaviour of settlement.
THEOREM Invariance == Spec => []Inv
  BY InitInv, NextInv, PTL DEF Spec

\* _lock_settlement_instrument: the advisory lock on a bet and a row's write belong to one
\* transaction at a time, and every variable keeps its type.
THEOREM Type_OK == Spec => []TypeOK
  BY Invariance, PTL DEF Inv

\* _lock_settlement_instrument and _settled_sibling_exists: for any number of forks of a
\* fixture and of requests beside the cycle, a bet is counted once.
THEOREM Counted_Once == Spec => []CountedOnce
  BY Invariance, PTL DEF Inv

\* _supersede_if_settled_sibling: a pick leaves the books only for a twin in them.
THEOREM Superseded_OnProof == Spec => []SupersededOnProof
  BY Invariance, PTL DEF Inv

\* record_result: no automatic pass writes over the user's result, not even one that read
\* the pick as open before the user settled it.
LEMMA ManualStep ==
    Inv /\ [Next]_vars => [\A p \in Picks : result[p] = "record" => result'[p] = "record"]_vars
  <1> SUFFICES ASSUME Inv, Next PROVE \A p \in Picks : result[p] = "record" => result'[p] = "record"
    OBVIOUS
  <1>1. CASE UNCHANGED result
    BY <1>1
  <1>2. ASSUME NEW w \in Workers, Commit(w), NEW p \in Picks, result[p] = "record"
        PROVE  result'[p] = "record"
    <2>1. /\ result'[p] = IF p \in work[w].settles
                          THEN IF work[w].kind = "record" THEN "record" ELSE "engine"
                          ELSE result[p]
      BY <1>2 DEF Commit
    <2>2. work[w].kind # "record" => p \notin work[w].settles
      BY <1>2 DEF Inv, SoundTx, Inserts
    <2> QED
      BY <1>2, <2>1, <2>2
  <1> QED
    BY <1>1, <1>2
    DEF Next, LearnKickoff, FallDue, Displace, BeginCycle, NextPass, SettleEvent, RecordResult,
        Serve, WorkerStep, TurnTo, Lock, Park, Settle, Skip, Fail, DeadlockVictim, RollBack

THEOREM ManualResult_Stands == Spec => ManualResultStands
  BY Invariance, ManualStep, PTL DEF Spec, ManualResultStands
=============================================================================
