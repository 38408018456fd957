-------------------------- MODULE PickLedgerProofs --------------------------
(***************************************************************************)
(* Theorems about PickLedger for every set of references, opportunities,   *)
(* versions and lines, every value of the three caps and every number of   *)
(* days: the caps, of the day and of a match, and what the ledger forgets  *)
(* or strands; what a row's stake is made of, which rows are open          *)
(* together, what the alert quotes and what is never undone.               *)
(***************************************************************************)
EXTENDS PickLedger, TLAPS

----------------------------------------------------------------------------
(* The inductive invariant.                                                *)

\* A row carries a charge only while it is premium, and never more than its stake.
SoundRow(row) ==
    /\ row.charge <= row.stake
    /\ row.tier # "premium" => row.charge = 0
    /\ row.status = "absent" => row.tier # "premium"
    /\ row.chargedOn <= day

SoundRows == \A r \in RowIds : SoundRow(rows[r])

\* A cycle belongs to a running process and to a date that has come.
SoundCycle ==
    /\ cycle <= day
    /\ ~up => cycle = 0

\* An open session belongs to the running cycle; the row it is about to commit adds
\* its grant to the charge of that date and nothing to any other date.
SoundSession(t) ==
    /\ t.day = cycle /\ up
    /\ SoundRow(t.row)
    /\ \A d \in Days : ChargeIn(t.row, d) <= ChargeIn(rows[t.id], d) + InFlight(t, d)
    /\ ChargeIn(t.row, t.day) = ChargeIn(rows[t.id], t.day) + t.granted

SoundSessions ==
    /\ \A t \in session : SoundSession(t)
    /\ \A t, u \in session : t = u

\* Two copies of a row that differ at most in its status.
SameButStatus(row, old) ==
    /\ row.tier = old.tier /\ row.stake = old.stake /\ row.line = old.line
    /\ row.chargedOn = old.chargedOn /\ row.charge = old.charge

\* What persist_pick decides by: the running cycle's candidate c and the copy it holds of
\* the candidate's row, which nobody but settlement has written since, and only its status.
Ready(c, old) ==
    /\ c.tier = "premium" /\ Outcome(c, old) \in {"inserted", "upgraded", "repriced"}
    /\ up /\ cycle \in Days /\ session = {} /\ outbox = {}
    /\ RowOf(c) \in RowIds
    /\ SoundRow(old) /\ SameButStatus(rows[RowOf(c)], old)
    /\ rows[RowOf(c)].status = "absent" <=> old.status = "absent"

SoundReads == \A x \in read : Ready(x.cand, x.old) /\ x.old.status = "alerted"

Base == TypeOK /\ SoundRows /\ SoundCycle /\ SoundSessions

IInv == TypeOK /\ SoundRows /\ SoundCycle /\ SoundSessions /\ SoundReads

\* The step that opens a session, of a new row or of one read before.
Mint(c, old) ==
    /\ Ready(c, old) /\ PersistAndReserve(c, old)
    /\ read' = {} /\ todo' \subseteq todo
    /\ UNCHANGED <<rows, day, version, up, cycle, settling, outbox, claims, grants, leaked>>

\* The steps that only read a row or give a reading up.
Looks == \/ \E c \in Candidate : ReadExisting(c)
         \/ ReadFails
         \/ \E r \in RowIds : SettlementReads(r)

USE DEF Days, Closings
----------------------------------------------------------------------------
(* Lemmas on the operators.                                                *)

\* DailyExposureLedger.reserve: a grant is between zero and what was asked, and a
\* positive one fits the room of the day and the room of the event.
LEMMA GrantBounds ==
    ASSUME NEW used \in Nat, NEW byEvent \in Nat, NEW want \in Nat
    PROVE  LET g == AtMost(want, AtMost(NotBelowZero(DailyCap - used),
                                        NotBelowZero(EventCap - byEvent)))
           IN  /\ g \in Nat /\ g <= want
               /\ g = 0 \/ g <= DailyCap - used
               /\ g = 0 \/ g <= EventCap - byEvent
  BY PickLedgerAssumption DEF AtMost, NotBelowZero

\* The open transaction of _persist_and_reserve: what each of its parts is.
LEMMA SessionFields ==
    ASSUME TypeOK, NEW t \in session
    PROVE  /\ t.id \in RowIds /\ t.ref \in Refs /\ t.day \in Days
           /\ t.granted \in Nat /\ t.granted <= MaxStake
           /\ t.row \in Row /\ t.alert \subseteq AlertType /\ t.displaced \subseteq RowIds
  <1>1. t \in SessionType
    BY DEF TypeOK
  <1>2. MaxStake \in Nat
    BY PickLedgerAssumption
  <1> QED
    BY <1>1, <1>2 DEF SessionType

\* A candidate the poll cycle takes up has a row identity in the picks table (the
\* unique key persist_pick inserts under), while a process runs and no session is open.
LEMMA RowOfInRowIds ==
    ASSUME TypeOK, NEW c \in Candidate, Take(c)
    PROVE  /\ RowOf(c) \in RowIds
           /\ cycle \in Days
           /\ up /\ read = {} /\ session = {} /\ outbox = {}
           /\ rows[RowOf(c)] \in Row
  <1>1. <<c.ref, c.sel>> \in Opportunities
    BY DEF Take, TypeOK
  <1>2. RowOf(c) \in RowIds
    BY <1>1 DEF RowOf, RowIds, TypeOK
  <1> QED
    BY <1>2 DEF Take, Idle, TypeOK

\* persist_pick: a candidate taken up finds its row absent, or reads it as one it may
\* promote or re-price, and is ready to write it.
LEMMA TakenIsReady ==
    ASSUME TypeOK, SoundRows, NEW c \in Candidate, Take(c), c.tier = "premium",
           Outcome(c, rows[RowOf(c)]) \in {"inserted", "upgraded", "repriced"}
    PROVE  Ready(c, rows[RowOf(c)])
  BY RowOfInRowIds DEF Ready, SameButStatus, SoundRows

\* persist_pick's insert: a candidate whose row is absent is ready to write it.
LEMMA MintNew ==
    ASSUME IInv, NEW c \in Candidate, PersistNew(c)
    PROVE  /\ Mint(c, rows[RowOf(c)]) /\ rows[RowOf(c)] \in Row
           /\ rows[RowOf(c)].tier # "premium"
  <1>1. Ready(c, rows[RowOf(c)]) /\ read = {} /\ rows[RowOf(c)] \in Row
    BY TakenIsReady, RowOfInRowIds DEF PersistNew, IInv
  <1>2. rows[RowOf(c)].tier # "premium"
    BY <1>1 DEF PersistNew, Outcome, Ready, SoundRow
  <1> QED
    BY <1>1, <1>2 DEF PersistNew, Take, Mint

\* persist_pick's flush of a row it has read: the candidate is still ready.
LEMMA MintExisting ==
    ASSUME IInv, NEW x \in read, PersistExisting(x)
    PROVE  Mint(x.cand, x.old) /\ x.cand \in Candidate /\ x.old \in Row
  BY DEF PersistExisting, Mint, IInv, TypeOK, SoundReads

\* _persist_and_reserve: whether the row is new or was read before, the step that opens
\* the session finds the candidate ready.
LEMMA MintSteps ==
    ASSUME IInv, \/ \E c \in Candidate : PersistNew(c)
                 \/ \E x \in read : PersistExisting(x)
    PROVE  \E c \in Candidate, old \in Row : Mint(c, old)
  BY MintNew, MintExisting

\* Reading changes nothing but what is read.
LEMMA LooksOnly ==
    ASSUME Looks
    PROVE  UNCHANGED <<rows, day, version, up, ledger, cycle, session, outbox, claims,
                       grants, leaked>>
  BY DEF Looks, ReadExisting, ReadFails, SettlementReads

\* _persist_and_reserve: the session a premium candidate opens is well typed and
\* sound, and its ledger entry is a ledger.
LEMMA ReservedSession ==
    ASSUME TypeOK, SoundCycle, NEW c \in Candidate, NEW old \in Row, Ready(c, old),
           NEW granted, granted = Grant(cycle, Requested(c, old), c.ref),
           NEW t, t = SessionFor(c, old, granted)
    PROVE  /\ t \in SessionType
           /\ SoundSession(t)
           /\ granted = 0 \/ granted <= DailyCap - ledger.used[cycle]
           /\ granted = 0 \/ granted <= EventCap - ledger.byEvent[cycle][c.ref]
  <1> DEFINE want == Requested(c, old)
             total == Total(c, old, granted)
  <1>1. /\ RowOf(c) \in RowIds /\ cycle \in Days /\ up
        /\ SoundRow(old)
        /\ Outcome(c, old) \in {"inserted", "upgraded", "repriced"}
    BY DEF Ready
  <1>a. \A d \in Days : ChargeIn(rows[RowOf(c)], d) = ChargeIn(old, d)
    BY DEF Ready, SameButStatus, ChargeIn
  <1>b. StatusLeft(RowOf(c)) \in {"alerted", "superseded", "settled"}
    BY <1>1 DEF StatusLeft, TypeOK, Row
  <1>2. /\ c.ref \in Refs /\ c.line \in Lines /\ c.stake \in 1 .. MaxStake
        /\ MaxStake \in Nat /\ cycle \in Nat /\ day \in Nat /\ MaxDay \in Nat
        /\ old.stake \in 0 .. MaxStake /\ old.charge \in 0 .. MaxStake
        /\ old.chargedOn \in 0 .. MaxDay
    BY <1>1, PickLedgerAssumption DEF Candidate, Row, TypeOK
  <1>3. want \in Nat /\ want <= MaxStake
    BY <1>2 DEF Requested, NotBelowZero
  <1>4. /\ ledger.used[cycle] \in Nat
        /\ ledger.byEvent[cycle][c.ref] \in Nat
    BY <1>1, <1>2 DEF TypeOK
  <1>5. /\ granted \in Nat /\ granted <= want
        /\ granted = 0 \/ granted <= DailyCap - ledger.used[cycle]
        /\ granted = 0 \/ granted <= EventCap - ledger.byEvent[cycle][c.ref]
    BY <1>3, <1>4, GrantBounds DEF Grant
  <1>6. CASE Outcome(c, old) = "repriced"
    <2>1. old.tier = "premium" /\ old.stake > 0
      BY <1>2, <1>6 DEF Outcome, MayReprice
    <2>2. total = old.stake + granted
      BY <1>6 DEF Total
    <2>3. total \in 1 .. MaxStake /\ granted \in 0 .. MaxStake
      BY <2>1, <2>2, <1>2, <1>3, <1>5, <1>6 DEF Requested, NotBelowZero
    <2>4. /\ t.id = RowOf(c) /\ t.ref = c.ref /\ t.day = cycle /\ t.granted = granted
          /\ t.alert = {AlertFor(c, old, total)} /\ t.displaced = {}
          /\ t.row = StakedRow(c, old, cycle, total, granted)
          /\ t = [id |-> t.id, ref |-> t.ref, day |-> t.day, granted |-> t.granted,
                  alert |-> t.alert, row |-> t.row, displaced |-> t.displaced]
      BY <1>6, <2>3 DEF SessionFor
    <2>5. AlertFor(c, old, total) \in AlertType
      BY <1>1, <1>2, <2>3 DEF AlertFor, AlertType
    <2>6. /\ t.row \in Row
          /\ t.row.tier = "premium" /\ t.row.status = StatusLeft(RowOf(c))
          /\ t.row.stake = total
          /\ t.row.chargedOn = (IF granted = 0 THEN old.chargedOn ELSE cycle)
          /\ t.row.charge = (IF granted # 0 /\ old.chargedOn # cycle THEN granted
                             ELSE old.charge + granted)
      BY <1>1, <1>2, <1>b, <2>2, <2>3, <2>4 DEF StakedRow, Charged, Row, SoundRow
    <2>7. SoundRow(t.row)
      BY <1>1, <1>2, <1>b, <2>2, <2>3, <2>6 DEF SoundRow, SoundCycle
    <2>8. \A d \in Days : ChargeIn(t.row, d) <= ChargeIn(old, d) + InFlight(t, d)
      BY <1>2, <2>1, <2>3, <2>4, <2>6 DEF ChargeIn, InFlight
    <2>9. ChargeIn(t.row, cycle) = ChargeIn(old, cycle) + granted
      BY <1>1, <1>2, <2>1, <2>3, <2>6 DEF ChargeIn
    <2>10. t.alert \in SUBSET AlertType /\ t.displaced \in SUBSET RowIds
      BY <2>4, <2>5
    <2>11. t \in SessionType
      BY <1>1, <1>2, <2>3, <2>4, <2>6, <2>10 DEF SessionType
    <2>12. SoundSession(t)
      BY <1>1, <1>a, <2>4, <2>7, <2>8, <2>9 DEF SoundSession
    <2> QED
      BY <1>5, <2>11, <2>12
  <1>7. CASE Outcome(c, old) # "repriced"
    <2>1. /\ old.tier # "premium" /\ old.charge = 0
          /\ total = granted /\ granted \in 0 .. MaxStake
      BY <1>1, <1>2, <1>3, <1>5, <1>7 DEF Ready, Outcome, MayUpgrade, SoundRow, Total
    <2>2. /\ t.id = RowOf(c) /\ t.ref = c.ref /\ t.day = cycle /\ t.granted = granted
          /\ t.alert = (IF total = 0 THEN {} ELSE {AlertFor(c, old, total)})
          /\ t.displaced = OlderOpen(RowOf(c), c.tier)
          /\ t.row = (IF total = 0 THEN DemotedRow(c, old)
                      ELSE StakedRow(c, old, cycle, total, granted))
          /\ t = [id |-> t.id, ref |-> t.ref, day |-> t.day, granted |-> t.granted,
                  alert |-> t.alert, row |-> t.row, displaced |-> t.displaced]
      BY <1>7 DEF SessionFor
    <2>3. t.alert \subseteq AlertType
      BY <1>1, <1>2, <1>7, <2>1, <2>2 DEF AlertFor, AlertType
    <2>4. t.displaced \subseteq RowIds
      BY <2>2 DEF OlderOpen
    <2>5. CASE granted = 0
      <3>1. /\ t.row \in Row /\ t.row.tier = "volume" /\ t.row.status = StatusLeft(RowOf(c))
            /\ t.row.charge = 0 /\ t.row.stake = 0 /\ t.row.chargedOn = old.chargedOn
        <4>1. t.row = [old EXCEPT !.tier = "volume", !.status = StatusLeft(RowOf(c)),
                                  !.stake = 0, !.line = c.line]
          BY <2>1, <2>2, <2>5 DEF DemotedRow
        <4>2. old \in Row /\ old.charge = 0 /\ c.line \in Lines /\ MaxStake \in Nat
          BY <1>1, <1>2, <2>1
        <4> QED
          BY <1>b, <4>1, <4>2 DEF Row
      <3>2. SoundRow(t.row)
        BY <1>1, <1>2, <1>b, <3>1 DEF SoundRow
      <3> QED
        BY <1>1, <1>2, <1>5, <1>a, <2>1, <2>2, <2>3, <2>4, <2>5, <3>1, <3>2
        DEF SessionType, SoundSession, ChargeIn, InFlight
    <2>6. CASE granted # 0
      <3>1. /\ t.row \in Row /\ t.row.tier = "premium" /\ t.row.status = StatusLeft(RowOf(c))
            /\ t.row.charge = granted /\ t.row.stake = granted /\ t.row.chargedOn = cycle
        BY <1>1, <1>2, <1>b, <2>1, <2>2, <2>6 DEF StakedRow, Charged, Row
      <3>2. SoundRow(t.row)
        BY <1>1, <1>2, <1>b, <2>1, <3>1 DEF SoundRow, SoundCycle
      <3> QED
        BY <1>1, <1>2, <1>5, <1>a, <2>1, <2>2, <2>3, <2>4, <2>6, <3>1, <3>2
        DEF SessionType, SoundSession, ChargeIn, InFlight
    <2> QED
      BY <2>1, <2>5, <2>6
  <1> QED
    BY <1>5, <1>6, <1>7

\* persist_pick and update_pick_stake: a commit leaves the session's row, and the
\* superseded versions with nothing but their status changed.
LEMMA WrittenTable ==
    ASSUME TypeOK, NEW t \in session
    PROVE  /\ t.id \in RowIds
           /\ Written(t) \in [RowIds -> Row]
           /\ Written(t)[t.id] = t.row
           /\ \A r \in RowIds : r # t.id =>
                 \/ Written(t)[r] = rows[r]
                 \/ Written(t)[r] = [rows[r] EXCEPT !.status = "superseded"]
  <1>1. t.id \in RowIds /\ t.row \in Row
    BY SessionFields
  <1>2. ASSUME NEW r \in RowIds
        PROVE  /\ rows[r] \in Row
               /\ [rows[r] EXCEPT !.status = "superseded"] \in Row
    BY DEF TypeOK, Row
  <1> QED
    BY <1>1, <1>2 DEF Written

\* Superseding or settling a row disturbs neither its soundness nor its charge.
LEMMA StatusOnly ==
    ASSUME NEW row \in Row, NEW s \in Closings,
           SoundRow(row)
    PROVE  /\ [row EXCEPT !.status = s] \in Row
           /\ SoundRow([row EXCEPT !.status = s])
           /\ \A d \in Days : ChargeIn([row EXCEPT !.status = s], d) = ChargeIn(row, d)
  BY DEF Row, SoundRow, ChargeIn

----------------------------------------------------------------------------
(* Every step preserves the inductive invariant.                           *)

\* The empty picks table of a process that has not started satisfies the invariant.
LEMMA InitIInv == Init => IInv
  <1> SUFFICES ASSUME Init PROVE IInv
    OBVIOUS
  <1>1. MaxStake \in Nat /\ MaxDay \in Nat \ {0}
    BY PickLedgerAssumption
  <1>2. Absent \in Row /\ SoundRow(Absent)
    BY <1>1 DEF Absent, Row, SoundRow, Init
  <1>3. EmptyLedger \in [used : [Days -> Nat], byEvent : [Days -> [Refs -> Nat]]]
    BY DEF EmptyLedger
  <1>4. TypeOK
    <2>1. /\ rows \in [RowIds -> Row]
          /\ grants \in [RowIds -> Nat] /\ leaked \in [Days -> Nat]
      BY <1>2 DEF Init
    <2>2. day \in Days /\ cycle \in 0 .. MaxDay
      BY <1>1 DEF Init
    <2>3. /\ todo = {} /\ read = {} /\ session = {} /\ settling = {} /\ outbox = {}
          /\ claims = {}
      BY DEF Init
    <2>4. up \in BOOLEAN /\ version \in Versions
      BY DEF Init
    <2> QED
      BY <1>3, <2>4, <2>1, <2>2, <2>3 DEF Init, TypeOK
  <1> QED
    BY <1>1, <1>2, <1>4 DEF Init, IInv, SoundRows, SoundCycle, SoundSessions, SoundReads

\* reserve and release keep the ledger's totals natural numbers: release clamps at
\* zero, as DailyExposureLedger.release does.
LEMMA LedgerTypes ==
    ASSUME TypeOK, NEW d \in Days, NEW g \in Nat, NEW e \in Refs
    PROVE  /\ Reserved(d, g, e) \in [used : [Days -> Nat], byEvent : [Days -> [Refs -> Nat]]]
           /\ Released(d, g, e) \in [used : [Days -> Nat], byEvent : [Days -> [Refs -> Nat]]]
  <1>1. /\ ledger.used \in [Days -> Nat]
        /\ ledger.byEvent \in [Days -> [Refs -> Nat]]
        /\ ledger.byEvent[d] \in [Refs -> Nat]
        /\ ledger.used[d] \in Nat /\ ledger.byEvent[d][e] \in Nat
    BY DEF TypeOK
  <1>2. /\ NotBelowZero(ledger.used[d] - g) \in Nat
        /\ NotBelowZero(ledger.byEvent[d][e] - g) \in Nat
    BY <1>1 DEF NotBelowZero
  <1>3. /\ [ledger.used EXCEPT ![d] = @ + g] \in [Days -> Nat]
        /\ [ledger.byEvent EXCEPT ![d][e] = @ + g] \in [Days -> [Refs -> Nat]]
    BY <1>1
  <1>4. /\ [ledger.used EXCEPT ![d] = NotBelowZero(@ - g)] \in [Days -> Nat]
        /\ [ledger.byEvent EXCEPT ![d][e] = NotBelowZero(@ - g)] \in [Days -> [Refs -> Nat]]
    BY <1>1, <1>2
  <1> QED
    BY <1>3, <1>4 DEF Reserved, Released

\* The columns seed_exposure_ledger sums are natural numbers no larger than a stake,
\* so the database's SUM over them is defined and at least each of them.
LEMMA ChargeTypes ==
    ASSUME TypeOK, NEW d \in Days
    PROVE  /\ ChargeOn(d) \in [RowIds -> 0 .. MaxStake]
           /\ \A e \in Refs : ChargeOnEvent(d, e) \in [RowIds -> 0 .. MaxStake]
           /\ SumOf(ChargeOn(d)) \in Nat
           /\ \A e \in Refs : SumOf(ChargeOnEvent(d, e)) \in Nat
  <1>1. ChargeOn(d) \in [RowIds -> 0 .. MaxStake]
    BY PickLedgerAssumption DEF ChargeOn, ChargeIn, TypeOK, Row
  <1>2. ASSUME NEW e \in Refs
        PROVE  ChargeOnEvent(d, e) \in [RowIds -> 0 .. MaxStake]
    BY <1>1, PickLedgerAssumption DEF ChargeOnEvent
  <1> QED
    BY <1>1, <1>2, SumAssumption

\* preload and preload_event: the ledger rebuilt at startup is a ledger.
LEMMA SeededTypes ==
    ASSUME TypeOK
    PROVE  Seeded \in [used : [Days -> Nat], byEvent : [Days -> [Refs -> Nat]]]
  <1>1. /\ SumOf(ChargeOn(day)) \in Nat
        /\ [e \in Refs |-> SumOf(ChargeOnEvent(day, e))] \in [Refs -> Nat]
    BY ChargeTypes DEF TypeOK
  <1> QED
    BY <1>1 DEF Seeded, EmptyLedger

\* A commit, answered or not, keeps the table and the grant history well typed.
LEMMA CommittedTypes ==
    ASSUME TypeOK, NEW t \in session, Committed(t)
    PROVE  /\ rows' \in [RowIds -> Row]
           /\ grants' \in [RowIds -> Nat]
           /\ session' = {}
           /\ t.day \in Days /\ t.granted \in Nat /\ t.ref \in Refs
           /\ t.alert \subseteq AlertType
  <1>1. /\ t.id \in RowIds /\ t.day \in Days /\ t.granted \in Nat /\ t.ref \in Refs
        /\ t.alert \subseteq AlertType
    BY SessionFields
  <1>2. grants' \in [RowIds -> Nat]
    BY <1>1 DEF Committed, TypeOK
  <1> QED
    BY <1>1, <1>2, WrittenTable DEF Committed

\* Every step of the poll cycle, of settlement, of the clock and of a restart
\* keeps the types and the table, the cycle and the open session sound.
LEMMA NextBase == IInv /\ [Next]_vars => Base'
  <1> SUFFICES ASSUME IInv, [Next]_vars PROVE Base'
    OBVIOUS
  <1> USE DEF IInv, Base
  <1>a. /\ day \in Days /\ cycle \in 0 .. MaxDay /\ MaxDay \in Nat
        /\ \A r \in RowIds : rows[r] \in Row /\ SoundRow(rows[r])
    BY PickLedgerAssumption DEF TypeOK, SoundRows
  <1>1. CASE StartCycle
    <2>1. TypeOK'
      BY <1>1, <1>a DEF StartCycle, TypeOK
    <2>2. session = {}
      BY <1>1, <1>a DEF StartCycle, SoundSessions, SoundSession, TypeOK, SessionType
    <2> QED
      BY <1>1, <1>a, <2>1, <2>2 DEF StartCycle, SoundRows, SoundRow, SoundCycle, SoundSessions
  <1>2. CASE EndCycle
    <2>1. TypeOK'
      BY <1>2, <1>a DEF EndCycle, TypeOK
    <2> QED
      BY <1>2, <1>a, <2>1 DEF EndCycle, SoundRows, SoundRow, SoundCycle, SoundSessions
  <1>3. CASE NextDay
    <2>1. TypeOK'
      BY <1>3, <1>a DEF NextDay, TypeOK
    <2>2. \A row \in Row : SoundRow(row) => SoundRow(row)'
      BY <1>3, <1>a DEF NextDay, SoundRow, Row
    <2>3. SoundRows'
      BY <1>3, <1>a, <2>2 DEF NextDay, SoundRows
    <2>4. SoundSessions'
      BY <1>3, <2>2 DEF NextDay, SoundSessions, SoundSession, TypeOK, SessionType
    <2> QED
      BY <1>3, <1>a, <2>1, <2>3, <2>4 DEF NextDay, SoundCycle
  <1>4. CASE Crash
    <2>1. EmptyLedger \in [used : [Days -> Nat], byEvent : [Days -> [Refs -> Nat]]]
      BY DEF EmptyLedger
    <2>2. up' \in BOOLEAN
      BY <1>4 DEF Crash
    <2>3. TypeOK'
      BY <1>4, <1>a, <2>1, <2>2 DEF Crash, TypeOK
    <2> QED
      BY <1>4, <1>a, <2>3 DEF Crash, SoundRows, SoundRow, SoundCycle, SoundSessions
  <1>5. CASE Start
    <2>1. TypeOK'
      BY <1>5, <1>a, SeededTypes DEF Start, TypeOK
    <2>2. session = {}
      BY <1>5 DEF Start, SoundSessions, SoundSession
    <2> QED
      BY <1>5, <1>a, <2>1, <2>2 DEF Start, SoundRows, SoundRow, SoundCycle, SoundSessions
  <1>6. ASSUME NEW c \in Candidate, PersistVolume(c) PROVE Base'
    <2>1. /\ RowOf(c) \in RowIds /\ session = {} /\ Outcome(c, rows[RowOf(c)]) = "inserted"
      BY <1>6, RowOfInRowIds DEF PersistVolume
    <2>2. VolumeRow(c) \in Row /\ SoundRow(VolumeRow(c))
      <3>1. /\ c.stake \in 0 .. MaxStake /\ c.line \in Lines
            /\ MaxStake \in Nat /\ MaxDay \in Nat
        BY <1>6, PickLedgerAssumption DEF Candidate
      <3> QED
        BY <1>a, <3>1 DEF VolumeRow, Row, SoundRow
    <2>3. ASSUME NEW r \in RowIds PROVE rows'[r] \in Row /\ SoundRow(rows'[r])
      BY <1>6, <1>a, <2>1, <2>2, StatusOnly DEF PersistVolume
    <2>4. rows' \in [RowIds -> Row]
      BY <1>6, <2>3 DEF PersistVolume
    <2>5. TypeOK'
      BY <1>6, <1>a, <2>4 DEF PersistVolume, Take, TypeOK
    <2>6. SoundRows'
      BY <1>6, <2>3 DEF PersistVolume, SoundRows, SoundRow
    <2> QED
      BY <1>6, <2>1, <2>5, <2>6 DEF PersistVolume, SoundCycle, SoundSessions
  <1>7. ASSUME NEW c \in Candidate, NEW old \in Row, Mint(c, old) PROVE Base'
    <2> DEFINE granted == Grant(cycle, Requested(c, old), c.ref)
               t == SessionFor(c, old, granted)
    <2>1. /\ t \in SessionType /\ SoundSession(t) /\ session' = {t}
      BY <1>7, ReservedSession DEF Mint, PersistAndReserve
    <2>2. t.day = cycle /\ cycle \in Days /\ granted \in Nat /\ c.ref \in Refs
      <3>1. t.granted = granted
        BY DEF SessionFor
      <3> QED
        BY <1>7, <2>1, <3>1, PickLedgerAssumption
        DEF SoundSession, SessionType, Candidate, Mint, Ready
    <2>3. ledger' \in [used : [Days -> Nat], byEvent : [Days -> [Refs -> Nat]]]
      BY <1>7, <2>2, LedgerTypes DEF Mint, PersistAndReserve
    <2>4. TypeOK'
      BY <1>7, <2>1, <2>3 DEF Mint, TypeOK
    <2>5. SoundRows' /\ SoundCycle'
      BY <1>7 DEF Mint, SoundRows, SoundRow, SoundCycle
    <2>6. SoundSessions'
      BY <1>7, <2>1 DEF Mint, SoundSessions, SoundSession, SoundRow
    <2> QED
      BY <2>4, <2>5, <2>6
  <1>8. ASSUME NEW c \in Candidate, ReturnDuplicate(c) PROVE Base'
    <2>1. RowOf(c) \in RowIds /\ session = {}
      BY <1>8, RowOfInRowIds DEF ReturnDuplicate
    <2>2. AlertFor(c, rows[RowOf(c)], c.stake) \in AlertType
      BY <1>8, <2>1 DEF ReturnDuplicate, AlertFor, AlertType, Candidate
    <2>3. TypeOK'
      BY <1>8, <2>2 DEF ReturnDuplicate, Take, TypeOK
    <2> QED
      BY <1>8, <2>1, <2>3 DEF ReturnDuplicate, SoundRows, SoundRow, SoundCycle, SoundSessions
  <1>9. ASSUME NEW t \in session, Committed(t),
               \/ Commit(t) \/ CommitInDoubt(t)
        PROVE  Base'
    <2>1. /\ rows' \in [RowIds -> Row] /\ grants' \in [RowIds -> Nat] /\ session' = {}
          /\ t.day \in Days /\ t.granted \in Nat /\ t.ref \in Refs
          /\ t.alert \subseteq AlertType
      BY <1>9, CommittedTypes
    <2>2. /\ ledger' \in [used : [Days -> Nat], byEvent : [Days -> [Refs -> Nat]]]
          /\ leaked' \in [Days -> Nat]
          /\ outbox' \subseteq AlertType
      <3>1. CASE Commit(t)
        BY <3>1, <2>1 DEF Commit, TypeOK
      <3>2. CASE CommitInDoubt(t)
        <4>1. leaked' \in [Days -> Nat]
          BY <3>2, <2>1 DEF CommitInDoubt, TypeOK
        <4> QED
          BY <3>2, <4>1, <2>1, LedgerTypes DEF CommitInDoubt, TypeOK
      <3> QED
        BY <1>9, <3>1, <3>2
    <2>3. TypeOK'
      BY <1>9, <2>1, <2>2 DEF Commit, CommitInDoubt, TypeOK
    <2>4. SoundRow(t.row)
      BY <1>9 DEF SoundSessions, SoundSession
    <2>5. ASSUME NEW r \in RowIds PROVE SoundRow(rows'[r])
      <3>1. rows' = Written(t)
        BY <1>9 DEF Committed
      <3>2. \/ rows'[r] = t.row \/ rows'[r] = rows[r]
            \/ rows'[r] = [rows[r] EXCEPT !.status = "superseded"]
        BY <3>1, WrittenTable
      <3>3. SoundRow([rows[r] EXCEPT !.status = "superseded"])
        BY <1>a, StatusOnly
      <3> QED
        BY <1>a, <2>4, <3>2, <3>3
    <2>6. SoundRows' /\ SoundCycle'
      BY <1>9, <2>5 DEF Commit, CommitInDoubt, SoundRows, SoundRow, SoundCycle
    <2> QED
      BY <2>1, <2>3, <2>6 DEF SoundSessions
  <1>10. ASSUME NEW t \in session, Rollback(t) PROVE Base'
    <2>1. t.day \in Days /\ t.granted \in Nat /\ t.ref \in Refs
      BY SessionFields
    <2>2. ledger' \in [used : [Days -> Nat], byEvent : [Days -> [Refs -> Nat]]]
      BY <1>10, <2>1, LedgerTypes DEF Rollback
    <2>3. TypeOK'
      BY <1>10, <2>2 DEF Rollback, TypeOK
    <2> QED
      BY <1>10, <2>3 DEF Rollback, SoundRows, SoundRow, SoundCycle, SoundSessions
  <1>11. ASSUME NEW a \in outbox, Deliver(a) \/ NotDelivered(a) PROVE Base'
    <2>1. Key(a) \in Refs \X {o[2] : o \in Opportunities} \X Lines \X Versions
      BY DEF TypeOK, AlertType, Key, RowIds
    <2>2. claims' \subseteq Refs \X {o[2] : o \in Opportunities} \X Lines \X Versions
      BY <1>11, <2>1 DEF Deliver, NotDelivered, TypeOK
    <2>3. TypeOK'
      BY <1>11, <2>2 DEF Deliver, NotDelivered, TypeOK
    <2> QED
      BY <1>11, <2>3
      DEF Deliver, NotDelivered, SoundRows, SoundRow, SoundCycle, SoundSessions, SoundSession
  <1>12. CASE Looks
    <2>1. TypeOK'
      <3>1. ASSUME NEW c \in Candidate, ReadExisting(c) PROVE TypeOK'
        <4>1. rows[RowOf(c)] \in Row
          BY <3>1, RowOfInRowIds DEF ReadExisting
        <4> QED
          BY <3>1, <4>1 DEF ReadExisting, Take, TypeOK
      <3>2. CASE ReadFails
        BY <3>2 DEF ReadFails, TypeOK
      <3>3. ASSUME NEW r \in RowIds, SettlementReads(r) PROVE TypeOK'
        BY <3>3 DEF SettlementReads, TypeOK
      <3> QED
        BY <1>12, <3>1, <3>2, <3>3 DEF Looks
    <2> QED
      BY <1>12, <2>1, LooksOnly DEF SoundRows, SoundRow, SoundCycle, SoundSessions, SoundSession
  <1>13. ASSUME NEW r \in RowIds, NEW outcome \in Closings, Close(r, outcome)
         PROVE  Base'
    <2>1. rows[r] \in Row /\ rows' = [rows EXCEPT ![r] = [rows[r] EXCEPT !.status = outcome]]
      BY <1>13 DEF Close, TypeOK
    <2>2. ASSUME NEW s \in RowIds PROVE rows'[s] \in Row /\ SoundRow(rows'[s])
      BY <1>a, <2>1, StatusOnly DEF TypeOK
    <2>3. rows' \in [RowIds -> Row]
      BY <2>1, <2>2 DEF TypeOK
    <2>4. TypeOK'
      BY <1>13, <2>3 DEF Close, TypeOK
    <2>5. SoundRows' /\ SoundCycle'
      BY <1>13, <2>2 DEF Close, SoundRows, SoundRow, SoundCycle
    <2>6. ASSUME NEW t \in session PROVE rows'[t.id] = rows[t.id]
      BY <1>13, <2>1 DEF Close, TypeOK, SessionType
    <2>7. SoundSessions'
      BY <1>13, <2>6 DEF Close, SoundSessions, SoundSession, SoundRow
    <2> QED
      BY <2>4, <2>5, <2>7
  <1>14. CASE UNCHANGED vars
    BY <1>14 DEF vars, TypeOK, SoundRows, SoundRow, SoundCycle, SoundSessions, SoundSession
  <1> QED
    BY <1>1, <1>2, <1>3, <1>4, <1>5, <1>6, <1>7, <1>8, <1>9, <1>10, <1>11, <1>12, <1>13,
       <1>14, MintSteps DEF Next, Looks, Commit, CommitInDoubt

\* A candidate that is ready stays so while its copy is held: the mint path writes no row
\* in between, and settlement no more than the status of one that exists.
LEMMA NextReads == IInv /\ [Next]_vars => SoundReads'
  <1> SUFFICES ASSUME IInv, [Next]_vars PROVE SoundReads'
    OBVIOUS
  <1> USE DEF IInv, Base
  <1>1. ASSUME NEW x \in read
        PROVE  /\ up /\ cycle # 0 /\ session = {} /\ outbox = {} /\ Ready(x.cand, x.old)
               /\ x.old.status = "alerted" /\ x.old \in Row
    BY DEF SoundReads, Ready, TypeOK
  <1>2. CASE UNCHANGED <<rows, day, version, up, cycle, session, outbox, read>>
    BY <1>2 DEF SoundReads, Ready, SoundRow, RowOf
  <1>3. CASE read' = {}
    BY <1>3 DEF SoundReads
  <1>4. CASE NextDay
    <2>1. ASSUME NEW x \in read PROVE Ready(x.cand, x.old)'
      <3>1. SoundRow(x.old)'
        BY <1>1, <1>4, PickLedgerAssumption DEF NextDay, Ready, SoundRow, Row, TypeOK
      <3> QED
        BY <1>1, <1>4, <3>1 DEF NextDay, Ready, RowOf
    <2> QED
      BY <1>1, <1>4, <2>1 DEF NextDay, SoundReads
  <1>5. ASSUME NEW c \in Candidate, ReadExisting(c) PROVE SoundReads'
    <2>1. Ready(c, rows[RowOf(c)]) /\ rows[RowOf(c)].status = "alerted"
      <3>1. Ready(c, rows[RowOf(c)])
        BY <1>5, TakenIsReady DEF ReadExisting
      <3> QED
        BY <1>5, <3>1 DEF ReadExisting, Outcome, MayUpgrade, MayReprice
    <2>2. read' = {[cand |-> c, old |-> rows[RowOf(c)]]}
      BY <1>5 DEF ReadExisting
    <2>3. Ready(c, rows[RowOf(c)])'
      BY <1>5, <2>1 DEF ReadExisting, Ready, RowOf, SoundRow
    <2> QED
      BY <1>5, <2>1, <2>2, <2>3 DEF ReadExisting, SoundReads, RowOf, Ready, SoundRow, Outcome
  <1>6. ASSUME NEW r \in RowIds, NEW outcome \in Closings, Close(r, outcome)
        PROVE  SoundReads'
    <2>1. ASSUME NEW x \in read PROVE Ready(x.cand, x.old)'
      <3>1. /\ rows' = [rows EXCEPT ![r].status = outcome] /\ RowOf(x.cand) \in RowIds
            /\ rows \in [RowIds -> Row] /\ Ready(x.cand, x.old)
        BY <1>1, <1>6 DEF Close, Ready, TypeOK
      <3>2. SameButStatus(rows'[RowOf(x.cand)], x.old)
        BY <3>1 DEF Ready, SameButStatus, Row
      <3>3. rows'[RowOf(x.cand)].status # "absent"
        BY <1>1, <3>1 DEF Ready, Row
      <3> QED
        BY <1>1, <1>6, <3>1, <3>2, <3>3 DEF Close, Ready, RowOf, SoundRow
    <2> QED
      BY <1>1, <1>6, <2>1 DEF Close, SoundReads
  <1>7. CASE ~ \E x \in read : TRUE
    <2>1. read = {}
      BY <1>7
    <2>2. CASE UNCHANGED read
      BY <2>1, <2>2 DEF SoundReads
    <2> QED
      BY <1>3, <1>5, <2>2
      DEF Next, vars, StartCycle, EndCycle, NextDay, Crash, Start, PersistVolume, PersistNew,
          PersistExisting, ReadFails, ReturnDuplicate, Commit, Rollback, CommitInDoubt,
          Deliver, NotDelivered, SettlementReads, Close
  <1>8. ASSUME NEW x \in read PROVE SoundReads'
    <2>1. ASSUME NEW c \in Candidate PROVE ~ Take(c)
      BY <1>8 DEF Take, Idle
    <2>2. up /\ cycle # 0 /\ session = {} /\ outbox = {}
      BY <1>1
    <2> QED
      BY <1>2, <1>3, <1>4, <1>6, <2>1, <2>2
      DEF Next, vars, StartCycle, EndCycle, Crash, Start, PersistVolume, PersistNew,
          PersistExisting, ReadExisting, ReadFails, ReturnDuplicate, SettlementReads, Closings
  <1> QED
    BY <1>7, <1>8

\* Every step preserves the inductive invariant.
LEMMA NextIInv == IInv /\ [Next]_vars => IInv'
  BY NextBase, NextReads DEF IInv, Base

\* The inductive invariant holds of every behaviour of the mint path.
THEOREM Invariance == Spec => []IInv
  BY InitIInv, NextIInv, PTL DEF Spec

\* The table, the ledger, the open transaction and the pending alert keep their types:
\* in particular a recommended stake never leaves 0 .. MAX_RECOMMENDED_STAKE_PERCENT
\* through any sequence of grants, price moves, promotions and restarts.
THEOREM Typing == Spec => []TypeOK
  BY Invariance, PTL DEF IInv

----------------------------------------------------------------------------
(* The daily cap.                                                          *)

\* update_pick_stake: a commit moves the exposure charge of one row, the session's.
LEMMA CommitMovesOneCharge ==
    ASSUME IInv, NEW d \in Days, NEW t \in session, Commit(t) \/ CommitInDoubt(t)
    PROVE  ChargeOn(d)' = [ChargeOn(d) EXCEPT ![t.id] = ChargeIn(t.row, d)]
  <1> USE DEF IInv
  <1>a. \A r \in RowIds : rows[r] \in Row /\ SoundRow(rows[r])
    BY DEF TypeOK, SoundRows
  <1>1. rows' = Written(t)
    BY DEF Commit, CommitInDoubt, Committed
  <1>2. ASSUME NEW r \in RowIds, r # t.id
        PROVE  ChargeIn(rows'[r], d) = ChargeIn(rows[r], d)
    <2>1. rows'[r] = rows[r] \/ rows'[r] = [rows[r] EXCEPT !.status = "superseded"]
      BY <1>1, <1>2, WrittenTable
    <2> QED
      BY <1>a, <2>1, StatusOnly
  <1>3. t.id \in RowIds /\ rows'[t.id] = t.row
    BY <1>1, WrittenTable
  <1> QED
    BY <1>2, <1>3 DEF ChargeOn

\* No other step moves an exposure charge: a volume insert has none, superseding and
\* settling keep it (the operator may have placed the bet).
LEMMA OthersMoveNoCharge ==
    ASSUME IInv, NEW d \in Days, [Next]_vars,
           ~ \E t \in session : Commit(t) \/ CommitInDoubt(t)
    PROVE  ChargeOn(d)' = ChargeOn(d)
  <1> USE DEF IInv
  <1>a. \A r \in RowIds : rows[r] \in Row /\ SoundRow(rows[r])
    BY DEF TypeOK, SoundRows
  <1>1. CASE UNCHANGED rows
    BY <1>1 DEF ChargeOn
  <1>2. ASSUME NEW c \in Candidate, PersistVolume(c) PROVE ChargeOn(d)' = ChargeOn(d)
    <2>1. RowOf(c) \in RowIds /\ rows[RowOf(c)].status = "absent"
      BY <1>2, RowOfInRowIds DEF PersistVolume, Outcome
    <2>2. ChargeIn(VolumeRow(c), d) = 0 /\ ChargeIn(rows[RowOf(c)], d) = 0
      BY <2>1 DEF VolumeRow, ChargeIn, SoundRows, SoundRow
    <2>3. ASSUME NEW r \in RowIds PROVE ChargeIn(rows'[r], d) = ChargeIn(rows[r], d)
      BY <1>2, <2>1, <2>2, StatusOnly DEF PersistVolume, TypeOK, SoundRows
    <2> QED
      BY <2>3 DEF ChargeOn
  <1>3. ASSUME NEW r \in RowIds, NEW outcome \in Closings, Close(r, outcome)
        PROVE  ChargeOn(d)' = ChargeOn(d)
    <2>1. rows[r] \in Row /\ rows' = [rows EXCEPT ![r] = [rows[r] EXCEPT !.status = outcome]]
      BY <1>3 DEF Close, TypeOK
    <2>2. ASSUME NEW s \in RowIds PROVE ChargeIn(rows'[s], d) = ChargeIn(rows[s], d)
      <3>1. rows'[s] = rows[s] \/ rows'[s] = [rows[s] EXCEPT !.status = outcome]
        BY <2>1 DEF TypeOK
      <3>2. outcome \in Closings
        BY <1>3
      <3>3. ChargeIn([rows[s] EXCEPT !.status = outcome], d) = ChargeIn(rows[s], d)
        BY <1>a, <3>2, StatusOnly
      <3> QED
        BY <3>1, <3>3
    <2> QED
      BY <2>2 DEF ChargeOn
  <1> QED
    BY <1>1, <1>2, <1>3
    DEF Next, vars, StartCycle, EndCycle, NextDay, Crash, Start, PersistNew, ReadExisting,
        PersistExisting, ReadFails, ReturnDuplicate, Rollback, Deliver, NotDelivered,
        SettlementReads

\* A commit adds at most the session's grant to what the table charges to a date.
LEMMA CommitSum ==
    ASSUME IInv, NEW d \in Days, NEW t \in session,
           ChargeOn(d)' = [ChargeOn(d) EXCEPT ![t.id] = ChargeIn(t.row, d)]
    PROVE  /\ SumOf(ChargeOn(d)) \in Nat /\ SumOf(ChargeOn(d))' \in Nat
           /\ SumOf(ChargeOn(d))' <= SumOf(ChargeOn(d)) + InFlight(t, d)
  <1> USE DEF IInv
  <1>1. /\ t.id \in RowIds /\ t.row \in Row
        /\ ChargeIn(t.row, d) \in 0 .. MaxStake
    <2>1. t.id \in RowIds /\ t.row \in Row
      BY SessionFields
    <2> QED
      BY <2>1, PickLedgerAssumption DEF ChargeIn, Row
  <1>2. /\ ChargeOn(d) \in [RowIds -> 0 .. MaxStake]
        /\ ChargeOn(d)[t.id] = ChargeIn(rows[t.id], d)
    BY <1>1, ChargeTypes DEF ChargeOn
  <1>3. /\ SumOf(ChargeOn(d)) \in Nat
        /\ SumOf([ChargeOn(d) EXCEPT ![t.id] = ChargeIn(t.row, d)])
              = SumOf(ChargeOn(d)) - ChargeOn(d)[t.id] + ChargeIn(t.row, d)
        /\ [ChargeOn(d) EXCEPT ![t.id] = ChargeIn(t.row, d)] \in [RowIds -> 0 .. MaxStake]
    BY <1>1, <1>2, SumAssumption
  <1>4. SumOf([ChargeOn(d) EXCEPT ![t.id] = ChargeIn(t.row, d)]) \in Nat
    BY <1>3, SumAssumption
  <1>5. ChargeIn(t.row, d) <= ChargeIn(rows[t.id], d) + InFlight(t, d)
    BY DEF SoundSessions, SoundSession
  <1>6. /\ ChargeIn(rows[t.id], d) \in Nat /\ InFlight(t, d) \in Nat
    BY <1>1, <1>2, SessionFields DEF InFlight
  <1>7. SumOf(ChargeOn(d))' = SumOf([ChargeOn(d) EXCEPT ![t.id] = ChargeIn(t.row, d)])
    OBVIOUS
  <1> HIDE DEF IInv
  <1> QED
    BY <1>1, <1>2, <1>3, <1>4, <1>5, <1>6, <1>7

\* What is durable and what is in flight together fit the daily cap.
FitsDailyCap(d) ==
    /\ SumOf(ChargeOn(d)) <= DailyCap + leaked[d]
    /\ \A t \in session : SumOf(ChargeOn(d)) + InFlight(t, d) <= DailyCap + leaked[d]

\* LedgerNeverForgets for one date.
Remembers(d) ==
    up /\ (d >= day \/ d = cycle) =>
        /\ SumOf(ChargeOn(d)) <= ledger.used[d] + leaked[d]
        /\ \A t \in session :
              SumOf(ChargeOn(d)) + InFlight(t, d) <= ledger.used[d] + leaked[d]

CapInv == \A d \in Days : FitsDailyCap(d) /\ Remembers(d)

\* Nothing is charged and nothing is reserved before the first start.
LEMMA InitCapInv == Init => CapInv
  <1> SUFFICES ASSUME Init, NEW d \in Days PROVE FitsDailyCap(d)
    BY DEF Init, CapInv, Remembers
  <1>1. ChargeOn(d) = [r \in RowIds |-> 0]
    BY DEF Init, ChargeOn, ChargeIn, Absent
  <1>2. SumOf(ChargeOn(d)) = 0 /\ leaked[d] = 0 /\ session = {}
    BY <1>1, SumAssumption DEF Init
  <1> QED
    BY <1>2, PickLedgerAssumption DEF FitsDailyCap

\* No row is charged to a date that has not come: run_value_pipeline takes the date
\* from the clock, once per cycle.
LEMMA FutureIsFree ==
    ASSUME IInv, NEW d \in Days, d > day
    PROVE  SumOf(ChargeOn(d)) = 0
  <1>1. ASSUME NEW r \in RowIds PROVE ChargeIn(rows[r], d) = 0
    <2>1. rows[r] \in Row /\ rows[r].chargedOn <= day
      BY DEF IInv, TypeOK, SoundRows, SoundRow
    <2>2. rows[r].chargedOn \in Nat /\ day \in Nat /\ d \in Nat
      BY <2>1, PickLedgerAssumption DEF Row, IInv, TypeOK
    <2> QED
      BY <2>1, <2>2 DEF ChargeIn
  <1>2. ChargeOn(d) = [r \in RowIds |-> 0]
    BY <1>1 DEF ChargeOn
  <1> QED
    BY <1>2, SumAssumption

\* Every step keeps the table within the daily cap and the ledger at or above the
\* table: reservation, commit, release, the lost answer and the rebuild at startup.
LEMMA NextCapInv == IInv /\ CapInv /\ [Next]_vars => CapInv'
  <1> SUFFICES ASSUME IInv, CapInv, [Next]_vars, NEW d \in Days
               PROVE  FitsDailyCap(d)' /\ Remembers(d)'
    BY DEF CapInv
  <1> DEFINE sum == SumOf(ChargeOn(d))
  <1>a. /\ sum \in Nat /\ leaked[d] \in Nat /\ ledger.used[d] \in Nat
        /\ day \in Nat /\ cycle \in Nat /\ DailyCap \in Nat /\ d \in Nat
    BY ChargeTypes, PickLedgerAssumption DEF IInv, TypeOK
  <1>b. FitsDailyCap(d) /\ Remembers(d)
    BY DEF CapInv
  <1>1. ASSUME NEW t \in session, Commit(t) \/ CommitInDoubt(t)
        PROVE  FitsDailyCap(d)' /\ Remembers(d)'
    <2>1. sum' \in Nat /\ sum' <= sum + InFlight(t, d)
      BY <1>1, CommitMovesOneCharge, CommitSum
    <2>2. /\ session' = {} /\ t.day = cycle
          /\ t.day \in Days /\ t.granted \in Nat /\ t.ref \in Refs
      <3>1. Committed(t) /\ TypeOK
        BY <1>1 DEF Commit, CommitInDoubt, IInv
      <3>2. t.day = cycle
        BY DEF IInv, SoundSessions, SoundSession
      <3> QED
        BY <3>1, <3>2, CommittedTypes
    <2> HIDE DEF sum
    <2>3. CASE Commit(t)
      <3>1. InFlight(t, d) \in Nat /\ UNCHANGED <<up, day, cycle, ledger, leaked>>
        BY <2>2, <2>3 DEF InFlight, Commit
      <3>2. /\ sum + InFlight(t, d) <= DailyCap + leaked[d]
            /\ up /\ (d >= day \/ d = cycle)
                 => sum + InFlight(t, d) <= ledger.used[d] + leaked[d]
        BY <1>b DEF FitsDailyCap, Remembers, sum
      <3>3. /\ sum' <= DailyCap + leaked[d]
            /\ up /\ (d >= day \/ d = cycle) => sum' <= ledger.used[d] + leaked[d]
        BY <1>a, <2>1, <3>1, <3>2
      <3> QED
        BY <2>2, <3>1, <3>3 DEF FitsDailyCap, Remembers, sum
    <2>4. CASE CommitInDoubt(t)
      <3>1. leaked'[d] = leaked[d] + InFlight(t, d)
        BY <2>2, <2>4, <1>a DEF CommitInDoubt, InFlight, IInv, TypeOK
      <3>2. /\ ledger'.used[d] \in Nat
            /\ ledger.used[d] <= ledger'.used[d] + InFlight(t, d)
        BY <2>2, <2>4, <1>a DEF CommitInDoubt, InFlight, IInv, TypeOK, Released, NotBelowZero
      <3>3. InFlight(t, d) \in Nat /\ UNCHANGED <<up, day, cycle>>
        BY <2>2, <2>4 DEF InFlight, CommitInDoubt
      <3>4. /\ sum + InFlight(t, d) <= DailyCap + leaked[d]
            /\ up /\ (d >= day \/ d = cycle)
                 => sum + InFlight(t, d) <= ledger.used[d] + leaked[d]
        BY <1>b DEF FitsDailyCap, Remembers, sum
      <3>5. /\ sum' <= DailyCap + leaked'[d]
            /\ up /\ (d >= day \/ d = cycle) => sum' <= ledger'.used[d] + leaked'[d]
        BY <1>a, <2>1, <3>1, <3>2, <3>3, <3>4
      <3> QED
        BY <2>2, <3>3, <3>5 DEF FitsDailyCap, Remembers, sum
    <2> QED
      BY <1>1, <2>3, <2>4
  <1>2. CASE ~ \E t \in session : Commit(t) \/ CommitInDoubt(t)
    <2>1. sum' = sum
      BY <1>2, OthersMoveNoCharge
    <2> HIDE DEF sum
    <2>2. ASSUME UNCHANGED <<session, leaked, ledger, up, day, cycle>>
          PROVE  FitsDailyCap(d)' /\ Remembers(d)'
      BY <1>b, <2>1, <2>2 DEF FitsDailyCap, Remembers, sum
    <2>3. CASE StartCycle \/ EndCycle \/ NextDay
      <3>1. /\ UNCHANGED <<session, leaked, ledger, up>>
            /\ day' \in Nat /\ day' >= day
            /\ cycle' = cycle \/ cycle' = day \/ cycle' = 0
        BY <1>a, <2>3 DEF StartCycle, EndCycle, NextDay
      <3>2. d # 0 /\ (d >= day' \/ d = cycle' => d >= day \/ d = cycle)
        BY <1>a, <2>3, <3>1 DEF StartCycle, EndCycle, NextDay
      <3> QED
        BY <1>b, <2>1, <3>1, <3>2 DEF FitsDailyCap, Remembers, sum
    <2>4. CASE Crash
      BY <1>b, <2>1, <2>4 DEF Crash, FitsDailyCap, Remembers, sum
    <2>5. CASE Start
      <3>1. session = {} /\ cycle = 0
        BY <2>5 DEF Start, IInv, SoundCycle, SoundSessions, SoundSession
      <3>2. day' = day /\ cycle' = cycle /\ session' = session /\ leaked' = leaked
        BY <2>5 DEF Start
      <3>3. d = day => ledger'.used[d] = sum
        BY <2>5 DEF Start, Seeded, EmptyLedger, sum
      <3>4. d > day => sum = 0
        BY FutureIsFree DEF sum
      <3>5. ledger'.used[d] \in Nat
        BY <2>5, SeededTypes DEF Start, IInv
      <3>6. d >= day => sum <= ledger'.used[d] + leaked[d]
        BY <1>a, <3>3, <3>4, <3>5
      <3> QED
        BY <1>a, <1>b, <2>1, <3>1, <3>2, <3>6 DEF FitsDailyCap, Remembers, sum
    <2>6. ASSUME NEW c \in Candidate, NEW old \in Row, Mint(c, old)
          PROVE  FitsDailyCap(d)' /\ Remembers(d)'
      <3> DEFINE granted == Grant(cycle, Requested(c, old), c.ref)
                 t == SessionFor(c, old, granted)
      <3>1. /\ t \in SessionType /\ t.granted = granted /\ t.day = cycle
            /\ granted = 0 \/ granted <= DailyCap - ledger.used[cycle]
        BY <2>6, ReservedSession DEF Mint, SessionFor, IInv
      <3>2. /\ session' = {t} /\ ledger' = Reserved(cycle, granted, c.ref)
            /\ UNCHANGED <<up, day, cycle, leaked>> /\ up
        BY <2>6 DEF Mint, Ready, PersistAndReserve
      <3>3. granted \in Nat /\ cycle \in Days /\ ledger.used \in [Days -> Nat]
        <4>1. ledger.used \in [Days -> Nat]
          BY DEF IInv, TypeOK
        <4>2. t.granted \in 0 .. MaxStake /\ t.day \in Days
          BY <3>1 DEF SessionType
        <4> QED
          BY <3>1, <4>1, <4>2, PickLedgerAssumption
      <3> HIDE DEF granted, t
      <3>4. ledger'.used[d] = ledger.used[d] + InFlight(t, d)
        <4>1. ledger'.used = [ledger.used EXCEPT ![cycle] = @ + granted]
          BY <3>2 DEF Reserved
        <4>2. InFlight(t, d) = IF d = cycle THEN granted ELSE 0
          BY <3>1 DEF InFlight
        <4>3. ledger'.used[d] = IF d = cycle THEN ledger.used[d] + granted ELSE ledger.used[d]
          BY <3>3, <4>1
        <4> QED
          BY <1>a, <3>3, <4>2, <4>3
      <3>5. InFlight(t, d) \in Nat /\ (InFlight(t, d) = 0 \/ d = cycle)
        BY <3>1, <3>3 DEF InFlight
      <3>6. d = cycle \/ d >= day => sum + InFlight(t, d) <= ledger'.used[d] + leaked[d]
        BY <1>a, <1>b, <3>2, <3>4, <3>5 DEF Remembers, sum
      <3>7. sum + InFlight(t, d) <= DailyCap + leaked[d]
        <4>1. sum <= DailyCap + leaked[d]
          BY <1>b DEF FitsDailyCap, sum
        <4>2. CASE InFlight(t, d) = 0
          BY <1>a, <4>1, <4>2
        <4>3. CASE InFlight(t, d) # 0
          <5>1. d = cycle /\ granted <= DailyCap - ledger.used[d] /\ InFlight(t, d) = granted
            BY <3>1, <3>5, <4>3 DEF InFlight
          <5>2. sum <= ledger.used[d] + leaked[d]
            BY <1>b, <3>2, <5>1 DEF Remembers, sum
          <5> QED
            BY <1>a, <3>3, <5>1, <5>2
        <4> QED
          BY <4>2, <4>3
      <3>8. /\ sum <= DailyCap + leaked[d]
            /\ d = cycle \/ d >= day => sum <= ledger'.used[d] + leaked[d]
        BY <1>a, <3>4, <3>5, <3>6, <3>7
      <3> QED
        BY <2>1, <3>2, <3>6, <3>7, <3>8 DEF FitsDailyCap, Remembers, sum
    <2>7. ASSUME NEW t \in session, Rollback(t)
          PROVE  FitsDailyCap(d)' /\ Remembers(d)'
      <3>1. /\ t.day \in Days /\ t.granted \in Nat /\ t.ref \in Refs
            /\ ledger.used \in [Days -> Nat]
        <4>1. TypeOK
          BY DEF IInv
        <4>2. ledger.used \in [Days -> Nat]
          BY <4>1 DEF TypeOK
        <4> QED
          BY <4>1, <4>2, SessionFields
      <3>2. session' = {} /\ UNCHANGED <<up, day, cycle, leaked>>
        BY <2>7 DEF Rollback
      <3>3. InFlight(t, d) \in Nat /\ ledger.used[d] <= ledger'.used[d] + InFlight(t, d)
            /\ ledger'.used[d] \in Nat
        BY <2>7, <1>a, <3>1 DEF Rollback, Released, NotBelowZero, InFlight
      <3>4. up /\ (d >= day \/ d = cycle)
                => sum + InFlight(t, d) <= ledger.used[d] + leaked[d]
        BY <1>b, <2>7 DEF Remembers, sum
      <3>5. up /\ (d >= day \/ d = cycle) => sum <= ledger'.used[d] + leaked[d]
        BY <1>a, <3>3, <3>4
      <3> QED
        BY <1>b, <2>1, <3>2, <3>5 DEF FitsDailyCap, Remembers, sum
    <2>8. ASSUME NEW t \in session, Commit(t) \/ CommitInDoubt(t)
          PROVE  FitsDailyCap(d)' /\ Remembers(d)'
      BY <1>2, <2>8
    <2>9. ASSUME NEW c \in Candidate, PersistVolume(c) \/ ReturnDuplicate(c)
          PROVE  FitsDailyCap(d)' /\ Remembers(d)'
      BY <2>2, <2>9 DEF PersistVolume, ReturnDuplicate
    <2>10. ASSUME NEW a \in outbox, Deliver(a) \/ NotDelivered(a)
           PROVE  FitsDailyCap(d)' /\ Remembers(d)'
      BY <2>2, <2>10 DEF Deliver, NotDelivered
    <2>11. CASE Looks
      BY <2>2, <2>11, LooksOnly
    <2>12. ASSUME NEW r \in RowIds, NEW outcome \in Closings, Close(r, outcome)
           PROVE  FitsDailyCap(d)' /\ Remembers(d)'
      BY <2>2, <2>12 DEF Close
    <2>13. CASE UNCHANGED vars
      BY <2>2, <2>13 DEF vars
    <2> QED
      BY <2>3, <2>4, <2>5, <2>6, <2>7, <2>8, <2>9, <2>10, <2>11, <2>12, <2>13, MintSteps
      DEF Next, Looks
  <1> QED
    BY <1>1, <1>2

\* The daily cap: over every interleaving of cycles, crashes, restarts, redeployments
\* and midnights, what the table says was recommended on a UTC date exceeds
\* MAX_DAILY_EXPOSURE_PERCENT by no more than the grants that the except branch of
\* _persist_and_reserve released although the server had committed their row.
THEOREM DailyCap_Holds == Spec => []DailyCapHolds
  <1>1. CapInv => DailyCapHolds
    BY DEF CapInv, FitsDailyCap, DailyCapHolds
  <1> QED
    BY <1>1, InitIInv, NextIInv, InitCapInv, NextCapInv, PTL DEF Spec

\* The in-memory ledger never forgets a charge it has to count: the reservation, the
\* release and the rebuild at startup together cover update_pick_stake's columns.
THEOREM Ledger_NeverForgets == Spec => []LedgerNeverForgets
  <1>1. CapInv => LedgerNeverForgets
    BY DEF CapInv, Remembers, LedgerNeverForgets
  <1> QED
    BY <1>1, InitIInv, NextIInv, InitCapInv, NextCapInv, PTL DEF Spec

\* With a database that never loses the answer of a commit, the daily cap is strict.
THEOREM DailyCap_Strict ==
    ASSUME LosesAnswers = FALSE
    PROVE  Spec => [](\A d \in Days : SumOf(ChargeOn(d)) <= DailyCap)
  <1> DEFINE NoLeak == leaked = [d \in Days |-> 0]
  <1>1. Init => NoLeak
    BY DEF Init
  <1>2. NoLeak /\ [Next]_vars => NoLeak'
    BY DEF Next, vars, StartCycle, EndCycle, NextDay, Crash, Start, PersistVolume,
        PersistNew, ReadExisting, PersistExisting, ReadFails, SettlementReads,
        ReturnDuplicate, Commit, Rollback, CommitInDoubt, Deliver,
        NotDelivered, Close
  <1>3. TypeOK /\ NoLeak /\ DailyCapHolds => \A d \in Days : SumOf(ChargeOn(d)) <= DailyCap
    BY ChargeTypes, PickLedgerAssumption DEF DailyCapHolds
  <1> QED
    BY <1>1, <1>2, <1>3, Typing, DailyCap_Holds, PTL DEF Spec

----------------------------------------------------------------------------
(* The rows of the picks table: the inductive invariant.                   *)

SameBet(r, s) == r[1] = s[1] /\ r[2] = s[2]
OpenPremium(r) == Open(r) /\ rows[r].tier = "premium"

\* What an open session is about to write over the row it holds: a premium row whose
\* stake is what the ledger will have granted it, or a volume row without a grant.
WritesGrantedStake(t) ==
    \/ /\ t.row.tier = "premium"
       /\ t.row.stake = grants[t.id] + t.granted
       /\ rows[t.id].tier = "premium" => t.row.stake >= rows[t.id].stake
    \/ /\ t.row.tier = "volume" /\ t.granted = 0
       /\ rows[t.id].tier # "premium"

\* What an open session has locked: its row, whose status it leaves, and every other open
\* premium row of the same bet.
HoldsItsRows(t) ==
    /\ t.row.status = StatusLeft(t.id)
    /\ \A r \in t.displaced : Open(r)
    /\ \A r \in RowIds : SameBet(r, t.id) /\ r # t.id /\ OpenPremium(r) => r \in t.displaced

\* The alert an open session will hand over quotes the row it will commit.
QuotesItsRow(t) ==
    \A a \in t.alert : /\ a.id = t.id /\ t.row.tier = "premium"
                       /\ a.line = t.row.line /\ a.stake = t.row.stake

SoundLock(t) == WritesGrantedStake(t) /\ HoldsItsRows(t) /\ QuotesItsRow(t)

SoundLocks == \A t \in session : outbox = {} /\ SoundLock(t)

\* A premium row read to be re-priced was the open premium row of its bet: until the
\* transaction writes it, settled or not by then, no other one opens.
ReadsAlone ==
    \A x \in read : x.old.tier = "premium" =>
        \A r \in RowIds : SameBet(r, RowOf(x.cand)) /\ OpenPremium(r) => r = RowOf(x.cand)

\* A row a settlement has read as open is open until then, or superseded meanwhile.
SoundSettling == \A r \in settling : rows[r].status \in {"alerted", "superseded"}

TableInv == /\ StakeIsGranted /\ OneOpenPremium /\ FreshAlertMatchesRow
            /\ SoundLocks /\ ReadsAlone /\ SoundSettling

----------------------------------------------------------------------------
(* The rows: lemmas.                                                       *)

\* The picks table's unique key: two rows of one bet under one version are the same.
LEMMA RowKey ==
    ASSUME NEW r \in RowIds, NEW s \in RowIds, SameBet(r, s), r[3] = s[3]
    PROVE  r = s
  BY DEF RowIds, SameBet

\* Superseding or settling changes a row's status and nothing else of it.
LEMMA OnlyStatus ==
    ASSUME NEW row \in Row, NEW s \in Closings
    PROVE  /\ [row EXCEPT !.status = s].status = s
           /\ [row EXCEPT !.status = s].tier = row.tier
           /\ [row EXCEPT !.status = s].stake = row.stake
           /\ [row EXCEPT !.status = s].line = row.line
  BY DEF Row

\* _persist_and_reserve: the session a premium candidate opens holds its row, displaces
\* every other open premium row of the bet, and writes and quotes what is granted.
LEMMA OpensSoundLock ==
    ASSUME IInv, StakeIsGranted, NEW c \in Candidate, NEW old \in Row, Ready(c, old),
           old.tier = "premium" =>
               \A r \in RowIds : SameBet(r, RowOf(c)) /\ OpenPremium(r) => r = RowOf(c),
           NEW granted \in Nat,
           NEW t, t = SessionFor(c, old, granted)
    PROVE  SoundLock(t)
  <1> DEFINE total == Total(c, old, granted)
  <1>1. /\ RowOf(c) \in RowIds /\ SoundRow(old) /\ c.tier = "premium"
        /\ rows[RowOf(c)].tier = old.tier /\ rows[RowOf(c)].stake = old.stake
        /\ RowOf(c)[1] = Canonical[c.ref] /\ RowOf(c)[2] = c.sel /\ RowOf(c)[3] = version
    BY DEF Ready, SameButStatus, RowOf
  <1>2. /\ old.stake \in Nat /\ grants[RowOf(c)] \in Nat
        /\ grants[RowOf(c)] = (IF old.tier = "premium" THEN old.stake ELSE 0)
    <2>1. old.stake \in Nat
      BY <1>1 DEF Row
    <2>2. grants[RowOf(c)] \in Nat
      BY <1>1 DEF IInv, TypeOK
    <2> QED
      BY <1>1, <2>1, <2>2 DEF StakeIsGranted
  <1>3. /\ t.id = RowOf(c) /\ t.granted = granted
        /\ t.alert = (IF total = 0 THEN {} ELSE {AlertFor(c, old, total)})
        /\ t.row = (IF total = 0 THEN DemotedRow(c, old)
                    ELSE StakedRow(c, old, cycle, total, granted))
        /\ t.displaced = (IF Outcome(c, old) = "repriced" THEN {} ELSE OlderOpen(RowOf(c), c.tier))
    BY DEF SessionFor
  <1>a. StatusLeft(RowOf(c)) = StatusLeft(t.id)
    BY <1>3 DEF StatusLeft
  <1>4. CASE Outcome(c, old) = "repriced"
    <2>1. old.tier = "premium" /\ old.stake > 0
      BY <1>2, <1>4 DEF Outcome, MayReprice
    <2>2. total = old.stake + granted /\ total # 0
      BY <1>2, <1>4, <2>1 DEF Total
    <2>3. /\ t.row.tier = "premium" /\ t.row.status = StatusLeft(t.id)
          /\ t.row.stake = total /\ t.row.line = c.line
      BY <1>3, <1>a, <2>2 DEF StakedRow
    <2>4. WritesGrantedStake(t)
      BY <1>1, <1>2, <1>3, <2>1, <2>2, <2>3 DEF WritesGrantedStake
    <2>5. HoldsItsRows(t)
      <3>1. ASSUME NEW r \in RowIds, SameBet(r, t.id), OpenPremium(r) PROVE r = t.id
        BY <1>3, <2>1, <3>1
      <3> QED
        BY <1>3, <1>4, <2>3, <3>1 DEF HoldsItsRows
    <2>6. QuotesItsRow(t)
      BY <1>3, <2>2, <2>3 DEF QuotesItsRow, AlertFor
    <2> QED
      BY <2>4, <2>5, <2>6 DEF SoundLock
  <1>5. CASE Outcome(c, old) # "repriced"
    <2>1. old.tier # "premium" /\ total = granted
      BY <1>1, <1>5 DEF Ready, Outcome, MayUpgrade, SoundRow, Total
    <2>2. ASSUME t.row.status = StatusLeft(t.id) PROVE HoldsItsRows(t)
      <3>1. \A r \in t.displaced : Open(r)
        BY <1>3, <1>5 DEF OlderOpen
      <3>2. ASSUME NEW r \in RowIds, SameBet(r, t.id), r # t.id, OpenPremium(r)
            PROVE  r \in t.displaced
        <4>1. r[3] # t.id[3]
          BY <1>1, <1>3, <3>2, RowKey
        <4> QED
          BY <1>1, <1>3, <1>5, <3>2, <4>1 DEF OlderOpen, SameBet, OpenPremium
      <3> QED
        BY <2>2, <3>1, <3>2 DEF HoldsItsRows
    <2>3. CASE granted = 0
      <3>1. t.row = DemotedRow(c, old) /\ t.alert = {}
        BY <1>3, <2>1, <2>3
      <3>2. t.row.tier = "volume" /\ t.row.status = StatusLeft(t.id)
        BY <1>1, <1>a, <3>1 DEF DemotedRow, Row
      <3> QED
        BY <1>1, <1>3, <2>1, <2>2, <2>3, <3>1, <3>2
        DEF SoundLock, WritesGrantedStake, QuotesItsRow
    <2>4. CASE granted # 0
      <3>1. t.row = StakedRow(c, old, cycle, total, granted) /\ t.alert = {AlertFor(c, old, total)}
        BY <1>3, <2>1, <2>4
      <3>2. /\ t.row.tier = "premium" /\ t.row.status = StatusLeft(t.id)
            /\ t.row.stake = granted /\ t.row.line = c.line
        BY <1>a, <2>1, <3>1 DEF StakedRow
      <3>3. WritesGrantedStake(t)
        BY <1>1, <1>2, <1>3, <2>1, <3>2 DEF WritesGrantedStake
      <3>4. QuotesItsRow(t)
        BY <1>3, <2>1, <3>1, <3>2 DEF QuotesItsRow, AlertFor
      <3> QED
        BY <2>2, <3>2, <3>3, <3>4 DEF SoundLock
    <2> QED
      BY <2>3, <2>4
  <1> QED
    BY <1>4, <1>5

\* The picks table starts empty, with no grant, no alert and no open session.
LEMMA InitTableInv == Init => TableInv
  BY DEF Init, TableInv, StakeIsGranted, OneOpenPremium, FreshAlertMatchesRow, SoundLocks,
         ReadsAlone, SoundSettling, Absent, Open

\* A step that writes neither the table nor the grants and opens no session or alert
\* (the clock, a restart, a rollback, a delivery) disturbs nothing.
LEMMA QuietStep ==
    ASSUME TableInv, UNCHANGED <<rows, grants>>,
           session' \subseteq session, outbox' \subseteq outbox, settling' \subseteq settling,
           read' = {} \/ (read' \subseteq read /\ UNCHANGED version)
    PROVE  TableInv'
  <1>1. StakeIsGranted' /\ OneOpenPremium' /\ FreshAlertMatchesRow'
    BY DEF TableInv, StakeIsGranted, OneOpenPremium, FreshAlertMatchesRow, Open
  <1>2. ASSUME NEW t \in session' PROVE outbox' = {} /\ SoundLock(t)'
    BY <1>2 DEF TableInv, SoundLocks, SoundLock, WritesGrantedStake, HoldsItsRows,
                StatusLeft, QuotesItsRow, Open, OpenPremium
  <1>3. ReadsAlone' /\ SoundSettling'
    BY DEF TableInv, ReadsAlone, SoundSettling, OpenPremium, Open, RowOf
  <1> QED
    BY <1>1, <1>2, <1>3 DEF TableInv, SoundLocks

\* update_pick_stake and _supersede_older_versions: once the session's row is committed
\* its stake is its grant, and no other premium row of the bet is open.
LEMMA CommitKeepsTable ==
    ASSUME IInv, TableInv, NEW t \in session, Committed(t)
    PROVE  StakeIsGranted' /\ OneOpenPremium'
  <1>1. /\ t.id \in RowIds /\ t.granted \in Nat /\ t.row \in Row
        /\ \A r \in RowIds : rows[r] \in Row /\ grants[r] \in Nat
    BY SessionFields DEF IInv, TypeOK
  <1>2. /\ rows'[t.id] = t.row
        /\ \A r \in RowIds : r # t.id =>
              rows'[r] = (IF r \in t.displaced THEN [rows[r] EXCEPT !.status = "superseded"]
                          ELSE rows[r])
    BY <1>1 DEF Committed, Written
  <1>3. /\ grants'[t.id] = grants[t.id] + t.granted
        /\ \A r \in RowIds : r # t.id => grants'[r] = grants[r]
    BY <1>1 DEF Committed, IInv, TypeOK
  <1>4. SoundLock(t)
    BY DEF TableInv, SoundLocks
  <1>5. ASSUME NEW r \in RowIds, r # t.id
        PROVE  /\ rows'[r].tier = rows[r].tier /\ rows'[r].stake = rows[r].stake
               /\ OpenPremium(r)' => OpenPremium(r) /\ r \notin t.displaced
    <2>1. CASE r \in t.displaced
      <3>1. rows'[r] = [rows[r] EXCEPT !.status = "superseded"] /\ rows[r] \in Row
        BY <1>1, <1>2, <1>5, <2>1
      <3>2. /\ rows'[r].status = "superseded"
            /\ rows'[r].tier = rows[r].tier /\ rows'[r].stake = rows[r].stake
        BY <3>1, OnlyStatus
      <3> QED
        BY <3>2 DEF OpenPremium, Open
    <2>2. CASE r \notin t.displaced
      BY <1>2, <1>5, <2>2 DEF OpenPremium, Open
    <2> QED
      BY <2>1, <2>2
  <1>6. StakeIsGranted'
    <2>1. grants'[t.id] = IF rows'[t.id].tier = "premium" THEN rows'[t.id].stake ELSE 0
      <3>1. grants[t.id] = IF rows[t.id].tier = "premium" THEN rows[t.id].stake ELSE 0
        BY <1>1 DEF TableInv, StakeIsGranted
      <3> QED
        BY <3>1, <1>1, <1>2, <1>3, <1>4 DEF SoundLock, WritesGrantedStake
    <2>2. ASSUME NEW r \in RowIds, r # t.id
          PROVE  grants'[r] = IF rows'[r].tier = "premium" THEN rows'[r].stake ELSE 0
      BY <1>3, <1>5, <2>2 DEF TableInv, StakeIsGranted
    <2> QED
      BY <2>1, <2>2 DEF StakeIsGranted
  <1>7. ASSUME NEW r \in RowIds, NEW s \in RowIds,
               OpenPremium(r)', OpenPremium(s)', SameBet(r, s), r # s
        PROVE  FALSE
    <2>1. ASSUME NEW q \in RowIds, q # t.id, SameBet(q, t.id), OpenPremium(q)'
          PROVE  FALSE
      BY <1>4, <1>5, <2>1 DEF SoundLock, HoldsItsRows
    <2>2. r # t.id /\ s # t.id
      BY <1>7, <2>1 DEF SameBet
    <2>3. OpenPremium(r) /\ OpenPremium(s)
      BY <1>5, <1>7, <2>2
    <2> QED
      BY <1>7, <2>3 DEF TableInv, OneOpenPremium, OpenPremium, SameBet
  <1>8. OneOpenPremium'
    BY <1>7 DEF OneOpenPremium, OpenPremium, Open, SameBet
  <1> QED
    BY <1>6, <1>8

\* persist_pick for a volume pick: the new row holds no grant and opens no premium row;
\* the older versions it displaces change their status only.
LEMMA VolumeKeepsTable ==
    ASSUME IInv, TableInv, NEW c \in Candidate, PersistVolume(c)
    PROVE  StakeIsGranted' /\ OneOpenPremium'
  <1>1. /\ RowOf(c) \in RowIds /\ rows[RowOf(c)].status = "absent"
        /\ \A r \in RowIds : rows[r] \in Row /\ SoundRow(rows[r])
    BY RowOfInRowIds
    DEF PersistVolume, Outcome, MayUpgrade, MayReprice, IInv, TypeOK, SoundRows
  <1>2. rows[RowOf(c)].tier # "premium"
    BY <1>1 DEF SoundRow
  <1>3. rows'[RowOf(c)].tier = "volume" /\ UNCHANGED grants
    BY <1>1 DEF PersistVolume, VolumeRow
  <1>4. ASSUME NEW r \in RowIds, r # RowOf(c)
        PROVE  /\ rows'[r].tier = rows[r].tier /\ rows'[r].stake = rows[r].stake
               /\ OpenPremium(r)' => OpenPremium(r)
    <2>1. rows'[r] = rows[r] \/ rows'[r] = [rows[r] EXCEPT !.status = "superseded"]
      BY <1>4 DEF PersistVolume
    <2>2. /\ [rows[r] EXCEPT !.status = "superseded"].status = "superseded"
          /\ [rows[r] EXCEPT !.status = "superseded"].tier = rows[r].tier
          /\ [rows[r] EXCEPT !.status = "superseded"].stake = rows[r].stake
      BY <1>1, OnlyStatus
    <2> QED
      BY <2>1, <2>2 DEF OpenPremium, Open
  <1>5. StakeIsGranted'
    BY <1>1, <1>2, <1>3, <1>4 DEF TableInv, StakeIsGranted
  <1>6. \A r \in RowIds : OpenPremium(r)' => OpenPremium(r)
    BY <1>3, <1>4 DEF OpenPremium
  <1>7. OneOpenPremium'
    BY <1>6 DEF TableInv, OneOpenPremium, OpenPremium, Open
  <1> QED
    BY <1>5, <1>7

\* Settlement's write of one status leaves stakes, grants and tiers alone; a row that an
\* open session has locked is not written.
LEMMA CloseKeepsTable ==
    ASSUME IInv, TableInv, NEW q \in RowIds, NEW outcome \in Closings,
           Close(q, outcome)
    PROVE  TableInv'
  <1>1. /\ rows[q] \in Row
        /\ rows'[q] = [rows[q] EXCEPT !.status = outcome]
        /\ \A r \in RowIds : r # q => rows'[r] = rows[r]
        /\ UNCHANGED <<grants, session, outbox>>
    BY DEF Close, IInv, TypeOK
  <1>2. /\ [rows[q] EXCEPT !.status = outcome].status = outcome
        /\ [rows[q] EXCEPT !.status = outcome].tier = rows[q].tier
        /\ [rows[q] EXCEPT !.status = outcome].stake = rows[q].stake
        /\ [rows[q] EXCEPT !.status = outcome].line = rows[q].line
    BY <1>1, OnlyStatus
  <1>3. ASSUME NEW r \in RowIds
        PROVE  /\ rows'[r].tier = rows[r].tier /\ rows'[r].stake = rows[r].stake
               /\ rows'[r].line = rows[r].line
               /\ OpenPremium(r)' => OpenPremium(r)
    BY <1>1, <1>2 DEF OpenPremium, Open
  <1>4. StakeIsGranted'
    BY <1>1, <1>3 DEF TableInv, StakeIsGranted
  <1>5. OneOpenPremium'
    BY <1>3 DEF TableInv, OneOpenPremium, OpenPremium, Open
  <1>6. FreshAlertMatchesRow'
    <2>1. \A a \in outbox : a.id \in RowIds
      BY DEF IInv, TypeOK, AlertType
    <2> QED
      BY <1>1, <1>3, <2>1 DEF TableInv, FreshAlertMatchesRow
  <1>7. ASSUME NEW t \in session PROVE SoundLock(t)'
    <2>1. /\ SoundLock(t) /\ q # t.id /\ q \notin t.displaced
          /\ t.id \in RowIds /\ t.displaced \subseteq RowIds
      BY SessionFields DEF Close, TableInv, SoundLocks, IInv
    <2>2. rows'[t.id] = rows[t.id] /\ \A r \in t.displaced : rows'[r] = rows[r]
      BY <1>1, <2>1
    <2>3. WritesGrantedStake(t)'
      BY <1>1, <2>1, <2>2 DEF SoundLock, WritesGrantedStake
    <2>4. HoldsItsRows(t)'
      BY <1>3, <2>1, <2>2 DEF SoundLock, HoldsItsRows, StatusLeft, Open
    <2>5. QuotesItsRow(t)'
      BY <2>1 DEF SoundLock, QuotesItsRow
    <2> QED
      BY <2>3, <2>4, <2>5 DEF SoundLock
  <1>8. SoundLocks'
    BY <1>1, <1>7 DEF TableInv, SoundLocks
  <1>9. ReadsAlone'
    BY <1>3 DEF Close, TableInv, ReadsAlone, RowOf
  <1>10. SoundSettling'
    BY <1>1 DEF Close, TableInv, SoundSettling, IInv, TypeOK
  <1> QED
    BY <1>4, <1>5, <1>6, <1>8, <1>9, <1>10 DEF TableInv

\* Every step keeps stakes, open rows, alerts and locks coherent.
LEMMA NextTableInv == IInv /\ TableInv /\ [Next]_vars => TableInv'
  <1> SUFFICES ASSUME IInv, TableInv, [Next]_vars PROVE TableInv'
    OBVIOUS
  <1>a. ASSUME NEW x \in read PROVE up /\ session = {} /\ outbox = {}
    BY DEF IInv, SoundReads, Ready
  <1>1. CASE StartCycle \/ EndCycle \/ NextDay \/ Crash \/ Start \/ UNCHANGED vars
    <2>1. CASE Start
      <3>1. read' = {}
        BY <1>a, <2>1 DEF Start
      <3> QED
        BY <2>1, <3>1, QuietStep DEF Start
    <2> QED
      BY <1>1, <2>1, QuietStep DEF StartCycle, EndCycle, NextDay, Crash, vars
  <1>2. ASSUME NEW c \in Candidate, PersistVolume(c) PROVE TableInv'
    <2>1. session' = {} /\ outbox' = {} /\ read' = {} /\ UNCHANGED settling
      BY <1>2 DEF PersistVolume, Take, Idle
    <2>2. SoundSettling'
      <3>1. ASSUME NEW r \in settling PROVE rows'[r].status \in {"alerted", "superseded"}
        <4>1. r \in RowIds /\ rows[r] \in Row
          BY DEF IInv, TypeOK
        <4>2. CASE r = RowOf(c)
          BY <1>2, <4>1, <4>2 DEF PersistVolume, VolumeRow
        <4>3. CASE r # RowOf(c)
          BY <1>2, <4>1, <4>3, OnlyStatus DEF PersistVolume, TableInv, SoundSettling
        <4> QED
          BY <4>2, <4>3
      <3> QED
        BY <2>1, <3>1 DEF SoundSettling
    <2> QED
      BY <1>2, <2>1, <2>2, VolumeKeepsTable
      DEF TableInv, SoundLocks, FreshAlertMatchesRow, ReadsAlone
  <1>3. ASSUME NEW c \in Candidate, NEW old \in Row, Mint(c, old),
               old.tier = "premium" =>
                  \A r \in RowIds : SameBet(r, RowOf(c)) /\ OpenPremium(r) => r = RowOf(c)
        PROVE  TableInv'
    <2> DEFINE granted == Grant(cycle, Requested(c, old), c.ref)
               t == SessionFor(c, old, granted)
    <2>1. /\ Ready(c, old) /\ session' = {t} /\ outbox = {} /\ read' = {}
          /\ UNCHANGED <<rows, grants, outbox, settling>>
      BY <1>3 DEF Mint, Ready, PersistAndReserve
    <2>2. granted \in Nat
      <3>1. t \in SessionType /\ t.granted = granted
        BY <2>1, ReservedSession DEF IInv, SessionFor
      <3>2. t.granted \in 0 .. MaxStake
        BY <3>1 DEF SessionType
      <3> QED
        BY <3>1, <3>2, PickLedgerAssumption
    <2>3. SoundLock(t)
      BY <1>3, <2>1, <2>2, OpensSoundLock DEF TableInv
    <2> HIDE DEF t
    <2>4. ASSUME NEW u \in session' PROVE outbox' = {} /\ SoundLock(u)'
      <3>1. SoundLock(u)
        BY <2>1, <2>3, <2>4
      <3> QED
        BY <2>1, <3>1 DEF SoundLock, WritesGrantedStake, HoldsItsRows, StatusLeft,
                          QuotesItsRow, OpenPremium, Open
    <2>5. StakeIsGranted' /\ OneOpenPremium' /\ FreshAlertMatchesRow'
      BY <2>1 DEF TableInv, StakeIsGranted, OneOpenPremium, FreshAlertMatchesRow, Open
    <2>6. SoundLocks'
      BY <2>1, <2>4 DEF SoundLocks
    <2>7. ReadsAlone' /\ SoundSettling'
      BY <2>1 DEF TableInv, ReadsAlone, SoundSettling
    <2> QED
      BY <2>5, <2>6, <2>7 DEF TableInv
  <1>4. ASSUME NEW c \in Candidate, ReturnDuplicate(c) PROVE TableInv'
    <2>1. /\ session' = {} /\ read' = {} /\ UNCHANGED <<rows, grants, settling>>
          /\ \A a \in outbox' : a.outcome = "duplicate"
      BY <1>4 DEF ReturnDuplicate, Take, Idle, AlertFor
    <2> QED
      BY <2>1 DEF TableInv, StakeIsGranted, OneOpenPremium, FreshAlertMatchesRow, SoundLocks,
                  ReadsAlone, SoundSettling, Open
  <1>5. ASSUME NEW t \in session, Commit(t) \/ CommitInDoubt(t) PROVE TableInv'
    <2>1. Committed(t) /\ session' = {} /\ (outbox' = {} \/ outbox' = t.alert)
      BY <1>5 DEF Commit, CommitInDoubt, Committed, TableInv, SoundLocks
    <2>2. StakeIsGranted' /\ OneOpenPremium'
      BY <2>1, CommitKeepsTable
    <2>3. rows'[t.id] = t.row
      BY <2>1, WrittenTable DEF Committed, IInv
    <2>4. QuotesItsRow(t)
      BY DEF TableInv, SoundLocks, SoundLock
    <2>5. FreshAlertMatchesRow'
      BY <2>1, <2>3, <2>4 DEF FreshAlertMatchesRow, QuotesItsRow
    <2>6. read' = {} /\ UNCHANGED settling
      BY <1>5, <1>a DEF Commit, CommitInDoubt
    <2>7. SoundSettling'
      <3>1. ASSUME NEW r \in settling PROVE rows'[r].status \in {"alerted", "superseded"}
        <4>1. /\ r \in RowIds /\ rows[r] \in Row
              /\ rows[r].status \in {"alerted", "superseded"}
          BY DEF IInv, TypeOK, TableInv, SoundSettling
        <4>2. CASE r = t.id
          <5>1. t.row.status = rows[t.id].status
            BY <4>1, <4>2 DEF TableInv, SoundLocks, SoundLock, HoldsItsRows, StatusLeft
          <5> QED
            BY <2>3, <4>1, <4>2, <5>1
        <4>3. CASE r # t.id
          BY <2>1, <4>1, <4>3, WrittenTable, OnlyStatus DEF Committed, IInv
        <4> QED
          BY <4>2, <4>3
      <3> QED
        BY <2>6, <3>1 DEF SoundSettling
    <2> QED
      BY <2>1, <2>2, <2>5, <2>6, <2>7 DEF TableInv, SoundLocks, ReadsAlone
  <1>6. ASSUME NEW t \in session, Rollback(t) PROVE TableInv'
    BY <1>6, QuietStep DEF Rollback
  <1>7. ASSUME NEW a \in outbox, Deliver(a) \/ NotDelivered(a) PROVE TableInv'
    BY <1>7, QuietStep DEF Deliver, NotDelivered
  <1>8. ASSUME NEW c \in Candidate, ReadExisting(c) PROVE TableInv'
    <2> DEFINE old == rows[RowOf(c)]
    <2>1. /\ read' = {[cand |-> c, old |-> old]} /\ RowOf(c) \in RowIds
          /\ session = {} /\ outbox = {} /\ Open(RowOf(c))
          /\ UNCHANGED <<rows, grants, version, session, outbox, settling>>
      BY <1>8, RowOfInRowIds
      DEF ReadExisting, IInv, Outcome, MayUpgrade, MayReprice, Open
    <2>2. ASSUME old.tier = "premium", NEW r \in RowIds, SameBet(r, RowOf(c)), OpenPremium(r)
          PROVE  r = RowOf(c)
      BY <2>1, <2>2 DEF TableInv, OneOpenPremium, OpenPremium, SameBet
    <2>3. ReadsAlone'
      BY <2>1, <2>2 DEF ReadsAlone, RowOf, OpenPremium, Open
    <2> QED
      BY <2>1, <2>3 DEF TableInv, StakeIsGranted, OneOpenPremium, FreshAlertMatchesRow,
                        SoundLocks, SoundSettling, Open
  <1>10. ASSUME NEW r \in RowIds, SettlementReads(r) PROVE TableInv'
    <2>1. SoundSettling'
      BY <1>10 DEF SettlementReads, TableInv, SoundSettling, Open
    <2>2. /\ UNCHANGED <<rows, grants, version, session, outbox, read>>
      BY <1>10 DEF SettlementReads
    <2>3. StakeIsGranted' /\ OneOpenPremium' /\ FreshAlertMatchesRow' /\ ReadsAlone'
      BY <2>2 DEF TableInv, StakeIsGranted, OneOpenPremium, FreshAlertMatchesRow, ReadsAlone,
                  OpenPremium, Open, RowOf
    <2>4. SoundLocks'
      BY <2>2 DEF TableInv, SoundLocks, SoundLock, WritesGrantedStake, HoldsItsRows,
                  StatusLeft, QuotesItsRow, OpenPremium, Open
    <2> QED
      BY <2>1, <2>3, <2>4 DEF TableInv
  <1>11. CASE ReadFails
    BY <1>11, QuietStep DEF ReadFails
  <1>12. ASSUME NEW c \in Candidate, PersistNew(c) PROVE TableInv'
    <2>1. /\ Mint(c, rows[RowOf(c)]) /\ rows[RowOf(c)] \in Row
          /\ rows[RowOf(c)].tier # "premium"
      BY <1>12, MintNew
    <2> QED
      BY <1>3, <2>1
  <1>13. ASSUME NEW x \in read, PersistExisting(x) PROVE TableInv'
    <2>1. Mint(x.cand, x.old) /\ x.cand \in Candidate /\ x.old \in Row
      BY <1>13, MintExisting
    <2> QED
      BY <1>3, <2>1 DEF TableInv, ReadsAlone
  <1>9. ASSUME NEW r \in RowIds, NEW outcome \in Closings, Close(r, outcome)
        PROVE  TableInv'
    BY <1>9, CloseKeepsTable
  <1> QED
    BY <1>1, <1>2, <1>4, <1>5, <1>6, <1>7, <1>8, <1>9, <1>10, <1>11, <1>12, <1>13 DEF Next

----------------------------------------------------------------------------
(* The rows: the theorems.                                                 *)

\* The coherence of the table, the alert and the locks holds in every behaviour.
THEOREM TableInvariance == Spec => []TableInv
  BY InitIInv, NextIInv, InitTableInv, NextTableInv, PTL DEF Spec

\* update_pick_stake: whatever days, price moves, promotions, lost answers and restarts
\* a row has gone through, its recommended stake is the sum of what the ledger granted it.
THEOREM Stake_IsGranted == Spec => []StakeIsGranted
  BY TableInvariance, PTL DEF TableInv

\* _supersede_older_versions: whatever versions are deployed, one bet has at most one
\* open premium row.
THEOREM One_OpenPremium == Spec => []OneOpenPremium
  BY TableInvariance, PTL DEF TableInv

\* _persist_and_reserve returns a staked copy: the alert of a new, promoted or re-priced
\* pick quotes the line and the stake its row holds until it is delivered or given up.
THEOREM FreshAlert_MatchesRow == Spec => []FreshAlertMatchesRow
  BY TableInvariance, PTL DEF TableInv

\* What is InHand was so before, or was open or absent when the mint path took it up.
LEMMA TakenInHand ==
    ASSUME IInv, Next, NEW r \in RowIds, InHand(r)', ~InHand(r)
    PROVE  ~Closed(r)
  <1>1. \A x \in read : up
    BY DEF IInv, SoundReads, Ready
  <1>2. ASSUME NEW c \in Candidate, ReadExisting(c) PROVE ~Closed(r)
    <2>1. /\ r = RowOf(c) /\ rows[RowOf(c)].status = "alerted"
      BY <1>2 DEF ReadExisting, InHand, RowOf, Outcome, MayUpgrade, MayReprice
    <2> QED
      BY <2>1 DEF Closed
  <1>3. ASSUME NEW c \in Candidate, PersistNew(c) PROVE ~Closed(r)
    <2>1. session' = {SessionFor(c, rows[RowOf(c)], Grant(cycle, Requested(c, rows[RowOf(c)]),
                                                          c.ref))}
          /\ read' = read /\ version' = version
          /\ rows[RowOf(c)].status = "absent"
      BY <1>3 DEF PersistNew, PersistAndReserve, Outcome
    <2>2. r = RowOf(c)
      BY <2>1 DEF InHand, RowOf, SessionFor
    <2> QED
      BY <2>1, <2>2 DEF Closed
  <1>4. ASSUME NEW x \in read, PersistExisting(x) PROVE FALSE
    <2>1. session' = {SessionFor(x.cand, x.old, Grant(cycle, Requested(x.cand, x.old),
                                                      x.cand.ref))}
          /\ read' = {}
      BY <1>4 DEF PersistExisting, PersistAndReserve
    <2>2. r = RowOf(x.cand)
      BY <2>1 DEF InHand, SessionFor
    <2> QED
      BY <2>2 DEF InHand
  <1>5. CASE session' \subseteq session /\ read' \subseteq read
             /\ (version' = version \/ read' = {})
    BY <1>5 DEF InHand, RowOf
  <1>6. CASE Start
    <2>1. read' = {} /\ session' = session
      BY <1>1, <1>6 DEF Start
    <2> QED
      BY <1>5, <2>1
  <1> QED
    BY <1>2, <1>3, <1>4, <1>5, <1>6
    DEF Next, StartCycle, EndCycle, NextDay, Crash, PersistVolume, ReadFails, ReturnDuplicate,
        Commit, Committed, Rollback, CommitInDoubt, Deliver, NotDelivered, SettlementReads,
        Close

\* persist_pick and settlement, each reading a row before it writes it: a premium row never
\* turns back into a volume row and its stake never shrinks; a settled row stays settled
\* and a superseded one closed; and a closed row that the mint path has not read while it
\* was open is never taken up, promoted or re-priced.
THEOREM Rows_AreNeverTakenBack == Spec => RowsAreNeverTakenBack
  <1> DEFINE Kept(r) ==
        /\ rows[r].tier = "premium" => rows'[r].tier = "premium" /\ rows'[r].stake >= rows[r].stake
        /\ rows[r].status = "settled" => rows'[r].status = "settled"
        /\ Closed(r) => Closed(r)'
        /\ Closed(r) /\ ~InHand(r) =>
              ~InHand(r)' /\ rows'[r] = [rows[r] EXCEPT !.status = rows'[r].status]
  <1>1. IInv /\ TableInv /\ [Next]_vars => [\A r \in RowIds : Kept(r)]_vars
    <2> SUFFICES ASSUME IInv, TableInv, Next, NEW r \in RowIds PROVE Kept(r)
      OBVIOUS
    <2>a. rows[r] \in Row /\ rows[r].stake \in Nat /\ SoundRow(rows[r])
      BY PickLedgerAssumption DEF IInv, TypeOK, SoundRows, Row
    <2>b. Closed(r) /\ ~InHand(r) => ~InHand(r)'
      BY TakenInHand
    <2>1. CASE rows'[r] = rows[r]
      <3>1. rows[r] = [rows[r] EXCEPT !.status = rows[r].status]
        BY <2>a DEF Row
      <3> QED
        BY <2>1, <2>a, <2>b, <3>1 DEF Closed
    <2>2. ASSUME NEW s \in Closings, rows'[r] = [rows[r] EXCEPT !.status = s],
                 rows[r].status # "settled"
          PROVE  Kept(r)
      <3>1. /\ rows'[r].tier = rows[r].tier /\ rows'[r].stake = rows[r].stake
            /\ rows'[r].status = s
        BY <2>2, <2>a, OnlyStatus
      <3> QED
        BY <2>2, <2>a, <2>b, <3>1 DEF Closed
    <2>3. ASSUME NEW c \in Candidate, PersistVolume(c) PROVE Kept(r)
      <3>1. CASE r = RowOf(c)
        <4>1. rows[r].status = "absent"
          BY <2>3, <3>1 DEF PersistVolume, Outcome
        <4> QED
          BY <2>a, <4>1 DEF SoundRow, Closed
      <3>2. CASE r \in OlderOpen(RowOf(c), c.tier) /\ r # RowOf(c)
        <4>1. rows'[r] = [rows[r] EXCEPT !.status = "superseded"] /\ Open(r)
          BY <2>3, <3>2 DEF PersistVolume, OlderOpen
        <4> QED
          BY <2>2, <4>1 DEF Open
      <3>3. CASE r \notin OlderOpen(RowOf(c), c.tier) /\ r # RowOf(c)
        BY <2>1, <2>3, <3>3 DEF PersistVolume
      <3> QED
        BY <3>1, <3>2, <3>3
    <2>4. ASSUME NEW t \in session, Commit(t) \/ CommitInDoubt(t) PROVE Kept(r)
      <3>1. rows' = Written(t) /\ SoundLock(t)
        BY <2>4 DEF Commit, CommitInDoubt, Committed, TableInv, SoundLocks
      <3>2. CASE r = t.id
        <4>1. rows'[r] = t.row /\ InHand(r)
          BY <3>1, <3>2 DEF Written, InHand
        <4>2. Closed(r) => t.row.status = rows[r].status
          BY <3>1, <3>2 DEF SoundLock, HoldsItsRows, StatusLeft, Closed
        <4>3. rows[r].tier = "premium" => t.row.tier = "premium" /\ t.row.stake >= rows[r].stake
          BY <3>1, <3>2 DEF SoundLock, WritesGrantedStake
        <4> QED
          BY <4>1, <4>2, <4>3 DEF Closed
      <3>3. CASE r \in t.displaced /\ r # t.id
        <4>1. rows'[r] = [rows[r] EXCEPT !.status = "superseded"] /\ Open(r)
          BY <3>1, <3>3 DEF Written, SoundLock, HoldsItsRows
        <4> QED
          BY <2>2, <4>1 DEF Open
      <3>4. CASE r \notin t.displaced /\ r # t.id
        BY <2>1, <3>1, <3>4 DEF Written
      <3> QED
        BY <3>2, <3>3, <3>4
    <2>5. ASSUME NEW q \in RowIds, NEW outcome \in Closings, Close(q, outcome)
          PROVE  Kept(r)
      <3>1. CASE r = q
        <4>1. rows'[r] = [rows[r] EXCEPT !.status = outcome] /\ r \in settling
          BY <2>5, <3>1 DEF Close, IInv, TypeOK
        <4>2. rows[r].status # "settled"
          BY <4>1 DEF TableInv, SoundSettling
        <4> QED
          BY <2>2, <2>5, <4>1, <4>2
      <3>2. CASE r # q
        BY <2>1, <2>5, <3>2 DEF Close, IInv, TypeOK
      <3> QED
        BY <3>1, <3>2
    <2>6. CASE UNCHANGED rows
      BY <2>1, <2>6
    <2> QED
      BY <2>3, <2>4, <2>5, <2>6
      DEF Next, StartCycle, EndCycle, NextDay, Crash, Start, PersistNew, ReadExisting,
          PersistExisting, ReadFails, ReturnDuplicate, Rollback, Deliver, NotDelivered,
          SettlementReads
  <1> QED
    BY <1>1, InitIInv, NextIInv, InitTableInv, NextTableInv, PTL
    DEF Spec, RowsAreNeverTakenBack

----------------------------------------------------------------------------
(* Nothing is stranded: what the ledger counts is in the table or in flight. *)

\* No row is charged to a date after the one the running cycle took from the clock.
ChargedByCycle ==
    /\ cycle # 0 => \A r \in RowIds : rows[r].chargedOn <= cycle
    /\ \A t \in session : t.row.chargedOn <= cycle

\* What the ledger counts on a date that can still be charged is durable or in flight.
Backed(d) ==
    up /\ (d >= day \/ d = cycle) =>
        /\ session = {} => ledger.used[d] <= SumOf(ChargeOn(d))
        /\ \A t \in session : ledger.used[d] <= SumOf(ChargeOn(d)) + InFlight(t, d)

BackedInv == ChargedByCycle /\ \A d \in Days : Backed(d)

USE DEF Days

----------------------------------------------------------------------------
(* Nothing is stranded: lemmas.                                            *)

\* update_pick_stake: a commit replaces the session's charge in the sum of a date.
LEMMA CommitSumExact ==
    ASSUME IInv, NEW d \in Days, NEW t \in session, Commit(t) \/ CommitInDoubt(t)
    PROVE  /\ ChargeIn(rows[t.id], d) \in Nat /\ ChargeIn(t.row, d) \in Nat
           /\ SumOf(ChargeOn(d)) \in Nat /\ SumOf(ChargeOn(d))' \in Nat
           /\ SumOf(ChargeOn(d))'
                = SumOf(ChargeOn(d)) - ChargeIn(rows[t.id], d) + ChargeIn(t.row, d)
  <1>1. TypeOK /\ t.id \in RowIds /\ t.row \in Row
    BY SessionFields DEF IInv
  <1>2. ChargeIn(t.row, d) \in 0 .. MaxStake
    BY <1>1, PickLedgerAssumption DEF ChargeIn, Row
  <1>3. /\ ChargeOn(d) \in [RowIds -> 0 .. MaxStake]
        /\ ChargeOn(d)[t.id] = ChargeIn(rows[t.id], d)
    BY <1>1, ChargeTypes DEF ChargeOn
  <1>4. /\ SumOf(ChargeOn(d)) \in Nat
        /\ SumOf([ChargeOn(d) EXCEPT ![t.id] = ChargeIn(t.row, d)])
              = SumOf(ChargeOn(d)) - ChargeOn(d)[t.id] + ChargeIn(t.row, d)
        /\ [ChargeOn(d) EXCEPT ![t.id] = ChargeIn(t.row, d)] \in [RowIds -> 0 .. MaxStake]
    BY <1>1, <1>2, <1>3, SumAssumption
  <1>5. SumOf([ChargeOn(d) EXCEPT ![t.id] = ChargeIn(t.row, d)]) \in Nat
    BY <1>4, SumAssumption
  <1>6. SumOf(ChargeOn(d))' = SumOf([ChargeOn(d) EXCEPT ![t.id] = ChargeIn(t.row, d)])
    <2>1. ChargeOn(d)' = [ChargeOn(d) EXCEPT ![t.id] = ChargeIn(t.row, d)]
      BY CommitMovesOneCharge
    <2> QED
      BY <2>1
  <1>7. ChargeIn(rows[t.id], d) \in 0 .. MaxStake
    BY <1>1, <1>3
  <1> QED
    BY <1>2, <1>3, <1>4, <1>5, <1>6, <1>7, PickLedgerAssumption

\* DailyExposureLedger.release: a day's total falls by what is handed back, never below
\* zero, and no other day's total moves.
LEMMA ReleasedUsed ==
    ASSUME TypeOK, NEW t \in session, NEW d \in Days
    PROVE  /\ Released(t.day, t.granted, t.ref).used[d]
                 = NotBelowZero(ledger.used[d] - InFlight(t, d))
           /\ Released(t.day, t.granted, t.ref).used[d] \in Nat
           /\ Released(t.day, t.granted, t.ref).used[d] <= ledger.used[d]
  <1>1. t.day \in Days /\ t.granted \in Nat
    BY SessionFields
  <1>2. ledger.used \in [Days -> Nat] /\ ledger.used[d] \in Nat
    BY DEF TypeOK
  <1>3. Released(t.day, t.granted, t.ref).used
          = [ledger.used EXCEPT ![t.day] = NotBelowZero(@ - t.granted)]
    BY DEF Released
  <1>4. Released(t.day, t.granted, t.ref).used[d]
          = IF d = t.day THEN NotBelowZero(ledger.used[d] - t.granted) ELSE ledger.used[d]
    BY <1>1, <1>2, <1>3
  <1> QED
    BY <1>1, <1>2, <1>4 DEF InFlight, NotBelowZero

\* Superseding or settling a row leaves the date it is charged to.
LEMMA ChargedOnStays ==
    ASSUME NEW row \in Row, NEW s \in Closings
    PROVE  [row EXCEPT !.status = s].chargedOn = row.chargedOn
  BY DEF Row

\* _persist_and_reserve opens its session under the date the cycle took: the row it is
\* about to write is charged to that date or to an earlier one.
LEMMA OpensChargedByCycle ==
    ASSUME ChargedByCycle, NEW c \in Candidate, NEW old \in Row, Ready(c, old), NEW granted,
           NEW t, t = SessionFor(c, old, granted)
    PROVE  t.row.chargedOn <= cycle
  <1> DEFINE total == Total(c, old, granted)
  <1>1. /\ old.chargedOn <= cycle /\ cycle \in Nat
    BY DEF ChargedByCycle, Ready, SameButStatus
  <1>2. t.row = (IF total = 0 THEN DemotedRow(c, old)
                 ELSE StakedRow(c, old, cycle, total, granted))
    BY DEF SessionFor
  <1>3. DemotedRow(c, old).chargedOn = old.chargedOn
    BY <1>1 DEF DemotedRow, Row
  <1>4. StakedRow(c, old, cycle, total, granted).chargedOn \in {old.chargedOn, cycle}
    BY DEF StakedRow, Charged
  <1> QED
    BY <1>1, <1>2, <1>3, <1>4

\* Every step keeps the charges behind the running cycle: a cycle takes its date from
\* the clock, and dates only pass.
LEMMA NextChargedByCycle == IInv /\ ChargedByCycle /\ [Next]_vars => ChargedByCycle'
  <1> SUFFICES ASSUME IInv, ChargedByCycle, [Next]_vars PROVE ChargedByCycle'
    OBVIOUS
  <1>a. /\ \A r \in RowIds : rows[r] \in Row /\ rows[r].chargedOn <= day
        /\ \A t \in session : up /\ t.day = cycle /\ t.id \in RowIds /\ cycle # 0
    <2>1. \A t \in session : t.day \in Days /\ t.id \in RowIds
      BY SessionFields DEF IInv
    <2>2. \A t \in session : up /\ t.day = cycle
      BY DEF IInv, SoundSessions, SoundSession
    <2>3. \A r \in RowIds : rows[r] \in Row /\ rows[r].chargedOn <= day
      BY DEF IInv, TypeOK, SoundRows, SoundRow
    <2> QED
      BY <2>1, <2>2, <2>3
  <1>1. CASE StartCycle
    BY <1>1, <1>a DEF StartCycle, ChargedByCycle
  <1>2. CASE EndCycle \/ Crash
    BY <1>2 DEF EndCycle, Crash, ChargedByCycle
  <1>3. CASE UNCHANGED <<rows, cycle, session>>
    BY <1>3 DEF ChargedByCycle
  <1>4. ASSUME NEW c \in Candidate, PersistVolume(c) PROVE ChargedByCycle'
    <2>1. /\ cycle \in Days /\ session = {} /\ UNCHANGED <<cycle, session>>
      BY <1>4, RowOfInRowIds DEF PersistVolume, IInv
    <2>2. ASSUME NEW r \in RowIds PROVE rows'[r].chargedOn <= cycle
      <3>1. \/ rows'[r] = rows[r] \/ rows'[r] = VolumeRow(c)
            \/ rows'[r] = [rows[r] EXCEPT !.status = "superseded"]
        BY <1>4 DEF PersistVolume
      <3>2. [rows[r] EXCEPT !.status = "superseded"].chargedOn = rows[r].chargedOn
        BY <1>a, ChargedOnStays
      <3>3. VolumeRow(c).chargedOn = 0
        BY DEF VolumeRow
      <3> QED
        <4>1. cycle \in Nat /\ cycle # 0
          BY <2>1, PickLedgerAssumption
        <4>2. rows[r].chargedOn <= cycle
          BY <4>1 DEF ChargedByCycle
        <4>3. CASE rows'[r] = VolumeRow(c)
          BY <3>3, <4>1, <4>3
        <4>4. CASE rows'[r] # VolumeRow(c)
          BY <3>1, <3>2, <4>2, <4>4
        <4> QED
          BY <4>3, <4>4
    <2> QED
      BY <2>1, <2>2 DEF ChargedByCycle
  <1>5. ASSUME NEW c \in Candidate, NEW old \in Row, Mint(c, old) PROVE ChargedByCycle'
    <2> DEFINE t == SessionFor(c, old, Grant(cycle, Requested(c, old), c.ref))
    <2>1. t.row.chargedOn <= cycle
      BY <1>5, OpensChargedByCycle DEF Mint
    <2>2. session' = {t} /\ UNCHANGED <<rows, cycle>>
      BY <1>5 DEF Mint, PersistAndReserve
    <2> HIDE DEF t
    <2> QED
      BY <2>1, <2>2 DEF ChargedByCycle
  <1>6. ASSUME NEW t \in session, Commit(t) \/ CommitInDoubt(t) PROVE ChargedByCycle'
    <2>1. rows' = Written(t) /\ session' = {} /\ UNCHANGED cycle
      BY <1>6 DEF Commit, CommitInDoubt, Committed
    <2>2. ASSUME NEW r \in RowIds PROVE rows'[r].chargedOn <= cycle
      <3>1. \/ rows'[r] = t.row \/ rows'[r] = rows[r]
            \/ rows'[r] = [rows[r] EXCEPT !.status = "superseded"]
        BY <2>1, WrittenTable DEF IInv
      <3>2. [rows[r] EXCEPT !.status = "superseded"].chargedOn = rows[r].chargedOn
        BY <1>a, ChargedOnStays
      <3> QED
        BY <1>a, <3>1, <3>2 DEF ChargedByCycle
    <2> QED
      BY <2>1, <2>2 DEF ChargedByCycle
  <1>7. ASSUME NEW q \in RowIds, NEW outcome \in Closings, Close(q, outcome)
        PROVE  ChargedByCycle'
    <2>1. UNCHANGED <<cycle, session>>
      BY <1>7 DEF Close
    <2>2. ASSUME NEW r \in RowIds PROVE rows'[r].chargedOn = rows[r].chargedOn
      <3>1. \/ rows'[r] = rows[r] \/ rows'[r] = [rows[r] EXCEPT !.status = outcome]
        BY <1>7 DEF Close, IInv, TypeOK
      <3>2. [rows[r] EXCEPT !.status = outcome].chargedOn = rows[r].chargedOn
        BY <1>7, <1>a, ChargedOnStays
      <3> QED
        BY <3>1, <3>2
    <2> QED
      BY <2>1, <2>2 DEF ChargedByCycle
  <1>8. ASSUME NEW t \in session, Rollback(t) PROVE ChargedByCycle'
    BY <1>8 DEF Rollback, ChargedByCycle
  <1> QED
    BY <1>1, <1>2, <1>3, <1>4, <1>5, <1>6, <1>7, <1>8, MintSteps
    DEF Next, vars, NextDay, Start, ReturnDuplicate, Deliver, NotDelivered, ReadExisting,
        ReadFails, SettlementReads

\* Every step keeps the ledger backed: what a commit makes durable, a release hands back
\* or the rebuild at startup counts is exactly what was reserved.
LEMMA NextBacked ==
    ASSUME IInv, ChargedByCycle, [Next]_vars, NEW d \in Days, Backed(d)
    PROVE  Backed(d)'
  <1> DEFINE sum == SumOf(ChargeOn(d))
             live == up /\ (d >= day \/ d = cycle)
  <1>a. /\ TypeOK /\ sum \in Nat /\ ledger.used[d] \in Nat
        /\ day \in Nat /\ cycle \in Nat /\ d \in Nat /\ d # 0 /\ cycle <= day
    <2>1. TypeOK /\ cycle <= day
      BY DEF IInv, SoundCycle
    <2>2. ledger.used \in [Days -> Nat] /\ day \in Days /\ cycle \in 0 .. MaxDay
      BY <2>1 DEF TypeOK
    <2> QED
      BY <2>1, <2>2, ChargeTypes, PickLedgerAssumption
  <1>1. ASSUME NEW t \in session, Commit(t) \/ CommitInDoubt(t) PROVE Backed(d)'
    <2>1. /\ t.id \in RowIds /\ t.day \in Days /\ t.granted \in Nat /\ t.ref \in Refs
          /\ t.day = cycle
          /\ ChargeIn(t.row, t.day) = ChargeIn(rows[t.id], t.day) + t.granted
      BY <1>a, SessionFields DEF IInv, SoundSessions, SoundSession
    <2>2. /\ ChargeIn(rows[t.id], d) \in Nat /\ ChargeIn(t.row, d) \in Nat /\ sum' \in Nat
          /\ sum' = sum - ChargeIn(rows[t.id], d) + ChargeIn(t.row, d)
      BY <1>1, CommitSumExact
    <2> HIDE DEF sum
    <2>3. live => sum + InFlight(t, d) <= sum'
      <3>1. CASE d = cycle
        BY <1>a, <2>1, <2>2, <3>1 DEF InFlight
      <3>2. CASE d # cycle /\ live
        <4>1. rows[t.id] \in Row /\ rows[t.id].chargedOn <= cycle /\ cycle < d
          BY <1>a, <2>1, <3>2, PickLedgerAssumption DEF ChargedByCycle, TypeOK
        <4>2. rows[t.id].chargedOn # d
          BY <1>a, <4>1, PickLedgerAssumption DEF Row
        <4>3. ChargeIn(rows[t.id], d) = 0 /\ InFlight(t, d) = 0
          BY <2>1, <3>2, <4>2 DEF ChargeIn, InFlight
        <4> QED
          BY <1>a, <2>2, <4>3
      <3> QED
        BY <3>1, <3>2
    <2>4. live => ledger.used[d] <= sum + InFlight(t, d)
      BY DEF Backed, sum
    <2>5. InFlight(t, d) \in Nat
      BY <2>1 DEF InFlight
    <2>6. /\ ledger'.used[d] \in Nat
          /\ ledger'.used[d] <= ledger.used[d]
      <3>1. CASE ledger' = ledger
        BY <1>a, <3>1
      <3>2. CASE ledger' = Released(t.day, t.granted, t.ref)
        BY <1>a, <2>1, ReleasedUsed, <3>2
      <3> QED
        BY <1>1, <3>1, <3>2 DEF Commit, CommitInDoubt
    <2>7. live => ledger'.used[d] <= sum'
      BY <1>a, <2>2, <2>3, <2>4, <2>5, <2>6
    <2>8. session' = {} /\ UNCHANGED <<up, day, cycle>>
      BY <1>1 DEF Commit, CommitInDoubt, Committed
    <2> QED
      BY <2>7, <2>8 DEF Backed, sum
  <1>2. CASE ~ \E t \in session : Commit(t) \/ CommitInDoubt(t)
    <2>1. sum' = sum
      BY <1>2, OthersMoveNoCharge
    <2> HIDE DEF sum
    <2>2. ASSUME UNCHANGED <<session, ledger, up, day, cycle>> PROVE Backed(d)'
      BY <2>1, <2>2 DEF Backed, sum
    <2>3. CASE StartCycle \/ EndCycle \/ NextDay
      <3>1. /\ UNCHANGED <<session, ledger, up>>
            /\ day' \in Nat /\ day' >= day
            /\ d >= day' \/ d = cycle' => d >= day \/ d = cycle
        BY <1>a, <2>3 DEF StartCycle, EndCycle, NextDay
      <3> QED
        BY <2>1, <3>1 DEF Backed, sum
    <2>4. CASE Crash
      BY <2>4 DEF Crash, Backed
    <2>5. CASE Start
      <3>1. session = {} /\ cycle = 0 /\ UNCHANGED <<session, cycle, day>>
        BY <2>5 DEF Start, IInv, SoundCycle, SoundSessions, SoundSession
      <3>2. ledger'.used[d] = IF d = day THEN sum ELSE 0
        BY <2>5, <1>a DEF Start, Seeded, EmptyLedger, sum, TypeOK
      <3> QED
        BY <1>a, <2>1, <3>1, <3>2 DEF Backed, sum
    <2>6. ASSUME NEW c \in Candidate, NEW old \in Row, Mint(c, old) PROVE Backed(d)'
      <3> DEFINE granted == Grant(cycle, Requested(c, old), c.ref)
                 t == SessionFor(c, old, granted)
      <3>1. /\ t \in SessionType /\ t.granted = granted /\ t.day = cycle
        BY <2>6, ReservedSession DEF Mint, SessionFor, IInv
      <3>2. /\ session' = {t} /\ ledger' = Reserved(cycle, granted, c.ref)
            /\ session = {} /\ UNCHANGED <<up, day, cycle>>
        BY <2>6 DEF Mint, Ready, PersistAndReserve
      <3>3. granted \in Nat
        <4>1. t.granted \in 0 .. MaxStake
          BY <3>1 DEF SessionType
        <4> QED
          BY <3>1, <4>1, PickLedgerAssumption
      <3> HIDE DEF granted, t
      <3>4. ledger'.used[d] = ledger.used[d] + InFlight(t, d)
        <4>1. ledger'.used = [ledger.used EXCEPT ![cycle] = @ + granted]
          BY <3>2 DEF Reserved
        <4>2. InFlight(t, d) = IF d = cycle THEN granted ELSE 0
          BY <3>1 DEF InFlight
        <4>3. ledger.used \in [Days -> Nat]
          BY <1>a DEF TypeOK
        <4>4. ledger'.used[d] = IF d = cycle THEN ledger.used[d] + granted ELSE ledger.used[d]
          BY <4>1, <4>3
        <4> QED
          BY <1>a, <3>3, <4>2, <4>4
      <3>5. InFlight(t, d) \in Nat
        BY <3>1, <3>3 DEF InFlight
      <3>6. live => ledger'.used[d] <= sum + InFlight(t, d)
        BY <1>a, <3>2, <3>4, <3>5 DEF Backed, sum
      <3>7. ASSUME NEW u \in session', live PROVE ledger'.used[d] <= sum' + InFlight(u, d)
        BY <2>1, <3>2, <3>6, <3>7
      <3> QED
        BY <3>2, <3>7 DEF Backed, sum
    <2>7. ASSUME NEW t \in session, Rollback(t) PROVE Backed(d)'
      <3>1. t.day \in Days /\ t.granted \in Nat /\ t.ref \in Refs
        BY <1>a, SessionFields
      <3>2. session' = {} /\ UNCHANGED <<up, day, cycle>>
            /\ ledger' = Released(t.day, t.granted, t.ref)
        BY <2>7 DEF Rollback
      <3>3. /\ ledger'.used[d] \in Nat
            /\ ledger'.used[d] = NotBelowZero(ledger.used[d] - InFlight(t, d))
        BY <1>a, <3>1, <3>2, ReleasedUsed
      <3>4. live => ledger.used[d] <= sum + InFlight(t, d)
        BY DEF Backed, sum
      <3>5. InFlight(t, d) \in Nat
        BY <3>1 DEF InFlight
      <3>6. live => ledger'.used[d] <= sum
        BY <1>a, <3>3, <3>4, <3>5 DEF NotBelowZero
      <3> QED
        BY <2>1, <3>2, <3>6 DEF Backed, sum
    <2>8. ASSUME NEW c \in Candidate, PersistVolume(c) \/ ReturnDuplicate(c)
          PROVE  Backed(d)'
      BY <2>2, <2>8 DEF PersistVolume, ReturnDuplicate
    <2>9. ASSUME NEW a \in outbox, Deliver(a) \/ NotDelivered(a) PROVE Backed(d)'
      BY <2>2, <2>9 DEF Deliver, NotDelivered
    <2>10. CASE Looks
      BY <2>2, <2>10, LooksOnly
    <2>11. ASSUME NEW r \in RowIds, NEW outcome \in Closings, Close(r, outcome)
           PROVE  Backed(d)'
      BY <2>2, <2>11 DEF Close
    <2>12. CASE UNCHANGED vars
      BY <2>2, <2>12 DEF vars
    <2> QED
      BY <1>2, <2>3, <2>4, <2>5, <2>6, <2>7, <2>8, <2>9, <2>10, <2>11, <2>12, MintSteps
      DEF Next, Looks
  <1> QED
    BY <1>1, <1>2

\* The ledger never strands room: a persist that failed, was cancelled or found a
\* duplicate leaves nothing counted on the running date that no row or open session holds.
THEOREM Ledger_NeverStrands == Spec => []LedgerNeverStrands
  <1>1. Init => BackedInv
    BY DEF Init, BackedInv, ChargedByCycle, Backed
  <1>2. IInv /\ BackedInv /\ [Next]_vars => BackedInv'
    BY NextChargedByCycle, NextBacked DEF BackedInv
  <1>3. IInv /\ BackedInv => LedgerNeverStrands
    <2> SUFFICES ASSUME IInv, BackedInv, up, NEW d \in {day, cycle} \ {0}
                 PROVE  /\ session = {} => ledger.used[d] <= SumOf(ChargeOn(d))
                        /\ \A t \in session :
                              ledger.used[d] <= SumOf(ChargeOn(d)) + InFlight(t, d)
      BY DEF LedgerNeverStrands
    <2>1. d \in Days /\ (d >= day \/ d = cycle)
      BY PickLedgerAssumption DEF IInv, TypeOK
    <2> QED
      BY <2>1 DEF BackedInv, Backed
  <1> QED
    BY <1>1, <1>2, <1>3, InitIInv, NextIInv, PTL DEF Spec

----------------------------------------------------------------------------
(* The cap of one match: the inductive invariant.                          *)

\* The loader's reference is the external_ref of the event row it resolves to, so the
\* ledger's key of a match and the table's are the same.
OwnEvents == \A e \in Refs : Canonical[e] = e

EventSum(d, e) == SumOf(ChargeOnEvent(d, e))

\* What an open session has reserved for a match on a date.
InFlightFor(t, d, e) == IF t.ref = e THEN InFlight(t, d) ELSE 0

\* What is durable and what is in flight together fit the cap of the match.
FitsEventCap(d, e) ==
    /\ EventSum(d, e) <= EventCap + leaked[d]
    /\ \A t \in session : EventSum(d, e) + InFlightFor(t, d, e) <= EventCap + leaked[d]

\* The ledger counts every durable or in-flight charge of the match it must count.
RemembersEvent(d, e) ==
    up /\ (d >= day \/ d = cycle) =>
        /\ EventSum(d, e) <= ledger.byEvent[d][e] + leaked[d]
        /\ \A t \in session :
              EventSum(d, e) + InFlightFor(t, d, e) <= ledger.byEvent[d][e] + leaked[d]

EventInv ==
    /\ \A t \in session : t.id[1] = t.ref
    /\ \A d \in Days, e \in Refs : FitsEventCap(d, e) /\ RemembersEvent(d, e)

----------------------------------------------------------------------------
(* The cap of one match: lemmas.                                           *)

\* A commit adds at most the session's grant to what the table charges to its match,
\* and nothing to any other match.
LEMMA CommitEventSum ==
    ASSUME IInv, NEW d \in Days, NEW e \in Refs, NEW t \in session, t.id[1] = t.ref,
           Commit(t) \/ CommitInDoubt(t)
    PROVE  /\ EventSum(d, e)' \in Nat
           /\ EventSum(d, e)' <= EventSum(d, e) + InFlightFor(t, d, e)
  <1> DEFINE f == ChargeOnEvent(d, e)
             new == IF t.id[1] = e THEN ChargeIn(t.row, d) ELSE 0
  <1>1. /\ TypeOK /\ t.id \in RowIds /\ t.row \in Row /\ t.granted \in Nat
        /\ ChargeIn(t.row, d) <= ChargeIn(rows[t.id], d) + InFlight(t, d)
    BY SessionFields DEF IInv, SoundSessions, SoundSession
  <1>2. ChargeIn(t.row, d) \in 0 .. MaxStake /\ ChargeIn(rows[t.id], d) \in 0 .. MaxStake
    <2>1. rows[t.id] \in Row
      BY <1>1 DEF TypeOK
    <2> QED
      BY <1>1, <2>1, PickLedgerAssumption DEF ChargeIn, Row
  <1>3. f' = [f EXCEPT ![t.id] = new]
    <2>1. ChargeOn(d)' = [ChargeOn(d) EXCEPT ![t.id] = ChargeIn(t.row, d)]
      BY CommitMovesOneCharge
    <2>2. /\ f = [r \in RowIds |-> IF r[1] = e THEN ChargeOn(d)[r] ELSE 0]
          /\ f' = [r \in RowIds |-> IF r[1] = e THEN ChargeOn(d)'[r] ELSE 0]
      BY DEF ChargeOnEvent
    <2>3. ASSUME NEW r \in RowIds
          PROVE  ChargeOn(d)'[r] = IF r = t.id THEN ChargeIn(t.row, d) ELSE ChargeOn(d)[r]
      BY <2>1 DEF ChargeOn
    <2> HIDE DEF f
    <2> QED
      BY <1>1, <2>2, <2>3
  <1>4. /\ f \in [RowIds -> 0 .. MaxStake]
        /\ f[t.id] = (IF t.id[1] = e THEN ChargeIn(rows[t.id], d) ELSE 0)
    BY <1>1, ChargeTypes DEF ChargeOnEvent, ChargeOn
  <1>5. new \in 0 .. MaxStake
    BY <1>2, PickLedgerAssumption
  <1> HIDE DEF new, f
  <1>6. /\ SumOf(f) \in Nat
        /\ SumOf([f EXCEPT ![t.id] = new]) = SumOf(f) - f[t.id] + new
        /\ [f EXCEPT ![t.id] = new] \in [RowIds -> 0 .. MaxStake]
    BY <1>1, <1>4, <1>5, SumAssumption
  <1>7. SumOf([f EXCEPT ![t.id] = new]) \in Nat
    BY <1>6, SumAssumption
  <1>8. EventSum(d, e) = SumOf(f) /\ EventSum(d, e)' = SumOf([f EXCEPT ![t.id] = new])
    BY <1>3 DEF EventSum, f
  <1>9. new <= f[t.id] + InFlightFor(t, d, e) /\ f[t.id] \in Nat /\ InFlightFor(t, d, e) \in Nat
    BY <1>1, <1>2, <1>4, PickLedgerAssumption DEF InFlightFor, InFlight, new
  <1> QED
    BY <1>5, <1>6, <1>7, <1>8, <1>9, PickLedgerAssumption

\* No other step moves what the table charges to a match.
LEMMA OthersMoveNoEventCharge ==
    ASSUME IInv, NEW d \in Days, NEW e \in Refs, [Next]_vars,
           ~ \E t \in session : Commit(t) \/ CommitInDoubt(t)
    PROVE  EventSum(d, e)' = EventSum(d, e)
  <1>1. ChargeOn(d)' = ChargeOn(d)
    BY OthersMoveNoCharge
  <1> QED
    BY <1>1 DEF EventSum, ChargeOnEvent

\* reserve and release move the total of one match on one date, and release stops at zero.
LEMMA LedgerEvents ==
    ASSUME TypeOK, NEW k \in Days, NEW g \in Nat, NEW ref \in Refs, NEW d \in Days, NEW e \in Refs
    PROVE  /\ ledger.byEvent[d][e] \in Nat
           /\ Reserved(k, g, ref).byEvent[d][e]
                 = IF d = k /\ e = ref THEN ledger.byEvent[d][e] + g
                   ELSE ledger.byEvent[d][e]
           /\ Released(k, g, ref).byEvent[d][e]
                 = IF d = k /\ e = ref THEN NotBelowZero(ledger.byEvent[d][e] - g)
                   ELSE ledger.byEvent[d][e]
  <1>1. /\ ledger.byEvent \in [Days -> [Refs -> Nat]]
        /\ ledger.byEvent[k] \in [Refs -> Nat] /\ ledger.byEvent[d] \in [Refs -> Nat]
    BY DEF TypeOK
  <1>2. Reserved(k, g, ref).byEvent[d]
          = IF d = k THEN [ledger.byEvent[k] EXCEPT ![ref] = @ + g] ELSE ledger.byEvent[d]
    BY <1>1 DEF Reserved
  <1>3. Released(k, g, ref).byEvent[d]
          = IF d = k THEN [ledger.byEvent[k] EXCEPT ![ref] = NotBelowZero(@ - g)]
            ELSE ledger.byEvent[d]
    BY <1>1 DEF Released
  <1>4. ledger.byEvent[d][e] \in Nat
    BY <1>1
  <1>5. CASE d = k
    BY <1>1, <1>2, <1>3, <1>4, <1>5
  <1>6. CASE d # k
    BY <1>2, <1>3, <1>4, <1>6
  <1> QED
    BY <1>5, <1>6

\* No row is charged to a match on a date that has not come.
LEMMA FutureEventIsFree ==
    ASSUME IInv, NEW d \in Days, NEW e \in Refs, d > day
    PROVE  EventSum(d, e) = 0
  <1>1. ASSUME NEW r \in RowIds PROVE ChargeIn(rows[r], d) = 0
    <2>1. rows[r] \in Row /\ rows[r].chargedOn <= day
      BY DEF IInv, TypeOK, SoundRows, SoundRow
    <2>2. rows[r].chargedOn \in Nat /\ day \in Nat /\ d \in Nat
      BY <2>1, PickLedgerAssumption DEF Row, IInv, TypeOK
    <2> QED
      BY <2>1, <2>2 DEF ChargeIn
  <1>2. ChargeOnEvent(d, e) = [r \in RowIds |-> 0]
    BY <1>1 DEF ChargeOnEvent, ChargeOn
  <1> QED
    BY <1>2, SumAssumption DEF EventSum

----------------------------------------------------------------------------
(* Every step keeps every match within its cap.                            *)

\* Nothing is charged to a match before the first start.
LEMMA InitEventInv == Init => EventInv
  <1> SUFFICES ASSUME Init, NEW d \in Days, NEW e \in Refs PROVE FitsEventCap(d, e)
    BY DEF Init, EventInv, RemembersEvent
  <1>1. ChargeOnEvent(d, e) = [r \in RowIds |-> 0]
    BY DEF Init, ChargeOnEvent, ChargeOn, ChargeIn, Absent
  <1>2. EventSum(d, e) = 0 /\ leaked[d] = 0 /\ session = {}
    BY <1>1, SumAssumption DEF Init, EventSum
  <1> QED
    BY <1>2, PickLedgerAssumption DEF FitsEventCap

\* The session of a premium candidate charges the event row of the candidate's match.
LEMMA NextOwnSession ==
    ASSUME OwnEvents, IInv, EventInv, [Next]_vars
    PROVE  \A t \in session' : t.id[1] = t.ref
  <1>1. ASSUME NEW c \in Candidate, NEW old \in Row, Mint(c, old)
        PROVE  \A t \in session' : t.id[1] = t.ref
    <2>1. c.ref \in Refs
      BY DEF Candidate
    <2> QED
      BY <1>1, <2>1 DEF Mint, PersistAndReserve, SessionFor, RowOf, OwnEvents
  <1>2. CASE session' \subseteq session
    BY <1>2 DEF EventInv
  <1> QED
    BY <1>1, <1>2, MintSteps
    DEF Next, vars, StartCycle, EndCycle, NextDay, Crash, Start, PersistVolume, ReadExisting,
        ReadFails, ReturnDuplicate, Commit, Committed, Rollback, CommitInDoubt, Deliver,
        NotDelivered, SettlementReads, Close

\* Reservation, commit, release, the lost answer and the rebuild at startup, for one
\* match on one date.
LEMMA NextEventCap ==
    ASSUME OwnEvents, IInv, EventInv, [Next]_vars, NEW d \in Days, NEW e \in Refs
    PROVE  FitsEventCap(d, e)' /\ RemembersEvent(d, e)'
  <1> DEFINE sum == EventSum(d, e)
             counted == ledger.byEvent[d][e]
             live == up /\ (d >= day \/ d = cycle)
  <1>a. /\ TypeOK /\ sum \in Nat /\ counted \in Nat /\ leaked[d] \in Nat
        /\ day \in Nat /\ cycle \in Nat /\ EventCap \in Nat /\ d \in Nat /\ d # 0
    <2>1. TypeOK
      BY DEF IInv
    <2>2. /\ ledger.byEvent \in [Days -> [Refs -> Nat]] /\ leaked \in [Days -> Nat]
          /\ day \in Days /\ cycle \in 0 .. MaxDay
      BY <2>1 DEF TypeOK
    <2>3. sum \in Nat
      BY <2>1, ChargeTypes DEF EventSum
    <2> QED
      BY <2>1, <2>2, <2>3, PickLedgerAssumption
  <1>b. FitsEventCap(d, e) /\ RemembersEvent(d, e)
    BY DEF EventInv
  <1>c. ASSUME NEW t \in session
        PROVE  /\ t.day \in Days /\ t.granted \in Nat /\ t.ref \in Refs /\ t.day = cycle
               /\ InFlightFor(t, d, e) \in Nat
               /\ InFlightFor(t, d, e) = (IF d = t.day /\ e = t.ref THEN t.granted ELSE 0)
               /\ sum + InFlightFor(t, d, e) <= EventCap + leaked[d]
               /\ live => sum + InFlightFor(t, d, e) <= counted + leaked[d]
    <2>1. t.day \in Days /\ t.granted \in Nat /\ t.ref \in Refs /\ t.day = cycle
      BY <1>a, SessionFields DEF IInv, SoundSessions, SoundSession
    <2>2. InFlightFor(t, d, e) = (IF d = t.day /\ e = t.ref THEN t.granted ELSE 0)
      BY DEF InFlightFor, InFlight
    <2>3. /\ sum + InFlightFor(t, d, e) <= EventCap + leaked[d]
          /\ live => sum + InFlightFor(t, d, e) <= counted + leaked[d]
      BY <1>b DEF FitsEventCap, RemembersEvent
    <2> QED
      BY <2>1, <2>2, <2>3
  <1>d. ASSUME NEW t \in session, ledger' = Released(t.day, t.granted, t.ref)
        PROVE  counted' \in Nat /\ counted <= counted' + InFlightFor(t, d, e)
    <2>1. counted' = IF d = t.day /\ e = t.ref THEN NotBelowZero(counted - t.granted)
                     ELSE counted
      <3>1. TypeOK /\ t.day \in Days /\ t.granted \in Nat /\ t.ref \in Refs
        BY <1>a, <1>c
      <3>2. Released(t.day, t.granted, t.ref).byEvent[d][e]
              = IF d = t.day /\ e = t.ref THEN NotBelowZero(counted - t.granted) ELSE counted
        BY <3>1, LedgerEvents
      <3> QED
        BY <1>d, <3>2
    <2> QED
      BY <1>a, <1>c, <2>1 DEF NotBelowZero
  <1>1. ASSUME NEW t \in session, Commit(t) \/ CommitInDoubt(t)
        PROVE  FitsEventCap(d, e)' /\ RemembersEvent(d, e)'
    <2>1. sum' \in Nat /\ sum' <= sum + InFlightFor(t, d, e)
      BY <1>1, CommitEventSum DEF EventInv
    <2> HIDE DEF sum, counted
    <2>2. session' = {} /\ UNCHANGED <<up, day, cycle>>
      BY <1>1 DEF Commit, CommitInDoubt, Committed
    <2>3. CASE Commit(t)
      <3>1. counted' = counted /\ leaked' = leaked
        BY <2>3 DEF Commit, counted
      <3>2. /\ sum' <= EventCap + leaked[d]
            /\ live => sum' <= counted + leaked[d]
        BY <1>a, <1>c, <2>1
      <3> QED
        BY <2>2, <3>1, <3>2 DEF FitsEventCap, RemembersEvent, sum, counted
    <2>4. CASE CommitInDoubt(t)
      <3>1. leaked'[d] \in Nat /\ leaked[d] + InFlightFor(t, d, e) <= leaked'[d]
        <4>1. leaked' = [leaked EXCEPT ![t.day] = @ + t.granted] /\ leaked \in [Days -> Nat]
          BY <1>a, <2>4 DEF CommitInDoubt, TypeOK
        <4>2. leaked'[d] = IF d = t.day THEN leaked[d] + t.granted ELSE leaked[d]
          BY <1>c, <4>1
        <4> QED
          BY <1>a, <1>c, <4>2
      <3>2. counted' \in Nat /\ counted <= counted' + InFlightFor(t, d, e)
        BY <1>d, <2>4 DEF CommitInDoubt
      <3>3. /\ sum' <= EventCap + leaked'[d]
            /\ live => sum' <= counted' + leaked'[d]
        BY <1>a, <1>c, <2>1, <3>1, <3>2
      <3> QED
        BY <2>2, <3>3 DEF FitsEventCap, RemembersEvent, sum, counted
    <2> QED
      BY <1>1, <2>3, <2>4
  <1>2. CASE ~ \E t \in session : Commit(t) \/ CommitInDoubt(t)
    <2>1. sum' = sum
      BY <1>2, OthersMoveNoEventCharge
    <2> HIDE DEF sum
    <2>2. ASSUME UNCHANGED <<session, leaked, ledger, up, day, cycle>>
          PROVE  FitsEventCap(d, e)' /\ RemembersEvent(d, e)'
      BY <1>b, <2>1, <2>2 DEF FitsEventCap, RemembersEvent, sum
    <2>3. CASE StartCycle \/ EndCycle \/ NextDay
      <3>1. /\ UNCHANGED <<session, leaked, ledger, up>>
            /\ d >= day' \/ d = cycle' => d >= day \/ d = cycle
        BY <1>a, <2>3 DEF StartCycle, EndCycle, NextDay
      <3> QED
        BY <1>b, <2>1, <3>1 DEF FitsEventCap, RemembersEvent, sum
    <2>4. CASE Crash
      BY <1>b, <2>1, <2>4 DEF Crash, FitsEventCap, RemembersEvent, sum
    <2>5. CASE Start
      <3>1. session = {} /\ cycle = 0 /\ UNCHANGED <<session, cycle, day, leaked>>
        BY <2>5 DEF Start, IInv, SoundCycle, SoundSessions, SoundSession
      <3>2. d = day => counted' = sum
        BY <2>5 DEF Start, Seeded, EmptyLedger, EventSum, sum
      <3>3. d > day => sum = 0
        BY FutureEventIsFree DEF sum
      <3>4. counted' \in Nat
        BY <1>a, <2>5, SeededTypes DEF Start
      <3> HIDE DEF counted
      <3>5. d >= day => sum <= counted' + leaked[d]
        BY <1>a, <3>2, <3>3, <3>4
      <3> QED
        BY <1>a, <1>b, <2>1, <3>1, <3>5 DEF FitsEventCap, RemembersEvent, sum, counted
    <2>6. ASSUME NEW c \in Candidate, NEW old \in Row, Mint(c, old)
          PROVE  FitsEventCap(d, e)' /\ RemembersEvent(d, e)'
      <3> DEFINE granted == Grant(cycle, Requested(c, old), c.ref)
                 t == SessionFor(c, old, granted)
                 add == IF d = cycle /\ e = c.ref THEN granted ELSE 0
      <3>1. /\ t \in SessionType /\ t.granted = granted /\ t.day = cycle /\ t.ref = c.ref
            /\ granted = 0 \/ granted <= EventCap - ledger.byEvent[cycle][c.ref]
        BY <2>6, ReservedSession DEF Mint, SessionFor, IInv
      <3>2. /\ session' = {t} /\ ledger' = Reserved(cycle, granted, c.ref)
            /\ up /\ UNCHANGED <<up, day, cycle, leaked>>
        BY <2>6 DEF Mint, Ready, PersistAndReserve
      <3>3. granted \in Nat /\ cycle \in Days /\ c.ref \in Refs
        <4>1. t.granted \in 0 .. MaxStake /\ t.day \in Days /\ t.ref \in Refs
          BY <3>1 DEF SessionType
        <4> QED
          BY <3>1, <4>1, PickLedgerAssumption
      <3> HIDE DEF granted, t
      <3>4. add = InFlightFor(t, d, e)
        BY <3>1 DEF InFlightFor, InFlight
      <3>5. counted' = counted + add
        BY <1>a, <3>2, <3>3, LedgerEvents
      <3>6. add \in Nat /\ (add = 0 \/ (d = cycle /\ add <= EventCap - counted))
        BY <3>1, <3>3
      <3> HIDE DEF add, counted
      <3>7. sum <= EventCap + leaked[d] /\ (live => sum <= counted + leaked[d])
        BY <1>b DEF FitsEventCap, RemembersEvent, sum, counted
      <3>8. live => sum + add <= counted' + leaked[d] /\ sum <= counted' + leaked[d]
        BY <1>a, <3>5, <3>6, <3>7
      <3>9. sum + add <= EventCap + leaked[d]
        BY <1>a, <3>2, <3>6, <3>7
      <3>10. ASSUME NEW u \in session' PROVE InFlightFor(u, d, e) = add
        BY <3>2, <3>4, <3>10
      <3> QED
        BY <2>1, <3>2, <3>7, <3>8, <3>9, <3>10
        DEF FitsEventCap, RemembersEvent, sum, counted
    <2>7. ASSUME NEW t \in session, Rollback(t)
          PROVE  FitsEventCap(d, e)' /\ RemembersEvent(d, e)'
      <3>1. session' = {} /\ UNCHANGED <<up, day, cycle, leaked>>
        BY <2>7 DEF Rollback
      <3>2. counted' \in Nat /\ counted <= counted' + InFlightFor(t, d, e)
        BY <1>d, <2>7 DEF Rollback
      <3> HIDE DEF counted
      <3>3. live => sum <= counted' + leaked[d]
        BY <1>a, <1>c, <3>2
      <3> QED
        BY <1>b, <2>1, <3>1, <3>3 DEF FitsEventCap, RemembersEvent, sum, counted
    <2>8. ASSUME NEW c \in Candidate, PersistVolume(c) \/ ReturnDuplicate(c)
          PROVE  FitsEventCap(d, e)' /\ RemembersEvent(d, e)'
      BY <2>2, <2>8 DEF PersistVolume, ReturnDuplicate
    <2>9. ASSUME NEW a \in outbox, Deliver(a) \/ NotDelivered(a)
          PROVE  FitsEventCap(d, e)' /\ RemembersEvent(d, e)'
      BY <2>2, <2>9 DEF Deliver, NotDelivered
    <2>10. CASE Looks
      BY <2>2, <2>10, LooksOnly
    <2>11. ASSUME NEW r \in RowIds, NEW outcome \in Closings, Close(r, outcome)
           PROVE  FitsEventCap(d, e)' /\ RemembersEvent(d, e)'
      BY <2>2, <2>11 DEF Close
    <2>12. CASE UNCHANGED vars
      BY <2>2, <2>12 DEF vars
    <2> QED
      BY <1>2, <2>3, <2>4, <2>5, <2>6, <2>7, <2>8, <2>9, <2>10, <2>11, <2>12, MintSteps
      DEF Next, Looks
  <1> QED
    BY <1>1, <1>2

\* The cap of one match (config.py: two selections on one match can never jointly exceed
\* it), up to the lost answers, wherever the loaders report a match under the
\* external_ref of its event row; run merged shows how it fails where they do not.
THEOREM EventCap_Holds ==
    ASSUME OwnEvents
    PROVE  Spec => []EventCapHolds
  <1>1. IInv /\ EventInv /\ [Next]_vars => EventInv'
    BY NextOwnSession, NextEventCap DEF EventInv
  <1>2. EventInv => EventCapHolds
    <2>1. Events = Refs
      BY DEF Events, OwnEvents
    <2> QED
      BY <2>1 DEF EventInv, FitsEventCap, EventSum, EventCapHolds
  <1> QED
    BY <1>1, <1>2, InitIInv, NextIInv, InitEventInv, PTL DEF Spec
=============================================================================
