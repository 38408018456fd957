----------------------------- MODULE StoreProofs -----------------------------
(***************************************************************************)
(* Theorems about what the database accumulates: the bankroll ledger, the  *)
(* event rows and the odds history.  They hold for every value of the      *)
(* constants the platform's assumptions allow, of the platform's           *)
(* specification.                                                          *)
(***************************************************************************)
EXTENDS MCPlatform, SequenceTheorems, WellFoundedInduction, TLAPS

----------------------------------------------------------------------------
(* BankrollLedger: one transaction at a time extends the book.             *)

\* A book of entries opens once, takes each pick once and carries the balance on.
InOrder(book) ==
    \A i \in 1 .. Len(book) :
       /\ (book[i].of = Bankroll!Opening) <=> i = 1
       /\ book[i].after = (IF i = 1 THEN 0 ELSE book[i - 1].after) + book[i].amount
       /\ i > 1 => book[i].of \in DOMAIN pnl
       /\ i > 1 /\ book[i].of \notin Bankroll!ToSet(corrections)
            => book[i].amount = pnl[book[i].of]
       /\ \A j \in 1 .. Len(book) : book[i].of = book[j].of => i = j

\* What a transaction would leave behind if it committed now.
Whole(s) == entries \o sync[s].written

Wrote(s) == sync[s].at \in {"read", "appending"}

HoldsLock(s) == sync[s].at \in {"locked", "read", "appending"}

\* A row still to be entered is of a pick that the transaction has not entered yet.
Pending(s, line) ==
    /\ line.of \in DOMAIN pnl
    /\ line.of \notin Bankroll!ToSet(corrections) => line.amount = pnl[line.of]
    /\ line.of \notin Bankroll!Of(sync[s].written)
    /\ \A other \in sync[s].todo : other.of = line.of => other = line

SyncSound(s) ==
    /\ ~Wrote(s) => sync[s].written = <<>>
    /\ InOrder(Whole(s))
    /\ sync[s].at = "read" => Bankroll!Of(sync[s].written) \subseteq {Bankroll!Opening}
    /\ Wrote(s) => Len(Whole(s)) > 0 /\ sync[s].balance = Whole(s)[Len(Whole(s))].after
    /\ sync[s].at = "appending" => \A line \in sync[s].todo : Pending(s, line)

SyncType == [at : {"idle", "waiting", "locked", "read", "appending"}, balance : Int,
             todo : SUBSET [of : Wagers, amount : Gains], written : Seq(Bankroll!Entries)]

BookTyped ==
    /\ DOMAIN pnl \subseteq Wagers /\ \A w \in DOMAIN pnl : pnl[w] \in Gains
    /\ entries \in Seq(Bankroll!Entries) /\ corrections \in Seq(Wagers)
    /\ sync \in [Bankroll!Syncs -> SyncType]

OneHolder == \A s, t \in Bankroll!Syncs : HoldsLock(s) /\ HoldsLock(t) => s = t

BookInv ==
    /\ BookTyped /\ OneHolder /\ InOrder(entries)
    /\ \A s \in Bankroll!Syncs : SyncSound(s)

LEMMA BookConstants == Gains \subseteq Int /\ Bankroll!Opening \notin Wagers
  BY PlatformAssumption DEF Bankroll!BankrollAssumption

LEMMA BookSteps == [Next]_vars => Bankroll!BankrollNext \/ UNCHANGED bankrollVars
  BY DEF Next, Only, vars

LEMMA BookInitInv == Bankroll!BankrollInit => BookInv
  <1> SUFFICES ASSUME Bankroll!BankrollInit PROVE BookInv
    OBVIOUS
  <1>1. /\ pnl = <<>> /\ entries = <<>> /\ corrections = <<>>
        /\ sync = [s \in Bankroll!Syncs |-> Bankroll!Idle]
    BY DEF Bankroll!BankrollInit
  <1>2. Bankroll!Idle \in SyncType
    BY DEF Bankroll!Idle, SyncType
  <1>3. BookTyped
    <2>1. DOMAIN pnl = {}
      BY <1>1
    <2> QED
      BY <1>1, <1>2, <2>1 DEF BookTyped
  <1>4. ASSUME NEW s \in Bankroll!Syncs
        PROVE  /\ sync[s].at = "idle" /\ sync[s].written = <<>> /\ Whole(s) = <<>>
    BY <1>1 DEF Bankroll!Idle, Whole
  <1>5. InOrder(<<>>)
    BY DEF InOrder
  <1> QED
    BY <1>1, <1>3, <1>4, <1>5 DEF BookInv, OneHolder, HoldsLock, SyncSound, Wrote

\* A step of one transaction that leaves the committed tables alone.
LEMMA SyncMoves ==
    ASSUME BookInv, NEW s \in Bankroll!Syncs, UNCHANGED <<pnl, entries, corrections>>,
           NEW next \in SyncType, sync' = [sync EXCEPT ![s] = next],
           next.at \in {"locked", "read", "appending"} =>
             HoldsLock(s) \/ \A t \in Bankroll!Syncs : ~HoldsLock(t),
           SyncSound(s)'
    PROVE  BookInv'
  <1>1. /\ sync' \in [Bankroll!Syncs -> SyncType] /\ sync'[s] = next
        /\ \A t \in Bankroll!Syncs \ {s} : sync'[t] = sync[t]
    BY DEF BookInv, BookTyped
  <1>2. BookTyped'
    BY <1>1 DEF BookInv, BookTyped
  <1>3. OneHolder'
    BY <1>1 DEF BookInv, OneHolder, HoldsLock
  <1>4. InOrder(entries)'
    BY DEF BookInv, InOrder
  <1>5. ASSUME NEW t \in Bankroll!Syncs PROVE SyncSound(t)'
    <2>1. CASE t = s
      BY <2>1
    <2>2. CASE t # s
      <3>1. sync'[t] = sync[t]
        BY <1>1, <2>2
      <3>2. SyncSound(t)
        BY DEF BookInv
      <3>3. Whole(t)' = Whole(t) /\ (Wrote(t)' <=> Wrote(t))
        BY <3>1 DEF Whole, Wrote
      <3>4. InOrder(Whole(t))'
        BY <3>2, <3>3 DEF SyncSound, InOrder
      <3>5. \A line \in sync[t].todo : Pending(t, line) => Pending(t, line)'
        BY <3>1 DEF Pending
      <3> QED
        BY <3>1, <3>2, <3>3, <3>4, <3>5 DEF SyncSound
    <2> QED
      BY <2>1, <2>2
  <1> QED
    BY <1>2, <1>3, <1>4, <1>5 DEF BookInv

\* One more entry that carries the balance on keeps the book in order.
LEMMA Appended ==
    ASSUME NEW book \in Seq(Bankroll!Entries), InOrder(book), Len(book) > 0,
           NEW entry \in Bankroll!Entries, entry.of # Bankroll!Opening,
           entry.of \in DOMAIN pnl,
           entry.of \notin Bankroll!ToSet(corrections) => entry.amount = pnl[entry.of],
           \A i \in 1 .. Len(book) : book[i].of # entry.of,
           entry.after = book[Len(book)].after + entry.amount
    PROVE  /\ InOrder(Append(book, entry)) /\ Len(Append(book, entry)) = Len(book) + 1
           /\ Append(book, entry)[Len(book) + 1] = entry
  <1> DEFINE more == Append(book, entry)
  <1>1. /\ Len(more) = Len(book) + 1 /\ more[Len(book) + 1] = entry
        /\ \A i \in 1 .. Len(book) : more[i] = book[i]
        /\ Len(book) \in Nat
    BY AppendProperties
  <1> HIDE DEF more
  <1>2. ASSUME NEW i \in 1 .. Len(more)
        PROVE  /\ (more[i].of = Bankroll!Opening) <=> i = 1
               /\ more[i].after = (IF i = 1 THEN 0 ELSE more[i - 1].after) + more[i].amount
               /\ i > 1 => more[i].of \in DOMAIN pnl
               /\ i > 1 /\ more[i].of \notin Bankroll!ToSet(corrections)
                    => more[i].amount = pnl[more[i].of]
               /\ \A j \in 1 .. Len(more) : more[i].of = more[j].of => i = j
    <2>1. CASE i = Len(book) + 1
      <3>1. i - 1 \in 1 .. Len(book) /\ more[i - 1] = book[Len(book)] /\ i # 1 /\ more[i] = entry
        BY <1>1, <2>1
      <3>2. \A j \in 1 .. Len(more) : more[i].of = more[j].of => i = j
        BY <1>1, <2>1, <3>1
      <3> QED
        BY <3>1, <3>2
    <2>2. CASE i \in 1 .. Len(book)
      <3>1. more[i] = book[i] /\ (i # 1 => i - 1 \in 1 .. Len(book) /\ more[i - 1] = book[i - 1])
        BY <1>1, <2>2
      <3>2. \A j \in 1 .. Len(more) : more[i].of = more[j].of => i = j
        <4> SUFFICES ASSUME NEW j \in 1 .. Len(more), more[i].of = more[j].of PROVE i = j
          OBVIOUS
        <4>1. CASE j = Len(book) + 1
          BY <1>1, <2>2, <3>1, <4>1
        <4>2. CASE j \in 1 .. Len(book)
          BY <1>1, <2>2, <3>1, <4>2 DEF InOrder
        <4> QED
          BY <1>1, <4>1, <4>2
      <3>3. /\ (book[i].of = Bankroll!Opening) <=> i = 1
            /\ book[i].after = (IF i = 1 THEN 0 ELSE book[i - 1].after) + book[i].amount
            /\ i > 1 => book[i].of \in DOMAIN pnl
            /\ i > 1 /\ book[i].of \notin Bankroll!ToSet(corrections)
                 => book[i].amount = pnl[book[i].of]
        BY <2>2 DEF InOrder
      <3> QED
        BY <3>1, <3>2, <3>3
    <2> QED
      BY <1>1, <2>1, <2>2
  <1>3. InOrder(more)
    BY <1>2 DEF InOrder
  <1> QED
    BY <1>1, <1>3 DEF more

\* A result, or its correction: the books that exist keep the P&L they took.
LEMMA RecordInv ==
    ASSUME BookInv, NEW w \in Wagers, NEW gain \in Gains, Bankroll!Record(w, gain)
    PROVE  BookInv'
  <1>1. /\ entries' = entries /\ sync' = sync
        /\ pnl' = [v \in DOMAIN pnl \cup {w} |-> IF v = w THEN gain ELSE pnl[v]]
        /\ DOMAIN pnl \subseteq Wagers /\ \A v \in DOMAIN pnl : pnl[v] \in Gains
        /\ corrections \in Seq(Wagers)
    BY DEF BookInv, BookTyped, Bankroll!Record
  <1>2. /\ corrections' \in Seq(Wagers)
        /\ Bankroll!ToSet(corrections) \subseteq Bankroll!ToSet(corrections')
        /\ w \in DOMAIN pnl => w \in Bankroll!ToSet(corrections')
    <2>1. CASE w \in DOMAIN pnl
      <3>1. corrections' = corrections \o <<w>> /\ <<w>> \in Seq(Wagers) /\ Len(<<w>>) = 1
        BY <2>1 DEF Bankroll!Record
      <3>2. /\ corrections' \in Seq(Wagers) /\ Len(corrections') = Len(corrections) + 1
            /\ \A i \in 1 .. Len(corrections) : corrections'[i] = corrections[i]
            /\ corrections'[Len(corrections) + 1] = w /\ Len(corrections) \in Nat
        BY <1>1, <3>1, ConcatProperties
      <3>3. /\ DOMAIN corrections = 1 .. Len(corrections)
            /\ DOMAIN corrections' = 1 .. Len(corrections) + 1
        BY <1>1, <3>2
      <3> QED
        BY <3>2, <3>3 DEF Bankroll!ToSet
    <2>2. CASE w \notin DOMAIN pnl
      BY <1>1, <2>2 DEF Bankroll!Record
    <2> QED
      BY <2>1, <2>2
  <1>3. /\ DOMAIN pnl \subseteq DOMAIN pnl'
        /\ \A v \in DOMAIN pnl : v \notin Bankroll!ToSet(corrections') => pnl'[v] = pnl[v]
    BY <1>1, <1>2
  <1>4. BookTyped'
    <2>1. DOMAIN pnl' \subseteq Wagers /\ \A v \in DOMAIN pnl' : pnl'[v] \in Gains
      BY <1>1
    <2> QED
      BY <1>1, <1>2, <2>1 DEF BookInv, BookTyped
  <1>5. ASSUME NEW book, InOrder(book) PROVE InOrder(book)'
    BY <1>2, <1>3, <1>5 DEF InOrder
  <1>6. ASSUME NEW s \in Bankroll!Syncs PROVE SyncSound(s)'
    <2>1. SyncSound(s)
      BY DEF BookInv
    <2>2. InOrder(Whole(s))'
      <3>1. PICK book : book = Whole(s)
        OBVIOUS
      <3>2. InOrder(book)
        BY <2>1, <3>1 DEF SyncSound
      <3>3. InOrder(book)'
        BY <1>5, <3>2
      <3>4. Whole(s)' = book
        BY <1>1, <3>1 DEF Whole
      <3> QED
        BY <3>3, <3>4 DEF InOrder
    <2>3. ASSUME NEW line \in sync[s].todo, sync[s].at = "appending" PROVE Pending(s, line)'
      BY <1>1, <1>2, <1>3, <2>1, <2>3 DEF SyncSound, Pending
    <2> QED
      BY <1>1, <2>1, <2>2, <2>3 DEF SyncSound, Wrote, Whole
  <1>7. OneHolder' /\ InOrder(entries)'
    <2>1. OneHolder'
      BY <1>1 DEF BookInv, OneHolder, HoldsLock
    <2>2. PICK book : book = entries
      OBVIOUS
    <2>3. InOrder(book)'
      BY <1>5, <2>2 DEF BookInv
    <2> QED
      BY <1>1, <2>1, <2>2, <2>3 DEF InOrder
  <1> QED
    BY <1>4, <1>6, <1>7 DEF BookInv

\* The statements before the inserts: the lock, the last balance, the results to enter.
LEMMA StatementInv ==
    ASSUME BookInv, NEW s \in Bankroll!Syncs,
           Bankroll!Begin(s) \/ Bankroll!Lock(s) \/ Bankroll!ReadBalance(s)
             \/ Bankroll!ReadResults(s) \/ Bankroll!Fail(s)
    PROVE  BookInv'
  <1>1. /\ sync[s] \in SyncType /\ entries \in Seq(Bankroll!Entries) /\ SyncSound(s)
        /\ InOrder(entries) /\ sync \in [Bankroll!Syncs -> SyncType]
        /\ DOMAIN pnl \subseteq Wagers /\ \A w \in DOMAIN pnl : pnl[w] \in Gains
    BY DEF BookInv, BookTyped
  <1>2. UNCHANGED <<pnl, entries, corrections>>
    BY DEF Bankroll!Begin, Bankroll!Lock, Bankroll!ReadBalance, Bankroll!ReadResults,
       Bankroll!Fail
  <1>3. entries \o <<>> = entries
    BY <1>1, ConcatEmptySeq
  <1>4. ASSUME NEW next \in SyncType, sync' = [sync EXCEPT ![s] = next], next.written = <<>>,
               next.at \in {"idle", "waiting", "locked"},
               next.at = "locked" => \A t \in Bankroll!Syncs : ~HoldsLock(t)
        PROVE  BookInv'
    <2>1. sync'[s] = next /\ Whole(s)' = entries
      BY <1>1, <1>2, <1>3, <1>4 DEF Whole
    <2>2. SyncSound(s)'
      BY <1>1, <1>2, <1>4, <2>1 DEF SyncSound, Wrote, InOrder
    <2> QED
      BY <1>2, <1>4, <2>2, SyncMoves
  <1>5. CASE Bankroll!Begin(s)
    <2> DEFINE next == [sync[s] EXCEPT !.at = "waiting"]
    <2>1. next \in SyncType /\ next.at = "waiting" /\ sync' = [sync EXCEPT ![s] = next]
      BY <1>1, <1>5 DEF Bankroll!Begin, SyncType
    <2>2. next.written = <<>>
      BY <1>1, <1>5 DEF Bankroll!Begin, SyncType, SyncSound, Wrote
    <2> HIDE DEF next
    <2> QED
      BY <1>4, <2>1, <2>2
  <1>6. CASE Bankroll!Lock(s)
    <2> DEFINE next == [sync[s] EXCEPT !.at = "locked"]
    <2>1. next \in SyncType /\ next.at = "locked" /\ sync' = [sync EXCEPT ![s] = next]
      BY <1>1, <1>6 DEF Bankroll!Lock, SyncType
    <2>2. next.written = <<>>
      BY <1>1, <1>6 DEF Bankroll!Lock, SyncType, SyncSound, Wrote
    <2>3. \A t \in Bankroll!Syncs : ~HoldsLock(t)
      BY <1>6 DEF Bankroll!Lock, HoldsLock
    <2> HIDE DEF next
    <2> QED
      BY <1>4, <2>1, <2>2, <2>3
  <1>7. CASE Bankroll!Fail(s)
    <2>1. Bankroll!Idle \in SyncType /\ Bankroll!Idle.at = "idle" /\ Bankroll!Idle.written = <<>>
      BY DEF Bankroll!Idle, SyncType
    <2> QED
      BY <1>4, <1>7, <2>1 DEF Bankroll!Fail
  <1>8. CASE Bankroll!ReadBalance(s)
    <2> DEFINE first == [of |-> Bankroll!Opening, amount |-> 0, after |-> 0]
               next == [at |-> "read", todo |-> {},
                        balance |-> IF entries = <<>> THEN 0 ELSE entries[Len(entries)].after,
                        written |-> IF entries = <<>> THEN <<first>> ELSE <<>>]
    <2>1. sync[s].at = "locked" /\ sync' = [sync EXCEPT ![s] = next]
      BY <1>8 DEF Bankroll!ReadBalance, Bankroll!Last
    <2>2. first \in Bankroll!Entries
      BY DEF Bankroll!Entries
    <2>3. entries # <<>> => entries[Len(entries)].after \in Int /\ Len(entries) > 0
      <3> SUFFICES ASSUME entries # <<>> PROVE entries[Len(entries)].after \in Int /\ Len(entries) > 0
        OBVIOUS
      <3>1. Len(entries) \in 1 .. Len(entries)
        BY <1>1, EmptySeq
      <3>2. entries[Len(entries)] \in Bankroll!Entries
        BY <1>1, <3>1, ElementOfSeq
      <3> QED
        BY <3>1, <3>2 DEF Bankroll!Entries
    <2>4. next \in SyncType /\ next.at = "read"
      BY <2>2, <2>3 DEF SyncType
    <2>5. SyncSound(s)'
      <3>1. sync'[s] = next
        BY <1>1, <2>1
      <3>2. Wrote(s)' /\ sync'[s].at # "appending"
        BY <3>1 DEF Wrote
      <3>3. CASE entries = <<>>
        <4>1. Whole(s)' = <<first>>
          BY <1>1, <1>2, <2>2, <3>1, <3>3, ConcatEmptySeq DEF Whole
        <4>2. InOrder(<<first>>)'
          BY DEF InOrder
        <4> HIDE DEF first
        <4>3. Len(<<first>>) = 1 /\ <<first>>[1] = first
          OBVIOUS
        <4>4. InOrder(Whole(s))' /\ Len(Whole(s)') = 1 /\ Whole(s)'[1] = first
          BY <4>1, <4>2, <4>3 DEF InOrder
        <4>5. sync'[s].balance = 0 /\ first.after = 0
          BY <3>1, <3>3 DEF first
        <4>6. Bankroll!Of(<<first>>) = {first.of} /\ first.of = Bankroll!Opening
          BY <4>3 DEF Bankroll!Of, Bankroll!ToSet, first
        <4>7. sync'[s].written = <<first>>
          BY <3>1, <3>3
        <4> QED
          BY <3>2, <4>4, <4>5, <4>6, <4>7 DEF SyncSound
      <3>4. CASE entries # <<>>
        <4>1. Whole(s)' = entries
          BY <1>2, <1>3, <3>1, <3>4 DEF Whole
        <4>2. InOrder(Whole(s))'
          BY <1>1, <1>2, <4>1 DEF InOrder
        <4>3. sync'[s].balance = entries[Len(entries)].after
          BY <3>1, <3>4
        <4> QED
          BY <2>3, <3>1, <3>2, <3>4, <4>1, <4>2, <4>3 DEF SyncSound, Bankroll!Of, Bankroll!ToSet
      <3> QED
        BY <3>3, <3>4
    <2> HIDE DEF next
    <2>6. HoldsLock(s)
      BY <2>1 DEF HoldsLock
    <2> QED
      BY <1>2, <2>1, <2>4, <2>5, <2>6, SyncMoves
  <1>9. CASE Bankroll!ReadResults(s)
    <2> DEFINE rows == { [of |-> w, amount |-> pnl[w]] : w \in DOMAIN pnl \ Bankroll!Of(entries) }
               next == [sync[s] EXCEPT !.at = "appending", !.todo = rows]
    <2>1. sync[s].at = "read" /\ sync' = [sync EXCEPT ![s] = next]
      BY <1>1, <1>9 DEF Bankroll!ReadResults, SyncType
    <2>2. rows \subseteq [of : Wagers, amount : Gains]
      BY <1>1
    <2> HIDE DEF rows
    <2>3. /\ next \in SyncType /\ next.at = "appending" /\ next.todo = rows
          /\ next.written = sync[s].written /\ next.balance = sync[s].balance
      BY <1>1, <2>2 DEF SyncType
    <2> HIDE DEF next
    <2>4. sync'[s] = next
      BY <1>1, <2>1
    <2>5. HoldsLock(s) /\ Wrote(s) /\ Wrote(s)'
      BY <2>1, <2>3, <2>4 DEF HoldsLock, Wrote
    <2>6. Whole(s)' = Whole(s)
      BY <1>2, <2>3, <2>4 DEF Whole
    <2>7. ASSUME NEW line \in rows PROVE Pending(s, line)'
      <3>1. PICK w \in DOMAIN pnl : line = [of |-> w, amount |-> pnl[w]]
        BY DEF rows
      <3>2. \A other \in rows : other.of = line.of => other = line
        BY <3>1 DEF rows
      <3>3. line.of \notin Bankroll!Of(sync[s].written)
        BY <1>1, <2>1, <3>1, BookConstants DEF SyncSound
      <3> QED
        BY <1>2, <2>3, <2>4, <3>1, <3>2, <3>3 DEF Pending
    <2>8. SyncSound(s)'
      BY <1>1, <1>2, <2>3, <2>4, <2>5, <2>6, <2>7 DEF SyncSound, InOrder
    <2> QED
      BY <1>2, <2>1, <2>3, <2>5, <2>8, SyncMoves
  <1> QED
    BY <1>5, <1>6, <1>7, <1>8, <1>9

LEMMA Associative ==
    \A first, second, third \in Seq(Bankroll!Entries) :
       first \o (second \o third) = (first \o second) \o third
  BY ConcatAssociative

\* One row is entered, or found to be in the book already.
LEMMA EnterInv ==
    ASSUME BookInv, NEW s \in Bankroll!Syncs, NEW line \in sync[s].todo, Bankroll!Enter(s, line)
    PROVE  BookInv'
  <1>1. /\ sync[s] \in SyncType /\ entries \in Seq(Bankroll!Entries) /\ SyncSound(s)
        /\ sync \in [Bankroll!Syncs -> SyncType] /\ sync[s].written \in Seq(Bankroll!Entries)
        /\ sync[s].todo \subseteq [of : Wagers, amount : Gains] /\ sync[s].balance \in Int
        /\ line \in [of : Wagers, amount : Gains] /\ line.of \in Wagers /\ line.amount \in Int
    <2>1. /\ entries \in Seq(Bankroll!Entries) /\ SyncSound(s)
          /\ sync \in [Bankroll!Syncs -> SyncType] /\ sync[s] \in SyncType
      BY DEF BookInv, BookTyped
    <2>2. /\ sync[s].written \in Seq(Bankroll!Entries) /\ sync[s].balance \in Int
          /\ sync[s].todo \subseteq [of : Wagers, amount : Gains]
      BY <2>1 DEF SyncType
    <2>3. line \in [of : Wagers, amount : Gains]
      BY <2>2
    <2>4. line.of \in Wagers /\ line.amount \in Int
      BY <2>3, BookConstants
    <2> QED
      BY <2>1, <2>2, <2>3, <2>4
  <1>2. UNCHANGED <<pnl, entries, corrections>> /\ sync[s].at = "appending"
    BY DEF Bankroll!Enter
  <1>3. HoldsLock(s) /\ Wrote(s)
    BY <1>2 DEF HoldsLock, Wrote
  <1>r. sync[s] = [at |-> "appending", balance |-> sync[s].balance, todo |-> sync[s].todo,
                   written |-> sync[s].written]
    BY <1>1, <1>2 DEF SyncType
  <1>4. CASE line.of \in Bankroll!Of(entries)
    <2> DEFINE next == [at |-> "appending", balance |-> sync[s].balance,
                        todo |-> sync[s].todo \ {line}, written |-> sync[s].written]
    <2>1. sync' = [sync EXCEPT ![s] = next]
      <3>1. sync' = [sync EXCEPT ![s] = [sync[s] EXCEPT !.todo = sync[s].todo \ {line}]]
        BY <1>4 DEF Bankroll!Enter
      <3>2. next = [sync[s] EXCEPT !.todo = sync[s].todo \ {line}]
        BY <1>r
      <3> QED
        BY <3>1, <3>2
    <2>2. /\ next \in SyncType /\ next.at = "appending" /\ next.todo = sync[s].todo \ {line}
          /\ next.written = sync[s].written /\ next.balance = sync[s].balance
      BY <1>1, <1>2 DEF SyncType
    <2> HIDE DEF next
    <2>3. sync'[s] = next
      BY <1>1, <2>1
    <2>4. Whole(s)' = Whole(s) /\ Wrote(s)'
      BY <1>2, <2>2, <2>3 DEF Whole, Wrote
    <2>5. InOrder(Whole(s))'
      BY <1>1, <1>2, <2>4 DEF SyncSound, InOrder
    <2>6. ASSUME NEW other \in sync'[s].todo PROVE Pending(s, other)'
      BY <1>1, <1>2, <2>2, <2>3, <2>6 DEF SyncSound, Pending
    <2>7. SyncSound(s)'
      BY <1>1, <1>3, <2>2, <2>3, <2>4, <2>5, <2>6 DEF SyncSound
    <2> QED
      BY <1>2, <1>3, <2>1, <2>2, <2>7, SyncMoves
  <1>5. CASE line.of \notin Bankroll!Of(entries)
    <2> DEFINE entry == [of |-> line.of, amount |-> line.amount,
                         after |-> sync[s].balance + line.amount]
               more == sync[s].written \o <<entry>>
               next == [at |-> "appending", balance |-> sync[s].balance + line.amount,
                        todo |-> sync[s].todo \ {line}, written |-> more]
    <2>1. sync' = [sync EXCEPT ![s] = next]
      <3> DEFINE left == [sync[s] EXCEPT !.todo = sync[s].todo \ {line}]
                 updated == [left EXCEPT !.balance = left.balance + line.amount,
                               !.written = left.written
                                 \o <<[of |-> line.of, amount |-> line.amount,
                                       after |-> left.balance + line.amount]>>]
      <3>1. sync' = [sync EXCEPT ![s] = updated]
        BY <1>5 DEF Bankroll!Enter
      <3>2. left = [at |-> "appending", balance |-> sync[s].balance,
                    todo |-> sync[s].todo \ {line}, written |-> sync[s].written]
        BY <1>r
      <3> HIDE DEF left
      <3>3. left.balance = sync[s].balance /\ left.written = sync[s].written
        BY <3>2
      <3>4. updated = [left EXCEPT !.balance = sync[s].balance + line.amount, !.written = more]
        BY <3>3
      <3> HIDE DEF updated, more
      <3>5. updated = next
        BY <3>2, <3>4
      <3> QED
        BY <3>1, <3>5
    <2>2. /\ entry \in Bankroll!Entries /\ entry.of = line.of /\ entry.amount = line.amount
          /\ entry.after = sync[s].balance + line.amount
      BY <1>1 DEF Bankroll!Entries
    <2> HIDE DEF entry
    <2>3. /\ <<entry>> \in Seq(Bankroll!Entries) /\ Len(<<entry>>) = 1 /\ <<entry>>[1] = entry
          /\ more \in Seq(Bankroll!Entries)
      BY <1>1, <2>2, ConcatProperties
    <2> HIDE DEF more
    <2>4. /\ next \in SyncType /\ next.at = "appending" /\ next.todo = sync[s].todo \ {line}
          /\ next.written = more
          /\ next.balance = sync[s].balance + line.amount
      BY <1>1, <1>2, <2>3 DEF SyncType
    <2> HIDE DEF next
    <2>5. sync'[s] = next
      BY <1>1, <2>1
    <2>6. PICK book : book = Whole(s)
      OBVIOUS
    <2>7. /\ book \in Seq(Bankroll!Entries) /\ InOrder(book) /\ Len(book) > 0
          /\ sync[s].balance = book[Len(book)].after
      BY <1>1, <1>3, <2>6, ConcatProperties DEF Whole, SyncSound
    <2>8. Whole(s)' = Append(book, entry)
      <3>1. Whole(s)' = entries \o (sync[s].written \o <<entry>>)
        BY <1>2, <2>4, <2>5 DEF Whole, more
      <3>2. entries \o (sync[s].written \o <<entry>>)
              = (entries \o sync[s].written) \o <<entry>>
        BY <1>1, <2>3, Associative
      <3>3. book \o <<entry>> = Append(book, entry)
        BY <2>2, <2>7, AppendIsConcat
      <3> QED
        BY <2>6, <3>1, <3>2, <3>3 DEF Whole
    <2>9. ASSUME NEW i \in 1 .. Len(book) PROVE book[i].of # entry.of
      <3>1. CASE i \in 1 .. Len(entries)
        <4>1. book[i] = entries[i] /\ DOMAIN entries = 1 .. Len(entries)
          BY <1>1, <2>6, <3>1, ConcatProperties DEF Whole
        <4>2. book[i].of \in Bankroll!Of(entries)
          BY <3>1, <4>1 DEF Bankroll!Of, Bankroll!ToSet
        <4> QED
          BY <1>5, <2>2, <4>2
      <3>2. CASE i \notin 1 .. Len(entries)
        <4>1. /\ i - Len(entries) \in 1 .. Len(sync[s].written)
              /\ book[i] = sync[s].written[i - Len(entries)]
              /\ DOMAIN sync[s].written = 1 .. Len(sync[s].written)
          BY <1>1, <2>6, <3>2, ConcatProperties DEF Whole
        <4>2. book[i].of \in Bankroll!Of(sync[s].written)
          BY <4>1 DEF Bankroll!Of, Bankroll!ToSet
        <4>3. line.of \notin Bankroll!Of(sync[s].written)
          BY <1>1, <1>2 DEF SyncSound, Pending
        <4> QED
          BY <2>2, <4>2, <4>3
      <3> QED
        BY <3>1, <3>2
    <2>10. /\ InOrder(Append(book, entry)) /\ Len(Append(book, entry)) = Len(book) + 1
           /\ Append(book, entry)[Len(book) + 1] = entry
      <3>1. Pending(s, line)
        BY <1>1, <1>2 DEF SyncSound
      <3>2. /\ entry.of # Bankroll!Opening /\ entry.of \in DOMAIN pnl
            /\ entry.of \notin Bankroll!ToSet(corrections) => entry.amount = pnl[entry.of]
        BY <1>1, <2>2, <3>1, BookConstants DEF Pending
      <3>3. entry.after = book[Len(book)].after + entry.amount
        BY <2>2, <2>7
      <3> QED
        BY <2>2, <2>7, <2>9, <3>2, <3>3, Appended
    <2>11. InOrder(Whole(s))'
      BY <1>2, <2>8, <2>10 DEF InOrder
    <2>12. Wrote(s)' /\ sync'[s].at = "appending"
      BY <2>4, <2>5 DEF Wrote
    <2>13. Len(Whole(s)') > 0 /\ sync'[s].balance = Whole(s)'[Len(Whole(s)')].after
      BY <2>2, <2>4, <2>5, <2>7, <2>8, <2>10
    <2>14. ASSUME NEW other \in sync'[s].todo PROVE Pending(s, other)'
      <3>1. other \in sync[s].todo /\ other # line
        BY <2>4, <2>5
      <3>2. Pending(s, other) /\ Pending(s, line)
        BY <1>1, <1>2, <3>1 DEF SyncSound
      <3>3. other.of # entry.of
        BY <2>2, <3>1, <3>2 DEF Pending
      <3>4. Bankroll!Of(sync'[s].written) = Bankroll!Of(sync[s].written) \cup {entry.of}
        <4> DEFINE w == sync[s].written
        <4>1. w \in Seq(Bankroll!Entries) /\ sync'[s].written = w \o <<entry>>
          BY <1>1, <2>4, <2>5 DEF more
        <4> HIDE DEF w
        <4>2. /\ DOMAIN (w \o <<entry>>) = 1 .. Len(w) + 1 /\ DOMAIN w = 1 .. Len(w)
              /\ \A i \in 1 .. Len(w) : (w \o <<entry>>)[i] = w[i]
              /\ (w \o <<entry>>)[Len(w) + 1] = entry /\ Len(w) \in Nat
          BY <2>3, <4>1, ConcatProperties
        <4>3. Bankroll!ToSet(w \o <<entry>>) = Bankroll!ToSet(w) \cup {entry}
          BY <4>2 DEF Bankroll!ToSet
        <4> QED
          BY <4>1, <4>3 DEF Bankroll!Of, w
      <3> QED
        BY <1>2, <2>4, <2>5, <3>1, <3>2, <3>3, <3>4 DEF Pending
    <2>15. SyncSound(s)'
      BY <2>11, <2>12, <2>13, <2>14 DEF SyncSound
    <2> QED
      BY <1>2, <1>3, <2>1, <2>4, <2>15, SyncMoves
  <1> QED
    BY <1>4, <1>5

\* The transaction becomes the book.
LEMMA CommitInv ==
    ASSUME BookInv, NEW s \in Bankroll!Syncs, Bankroll!Commit(s) PROVE BookInv'
  <1>1. /\ sync[s].at = "appending" /\ entries' = Whole(s) /\ pnl' = pnl
        /\ corrections' = corrections /\ sync' = [sync EXCEPT ![s] = Bankroll!Idle]
    BY DEF Bankroll!Commit, Whole
  <1>2. /\ entries \in Seq(Bankroll!Entries) /\ sync[s].written \in Seq(Bankroll!Entries)
        /\ sync \in [Bankroll!Syncs -> SyncType] /\ InOrder(Whole(s))
    BY DEF BookInv, BookTyped, SyncType, SyncSound
  <1>3. /\ Bankroll!Idle \in SyncType /\ Bankroll!Idle.at = "idle"
        /\ Bankroll!Idle.written = <<>>
    BY DEF Bankroll!Idle, SyncType
  <1>4. sync'[s] = Bankroll!Idle /\ \A t \in Bankroll!Syncs \ {s} : sync'[t] = sync[t]
    BY <1>1, <1>2
  <1>5. Whole(s) \in Seq(Bankroll!Entries)
    BY <1>2, ConcatProperties DEF Whole
  <1>6. BookTyped'
    <2>1. sync' \in [Bankroll!Syncs -> SyncType]
      BY <1>1, <1>2, <1>3
    <2> QED
      BY <1>1, <1>5, <2>1 DEF BookInv, BookTyped
  <1>7. OneHolder'
    BY <1>3, <1>4 DEF BookInv, OneHolder, HoldsLock
  <1>8. InOrder(entries)'
    BY <1>1, <1>2 DEF InOrder
  <1>9. ASSUME NEW t \in Bankroll!Syncs PROVE SyncSound(t)'
    <2>1. ~HoldsLock(t)'
      BY <1>1, <1>3, <1>4 DEF BookInv, OneHolder, HoldsLock
    <2>2. ~Wrote(t)' /\ sync'[t].at \notin {"read", "appending"}
      BY <2>1 DEF HoldsLock, Wrote
    <2>3. sync'[t].written = <<>>
      <3>1. CASE t = s
        BY <1>3, <1>4, <3>1
      <3>2. CASE t # s
        <4>1. sync'[t] = sync[t] /\ SyncSound(t)
          BY <1>4, <3>2 DEF BookInv
        <4> QED
          BY <2>2, <4>1 DEF SyncSound, Wrote
      <3> QED
        BY <3>1, <3>2
    <2>4. Whole(t)' = entries'
      BY <1>6, <2>3, ConcatEmptySeq DEF Whole, BookTyped
    <2>5. InOrder(Whole(t))'
      BY <1>8, <2>4 DEF InOrder
    <2> QED
      BY <2>2, <2>3, <2>5 DEF SyncSound
  <1> QED
    BY <1>6, <1>7, <1>8, <1>9 DEF BookInv

LEMMA BookNextInv ==
    ASSUME BookInv, [Next]_vars PROVE BookInv'
  <1>1. CASE Bankroll!BankrollNext
    <2>1. ASSUME NEW w \in Wagers, NEW gain \in Gains, Bankroll!Record(w, gain) PROVE BookInv'
      BY <2>1, RecordInv
    <2>2. ASSUME NEW s \in Bankroll!Syncs,
                 Bankroll!Begin(s) \/ Bankroll!Lock(s) \/ Bankroll!ReadBalance(s)
                   \/ Bankroll!ReadResults(s) \/ Bankroll!Fail(s)
          PROVE  BookInv'
      BY <2>2, StatementInv
    <2>3. ASSUME NEW s \in Bankroll!Syncs, NEW line \in sync[s].todo, Bankroll!Enter(s, line)
          PROVE  BookInv'
      BY <2>3, EnterInv
    <2>4. ASSUME NEW s \in Bankroll!Syncs, Bankroll!Commit(s) PROVE BookInv'
      BY <2>4, CommitInv
    <2> QED
      BY <1>1, <2>1, <2>2, <2>3, <2>4 DEF Bankroll!BankrollNext
  <1>2. CASE UNCHANGED bankrollVars
    <2> SUFFICES ASSUME pnl' = pnl, entries' = entries, sync' = sync,
                        corrections' = corrections
                 PROVE  BookInv'
      BY <1>2 DEF bankrollVars
    <2>1. BookTyped' /\ OneHolder' /\ InOrder(entries)'
      BY DEF BookInv, BookTyped, OneHolder, HoldsLock, InOrder
    <2>2. ASSUME NEW s \in Bankroll!Syncs PROVE SyncSound(s)'
      <3>1. SyncSound(s)
        BY DEF BookInv
      <3>2. InOrder(Whole(s))'
        BY <3>1 DEF SyncSound, InOrder, Whole
      <3>3. \A line \in sync[s].todo : Pending(s, line) => Pending(s, line)'
        BY DEF Pending
      <3>4. Whole(s)' = Whole(s)
        BY DEF Whole
      <3> QED
        BY <3>1, <3>2, <3>3, <3>4 DEF SyncSound, Wrote
    <2> QED
      BY <2>1, <2>2 DEF BookInv
  <1> QED
    BY <1>1, <1>2, BookSteps

LEMMA BookAddsUp == BookInv => LedgerAddsUp
  <1> SUFFICES ASSUME BookInv PROVE LedgerAddsUp
    OBVIOUS
  <1>1. InOrder(entries) /\ DOMAIN entries = 1 .. Len(entries)
    BY DEF BookInv, BookTyped
  <1> QED
    BY <1>1 DEF LedgerAddsUp, Bankroll!LedgerAddsUp, InOrder

LEMMA BookInvariant == Spec => []BookInv
  <1>1. Init => BookInv
    BY BookInitInv DEF Init
  <1>2. BookInv /\ [Next]_vars => BookInv'
    BY BookNextInv
  <1> QED
    BY <1>1, <1>2, PTL DEF Spec

\* However the two jobs, their failures, results and corrections interleave, for any picks
\* and amounts: the bankroll ledger opens once, takes each pick once at the P&L it had, and
\* every balance is the one before it and the amount (sync_bankroll_ledger).
THEOREM Ledger_AddsUp == Spec => []LedgerAddsUp
  BY BookInvariant, BookAddsUp, PTL

----------------------------------------------------------------------------
(* EventIdentity: a reference keeps its event, and events keep their kind. *)

LEMMA IdentityConstants ==
    Nowhere \notin Refs /\ TBD \notin Kickoffs /\ Kickoffs \subseteq Int
  BY PlatformAssumption DEF Identity!IdentityAssumption

LEMMA IdentitySteps == [Next]_vars => Identity!IdentityNext \/ UNCHANGED eventVars
  BY DEF Next, Only, vars

\* Where a known reference resolves to: its link, or its own row.
Home(r) == IF link[r] # Nowhere THEN link[r] ELSE r

Known(r) == link[r] # Nowhere \/ r \in Identity!Minted

IdentityTyped ==
    /\ minted \in Seq(Refs)
    /\ starts \in [Refs -> Kickoffs \cup {TBD}]
    /\ link \in [Refs -> Refs \cup {Nowhere}]
    /\ session \in [Identity!Sessions -> Identity!Decision]
    /\ resolved \in [Refs -> Refs \cup {Nowhere}]

\* A link leads from a reference without a row to a row of its kind.
LinksHold ==
    \A r \in Refs : link[r] # Nowhere =>
       r \notin Identity!Minted /\ link[r] \in Identity!Minted /\ MarkersOf[link[r]] = MarkersOf[r]

\* What was resolved once is known, and at home.
ResolvedHold == \A r \in Refs : resolved[r] # Nowhere => Known(r) /\ resolved[r] = Home(r)

\* A decision about a known reference is about its home; a new one is decided by the poll
\* cycle alone, for a row of its kind or one of its own.
DecisionHolds(s) ==
    LET d == session[s] IN d.does # "idle" =>
       /\ d.ref \in Refs /\ d.event \in Refs
       /\ d.does \in {"keep", "refuse", "move"} => Known(d.ref) /\ d.event = Home(d.ref)
       /\ d.does \in {"link", "mint"} => s = "poll" /\ ~Known(d.ref)
       /\ d.does = "link" => d.event \in Identity!Minted /\ MarkersOf[d.event] = MarkersOf[d.ref]
       /\ d.does = "mint" => d.event = d.ref

IdentityInv ==
    /\ IdentityTyped /\ LinksHold /\ ResolvedHold
    /\ \A s \in Identity!Sessions : DecisionHolds(s)

LEMMA IdentityInitInv == Identity!IdentityInit => IdentityInv
  <1> SUFFICES ASSUME Identity!IdentityInit PROVE IdentityInv
    OBVIOUS
  <1>1. /\ minted = <<>> /\ starts = [r \in Refs |-> TBD] /\ link = [r \in Refs |-> Nowhere]
        /\ session = [s \in Identity!Sessions |-> Identity!Idle]
        /\ resolved = [r \in Refs |-> Nowhere]
    BY DEF Identity!IdentityInit
  <1>2. Identity!Idle \in Identity!Decision /\ Identity!Idle.does = "idle"
    BY DEF Identity!Idle, Identity!Decision
  <1>3. IdentityTyped
    BY <1>1, <1>2 DEF IdentityTyped
  <1>4. LinksHold /\ ResolvedHold
    BY <1>1 DEF LinksHold, ResolvedHold
  <1>5. ASSUME NEW s \in Identity!Sessions PROVE DecisionHolds(s)
    BY <1>1, <1>2 DEF DecisionHolds
  <1> QED
    BY <1>3, <1>4, <1>5 DEF IdentityInv

Below == {pair \in Nat \X Nat : pair[1] < pair[2]}

LEMMA BelowWellFounded == IsWellFoundedOn(Below, Nat)
  BY NatLessThanWellFounded DEF OpToRel, Below

LEMMA Smallest ==
    ASSUME NEW S \in SUBSET Nat, S # {} PROVE \E n \in S : \A m \in S : n <= m
  <1>1. PICK n \in S : \A m \in S : ~(<<m, n>> \in Below)
    BY BelowWellFounded, WFMin
  <1>2. ASSUME NEW m \in S PROVE n <= m
    <2>1. n \in Nat /\ m \in Nat
      OBVIOUS
    <2>2. <<m, n>> \in Nat \X Nat
      BY <2>1
    <2>3. <<m, n>> \notin Below
      BY <1>1
    <2>4. ~(m < n)
      BY <2>2, <2>3 DEF Below
    <2> QED
      BY <2>1, <2>4
  <1> QED
    BY <1>2

\* Among events there is one that is least in a measure.
LEMMA LeastOf ==
    ASSUME NEW events, events # {}, NEW measure, \A e \in events : measure[e] \in Nat
    PROVE  \E e \in events : \A f \in events : measure[e] <= measure[f]
  <1> DEFINE values == { measure[e] : e \in events }
  <1>1. values \in SUBSET Nat /\ values # {}
    OBVIOUS
  <1>2. PICK n \in values : \A m \in values : n <= m
    BY <1>1, Smallest
  <1> QED
    BY <1>2

\* The lowest id of some event rows is the id of one of them.
LEMMA LowestIsOne ==
    ASSUME minted \in Seq(Refs), NEW events, events \subseteq Identity!Minted, events # {}
    PROVE  Identity!Lowest(events) \in events
  <1> DEFINE measure == [e \in events |-> Identity!IdOf(e)]
  <1>1. ASSUME NEW e \in events PROVE Identity!IdOf(e) \in Nat
    <2>1. DOMAIN minted = 1 .. Len(minted) /\ Len(minted) \in Nat
      OBVIOUS
    <2>2. \E i \in DOMAIN minted : minted[i] = e
      BY DEF Identity!Minted, Identity!ToSet
    <2>3. Identity!IdOf(e) \in DOMAIN minted
      BY <2>2 DEF Identity!IdOf
    <2> QED
      BY <2>1, <2>3
  <1>2. \A e \in events : measure[e] \in Nat
    BY <1>1
  <1> HIDE DEF measure
  <1>3. \E e \in events : \A f \in events : measure[e] <= measure[f]
    BY <1>2, LeastOf
  <1>4. \E e \in events : \A f \in events : Identity!IdOf(e) <= Identity!IdOf(f)
    BY <1>3 DEF measure
  <1> QED
    BY <1>4 DEF Identity!Lowest

\* Tier 1 picks a row of the reference's kind.
LEMMA NearestIsTwin ==
    ASSUME IdentityTyped, NEW r \in Refs, NEW k \in Kickoffs, Identity!SameTeams(r, k) # {}
    PROVE  Identity!Nearest(Identity!SameTeams(r, k), k) \in Identity!SameTeams(r, k)
  <1> DEFINE events == Identity!SameTeams(r, k)
             gap == [e \in events |-> Identity!Gap(starts[e], k)]
  <1>1. events \subseteq Identity!Minted /\ Identity!Minted \subseteq Refs
    <2>1. Identity!Minted \subseteq Refs
      BY DEF IdentityTyped, Identity!Minted, Identity!ToSet
    <2> QED
      BY <2>1 DEF Identity!SameTeams, Identity!Twins
  <1>2. ASSUME NEW e \in events PROVE Identity!Gap(starts[e], k) \in Nat
    <2>1. Identity!Near(starts[e], k)
      BY DEF Identity!SameTeams, Identity!Twins
    <2>2. starts[e] \in Kickoffs
      BY <1>1, <2>1 DEF Identity!Near, IdentityTyped
    <2>3. starts[e] \in Int /\ k \in Int
      BY <2>2, IdentityConstants
    <2> QED
      BY <2>3 DEF Identity!Gap
  <1> HIDE DEF events
  <1>3. \A e \in events : gap[e] \in Nat
    BY <1>2
  <1> HIDE DEF gap
  <1>4. \E e \in events : \A f \in events : gap[e] <= gap[f]
    BY <1>3, LeastOf DEF events
  <1> DEFINE best == { e \in events :
                         \A f \in events : Identity!Gap(starts[e], k) <= Identity!Gap(starts[f], k) }
  <1>5. best # {} /\ best \subseteq events
    BY <1>4 DEF gap
  <1>6. minted \in Seq(Refs)
    BY DEF IdentityTyped
  <1>7. best \subseteq Identity!Minted
    BY <1>1, <1>5
  <1> HIDE DEF best
  <1>8. Identity!Lowest(best) \in best
    BY <1>5, <1>6, <1>7, LowestIsOne
  <1>9. Identity!Lowest(best) = Identity!Nearest(events, k)
    BY DEF best, Identity!Nearest
  <1> QED
    BY <1>5, <1>8, <1>9 DEF events

\* The decision for a reference, known or new, with any kickoff a provider reports.
LEMMA ResolutionHolds ==
    ASSUME IdentityInv, NEW r \in Refs, NEW k \in Kickoffs \cup {TBD}
    PROVE  LET d == Identity!Resolution(r, k) IN
           /\ d \in Identity!Decision /\ d.ref = r /\ d.event \in Refs
           /\ d.does \in {"keep", "refuse", "move", "link", "mint"}
           /\ d.does \in {"keep", "refuse", "move"} => Known(r) /\ d.event = Home(r)
           /\ d.does \in {"link", "mint"} => ~Known(r)
           /\ d.does = "link" => d.event \in Identity!Minted /\ MarkersOf[d.event] = MarkersOf[r]
           /\ d.does = "mint" => d.event = r
  <1> DEFINE d == Identity!Resolution(r, k)
  <1>1. IdentityTyped /\ LinksHold /\ Identity!Minted \subseteq Refs
    BY DEF IdentityInv, IdentityTyped, Identity!Minted, Identity!ToSet
  <1>2. ASSUME NEW e \in Refs
        PROVE  LET o == Identity!Onto(e, r, k) IN
               /\ o = [event |-> e, kickoff |-> o.kickoff, ref |-> r, does |-> o.does]
               /\ o.kickoff \in Kickoffs \cup {TBD} /\ o.does \in {"keep", "move"}
    <2>1. starts[e] \in Kickoffs \cup {TBD}
      BY <1>1 DEF IdentityTyped
    <2>2. Identity!Prefer(starts[e], k) \in Kickoffs \cup {TBD}
      BY <2>1 DEF Identity!Prefer
    <2> QED
      BY <2>2 DEF Identity!Onto
  <1>3. CASE link[r] # Nowhere
    <2>1. d = Identity!Onto(link[r], r, k) /\ link[r] \in Refs
      BY <1>1, <1>3 DEF Identity!Resolution, IdentityTyped
    <2>2. Known(r) /\ Home(r) = link[r]
      BY <1>3 DEF Known, Home
    <2> HIDE DEF d
    <2>3. /\ d = [event |-> link[r], kickoff |-> d.kickoff, ref |-> r, does |-> d.does]
          /\ d.kickoff \in Kickoffs \cup {TBD} /\ d.does \in {"keep", "move"}
      BY <1>2, <2>1
    <2>4. d \in Identity!Decision
      BY <2>1, <2>3 DEF Identity!Decision
    <2> QED
      BY <2>1, <2>2, <2>3, <2>4 DEF d
  <1>4. CASE link[r] = Nowhere /\ r \in Identity!Minted
    <2>1. d = Identity!OntoOwn(r, k)
      BY <1>4 DEF Identity!Resolution
    <2>2. Known(r) /\ Home(r) = r
      BY <1>4 DEF Known, Home
    <2> HIDE DEF d
    <2>3. /\ d = [event |-> r, kickoff |-> d.kickoff, ref |-> r, does |-> d.does]
          /\ d.kickoff \in Kickoffs \cup {TBD} /\ d.does \in {"keep", "move", "refuse"}
      <3> DEFINE o == Identity!Onto(r, r, k)
      <3>1. /\ o = [event |-> r, kickoff |-> o.kickoff, ref |-> r, does |-> o.does]
            /\ o.kickoff \in Kickoffs \cup {TBD} /\ o.does \in {"keep", "move"}
        BY <1>2
      <3>2. d = o \/ d = [o EXCEPT !.does = "refuse"]
        BY <2>1 DEF Identity!OntoOwn
      <3> HIDE DEF o
      <3> QED
        BY <3>1, <3>2
    <2>4. d \in Identity!Decision
      BY <2>3 DEF Identity!Decision
    <2> QED
      BY <2>2, <2>3, <2>4 DEF d
  <1>5. CASE link[r] = Nowhere /\ r \notin Identity!Minted
    <2>1. d = Identity!FromTiers(r, k) /\ ~Known(r)
      BY <1>5 DEF Identity!Resolution, Known
    <2>2. \/ d = [event |-> r, kickoff |-> k, does |-> "mint", ref |-> r]
          \/ \E e \in Identity!Minted :
               /\ MarkersOf[e] = MarkersOf[r]
               /\ d = [Identity!Onto(e, r, k) EXCEPT !.does = "link"]
      <3>1. CASE Identity!Real(k) /\ Identity!SameTeams(r, k) # {}
        <4>1. k \in Kickoffs
          BY <3>1 DEF Identity!Real
        <4>2. PICK e : e = Identity!Nearest(Identity!SameTeams(r, k), k)
          OBVIOUS
        <4>3. e \in Identity!SameTeams(r, k)
          BY <1>1, <3>1, <4>1, <4>2, NearestIsTwin
        <4>4. e \in Identity!Minted /\ MarkersOf[e] = MarkersOf[r]
          BY <4>3 DEF Identity!SameTeams, Identity!Twins
        <4>5. d = [Identity!Onto(e, r, k) EXCEPT !.does = "link"]
          BY <2>1, <3>1, <4>2 DEF Identity!FromTiers
        <4> QED
          BY <4>4, <4>5
      <3>2. CASE ~(Identity!Real(k) /\ Identity!SameTeams(r, k) # {})
                 /\ Identity!Real(k) /\ Identity!SamePair(r, k) # {}
        <4>1. PICK e : e = Identity!Lowest(Identity!SamePair(r, k))
          OBVIOUS
        <4>2. Identity!SamePair(r, k) \subseteq Identity!Minted
          BY DEF Identity!SamePair, Identity!Twins
        <4>3. e \in Identity!SamePair(r, k)
          BY <1>1, <3>2, <4>1, <4>2, LowestIsOne DEF IdentityTyped
        <4>4. e \in Identity!Minted /\ MarkersOf[e] = MarkersOf[r]
          BY <4>3 DEF Identity!SamePair, Identity!Twins
        <4>5. d = [Identity!Onto(e, r, k) EXCEPT !.does = "link"]
          BY <2>1, <3>2, <4>1 DEF Identity!FromTiers
        <4> QED
          BY <4>4, <4>5
      <3>3. CASE ~(Identity!Real(k) /\ Identity!SameTeams(r, k) # {})
                 /\ ~(Identity!Real(k) /\ Identity!SamePair(r, k) # {})
        BY <2>1, <3>3 DEF Identity!FromTiers
      <3> QED
        BY <3>1, <3>2, <3>3
    <2> HIDE DEF d
    <2>3. CASE d = [event |-> r, kickoff |-> k, does |-> "mint", ref |-> r]
      <3>1. d \in Identity!Decision
        BY <2>3 DEF Identity!Decision
      <3> QED
        BY <2>1, <2>3, <3>1 DEF d
    <2>4. ASSUME NEW e \in Identity!Minted, MarkersOf[e] = MarkersOf[r],
                 d = [Identity!Onto(e, r, k) EXCEPT !.does = "link"]
          PROVE  /\ d \in Identity!Decision /\ d.ref = r /\ d.event = e /\ d.does = "link"
      <3> DEFINE o == Identity!Onto(e, r, k)
      <3>1. /\ o = [event |-> e, kickoff |-> o.kickoff, ref |-> r, does |-> o.does]
            /\ o.kickoff \in Kickoffs \cup {TBD} /\ o.does \in {"keep", "move"}
        BY <1>1, <1>2
      <3>2. d = [o EXCEPT !.does = "link"]
        BY <2>4
      <3> HIDE DEF o
      <3>3. d = [event |-> e, kickoff |-> o.kickoff, ref |-> r, does |-> "link"]
        BY <3>1, <3>2
      <3> QED
        BY <1>1, <3>1, <3>3 DEF Identity!Decision
    <2> QED
      BY <1>1, <2>1, <2>2, <2>3, <2>4 DEF d
  <1> QED
    BY <1>3, <1>4, <1>5

\* A session decides: nothing but its decision changes.
LEMMA DecidesInv ==
    ASSUME IdentityInv, NEW s \in Identity!Sessions, NEW d \in Identity!Decision,
           Identity!Decides(s, d), d.ref \in Refs, d.event \in Refs,
           d.does \in {"keep", "refuse", "move"} => Known(d.ref) /\ d.event = Home(d.ref),
           d.does \in {"link", "mint"} => s = "poll" /\ ~Known(d.ref),
           d.does = "link"
             => d.event \in Identity!Minted /\ MarkersOf[d.event] = MarkersOf[d.ref],
           d.does = "mint" => d.event = d.ref
    PROVE  IdentityInv' /\ resolved' = resolved
  <1>1. /\ minted' = minted /\ starts' = starts /\ link' = link /\ resolved' = resolved
        /\ session' = [session EXCEPT ![s] = d]
    BY DEF Identity!Decides
  <1>2. session \in [Identity!Sessions -> Identity!Decision]
    BY DEF IdentityInv, IdentityTyped
  <1>3. session'[s] = d /\ \A t \in Identity!Sessions \ {s} : session'[t] = session[t]
    BY <1>1, <1>2
  <1>4. IdentityTyped' /\ LinksHold' /\ ResolvedHold'
    <2>1. session' \in [Identity!Sessions -> Identity!Decision]
      BY <1>1, <1>2
    <2> QED
      BY <1>1, <2>1 DEF IdentityInv, IdentityTyped, LinksHold, ResolvedHold, Known, Home,
         Identity!Minted
  <1>5. (Identity!Minted)' = Identity!Minted /\ \A r : (Known(r)' <=> Known(r)) /\ Home(r)' = Home(r)
    BY <1>1 DEF Known, Home, Identity!Minted
  <1>6. ASSUME NEW t \in Identity!Sessions PROVE DecisionHolds(t)'
    <2>1. CASE t = s
      BY <1>3, <1>5, <2>1 DEF DecisionHolds
    <2>2. CASE t # s
      BY <1>3, <1>5, <2>2 DEF IdentityInv, DecisionHolds
    <2> QED
      BY <2>1, <2>2
  <1> QED
    BY <1>1, <1>4, <1>6 DEF IdentityInv

LEMMA ResolveInv ==
    ASSUME IdentityInv, NEW s \in Identity!Sessions, NEW r \in Refs,
           NEW k \in Kickoffs \cup {TBD}, Identity!Resolve(s, r, k)
    PROVE  IdentityInv' /\ resolved' = resolved
  <1>1. PICK d : d = Identity!Resolution(r, k)
    OBVIOUS
  <1>2. /\ d \in Identity!Decision /\ d.ref = r /\ d.event \in Refs
        /\ d.does \in {"keep", "refuse", "move"} => Known(r) /\ d.event = Home(r)
        /\ d.does \in {"link", "mint"} => ~Known(r)
        /\ d.does = "link" => d.event \in Identity!Minted /\ MarkersOf[d.event] = MarkersOf[r]
        /\ d.does = "mint" => d.event = r
    BY <1>1, ResolutionHolds
  <1>3. Identity!Decides(s, d) /\ (s = "poll" \/ Known(r))
    BY <1>1 DEF Identity!Resolve, Known
  <1> QED
    BY <1>2, <1>3, DecidesInv

LEMMA RefreshInv ==
    ASSUME IdentityInv, NEW r \in Refs, NEW k \in Kickoffs, Identity!Refresh(r, k)
    PROVE  IdentityInv' /\ resolved' = resolved
  <1>1. PICK d : d = Identity!Onto(r, r, k)
    OBVIOUS
  <1>2. Identity!Decides("poll", d) /\ r \in Identity!Minted /\ "poll" \in Identity!Sessions
    BY <1>1 DEF Identity!Refresh, Identity!Sessions
  <1>3. Known(r) /\ Home(r) = r
    BY <1>2 DEF IdentityInv, LinksHold, Known, Home
  <1>4. /\ d = [event |-> r, kickoff |-> d.kickoff, ref |-> r, does |-> d.does]
        /\ d.kickoff \in Kickoffs \cup {TBD} /\ d.does \in {"keep", "move"}
    <2>1. starts[r] \in Kickoffs \cup {TBD}
      BY DEF IdentityInv, IdentityTyped
    <2>2. Identity!Prefer(starts[r], k) \in Kickoffs \cup {TBD}
      BY <2>1 DEF Identity!Prefer
    <2> QED
      BY <1>1, <2>2 DEF Identity!Onto
  <1>5. d \in Identity!Decision /\ d.ref = r /\ d.event = r
    BY <1>4 DEF Identity!Decision
  <1> QED
    BY <1>2, <1>3, <1>4, <1>5, DecidesInv

\* What was decided is committed: nothing that was resolved resolves differently.
LEMMA DecisionCommits ==
    ASSUME IdentityInv, NEW s \in Identity!Sessions, Identity!Commit(s)
    PROVE  /\ IdentityInv'
           /\ \A r \in Refs : resolved[r] # Nowhere => resolved'[r] = resolved[r]
  <1>1. PICK d : d = session[s]
    OBVIOUS
  <1>2. /\ d \in Identity!Decision /\ d.does # "idle" /\ IdentityTyped /\ DecisionHolds(s)
        /\ LinksHold /\ ResolvedHold
    BY <1>1 DEF IdentityInv, IdentityTyped, Identity!Commit
  <1>3. /\ d.ref \in Refs /\ d.event \in Refs /\ d.kickoff \in Kickoffs \cup {TBD}
        /\ d.does \in {"keep", "refuse", "move", "link", "mint"}
        /\ d.does \in {"keep", "refuse", "move"} => Known(d.ref) /\ d.event = Home(d.ref)
        /\ d.does \in {"link", "mint"} => s = "poll" /\ ~Known(d.ref)
        /\ d.does = "link"
             => d.event \in Identity!Minted /\ MarkersOf[d.event] = MarkersOf[d.ref]
        /\ d.does = "mint" => d.event = d.ref
    BY <1>1, <1>2 DEF DecisionHolds, Identity!Decision
  <1>4. /\ session' = [session EXCEPT ![s] = Identity!Idle]
        /\ resolved' = [resolved EXCEPT ![d.ref] = d.event]
        /\ minted' = IF d.does = "mint" /\ d.event \notin Identity!Minted
                     THEN Append(minted, d.event) ELSE minted
        /\ starts' = IF d.does \in {"move", "link", "mint"}
                     THEN [starts EXCEPT ![d.event] = d.kickoff] ELSE starts
        /\ link' = IF d.does = "link" THEN [link EXCEPT ![d.ref] = d.event] ELSE link
    BY <1>1 DEF Identity!Commit
  <1>5. /\ minted' \in Seq(Refs)
        /\ (Identity!Minted)' = IF d.does = "mint" THEN Identity!Minted \cup {d.ref}
                                ELSE Identity!Minted
    <2>1. CASE d.does = "mint"
      <3>1. d.event \notin Identity!Minted /\ minted' = Append(minted, d.event) /\ d.event = d.ref
        BY <1>3, <1>4, <2>1 DEF Known
      <3>2. /\ minted \in Seq(Refs) /\ minted' \in Seq(Refs) /\ Len(minted) \in Nat
            /\ Len(minted') = Len(minted) + 1 /\ minted'[Len(minted) + 1] = d.ref
            /\ \A i \in 1 .. Len(minted) : minted'[i] = minted[i]
        BY <1>2, <1>3, <3>1, AppendProperties DEF IdentityTyped
      <3>3. DOMAIN minted = 1 .. Len(minted) /\ DOMAIN minted' = 1 .. Len(minted) + 1
        BY <3>2
      <3>4. Identity!ToSet(minted') = Identity!ToSet(minted) \cup {d.ref}
        BY <3>2, <3>3 DEF Identity!ToSet
      <3> QED
        BY <2>1, <3>2, <3>4 DEF Identity!Minted
    <2>2. CASE d.does # "mint"
      BY <1>2, <1>4, <2>2 DEF IdentityTyped, Identity!Minted
    <2> QED
      BY <2>1, <2>2
  <1>6. /\ session' \in [Identity!Sessions -> Identity!Decision]
        /\ session'[s] = Identity!Idle /\ Identity!Idle.does = "idle"
        /\ \A t \in Identity!Sessions \ {s} : session'[t] = session[t]
    <2>1. Identity!Idle \in Identity!Decision /\ Identity!Idle.does = "idle"
      BY DEF Identity!Idle, Identity!Decision
    <2> QED
      BY <1>2, <1>4, <2>1 DEF IdentityTyped
  <1>7. IdentityTyped'
    BY <1>2, <1>3, <1>4, <1>5, <1>6 DEF IdentityTyped
  <1>8. \A r \in Refs : link'[r] = IF d.does = "link" /\ r = d.ref THEN d.event ELSE link[r]
    BY <1>2, <1>4 DEF IdentityTyped
  <1>9. d.event # Nowhere /\ d.ref # Nowhere
    BY <1>3, IdentityConstants
  <1>10. \A r \in Refs : Known(r) => Known(r)' /\ Home(r)' = Home(r)
    BY <1>3, <1>5, <1>8, <1>9 DEF Known, Home
  <1>11. Known(d.ref)' /\ Home(d.ref)' = d.event
    <2>1. CASE d.does \in {"keep", "refuse", "move"}
      BY <1>3, <1>10, <2>1
    <2>2. CASE d.does = "link"
      BY <1>3, <1>8, <1>9, <2>2 DEF Known, Home
    <2>3. CASE d.does = "mint"
      BY <1>3, <1>5, <1>8, <2>3 DEF Known, Home
    <2> QED
      BY <1>3, <2>1, <2>2, <2>3
  <1>12. LinksHold'
    <2> SUFFICES ASSUME NEW r \in Refs, link'[r] # Nowhere
                 PROVE  /\ r \notin (Identity!Minted)' /\ link'[r] \in (Identity!Minted)'
                        /\ MarkersOf[link'[r]] = MarkersOf[r]
      BY DEF LinksHold
    <2>1. CASE d.does = "link" /\ r = d.ref
      BY <1>3, <1>5, <1>8, <2>1 DEF Known
    <2>2. CASE ~(d.does = "link" /\ r = d.ref)
      <3>1. link'[r] = link[r]
        BY <1>8, <2>2
      <3>2. r \notin Identity!Minted /\ link[r] \in Identity!Minted /\ MarkersOf[link[r]] = MarkersOf[r]
        BY <1>2, <3>1 DEF LinksHold
      <3>3. d.does = "mint" => r # d.ref
        BY <1>3, <3>1 DEF Known
      <3> QED
        BY <1>5, <3>1, <3>2, <3>3
    <2> QED
      BY <2>1, <2>2
  <1>13. \A r \in Refs : resolved'[r] = IF r = d.ref THEN d.event ELSE resolved[r]
    BY <1>2, <1>4 DEF IdentityTyped
  <1>14. ResolvedHold'
    <2> SUFFICES ASSUME NEW r \in Refs, resolved'[r] # Nowhere
                 PROVE  Known(r)' /\ resolved'[r] = Home(r)'
      BY DEF ResolvedHold
    <2>1. CASE r = d.ref
      BY <1>11, <1>13, <2>1
    <2>2. CASE r # d.ref
      BY <1>2, <1>10, <1>13, <2>2 DEF ResolvedHold
    <2> QED
      BY <2>1, <2>2
  <1>15. ASSUME NEW t \in Identity!Sessions PROVE DecisionHolds(t)'
    <2>1. CASE t = s
      BY <1>6, <2>1 DEF DecisionHolds
    <2>2. CASE t # s
      <3>1. PICK o : o = session[t]
        OBVIOUS
      <3>2. session'[t] = o /\ DecisionHolds(t)
        BY <1>6, <2>2, <3>1 DEF IdentityInv
      <3>3. o.does # "idle" =>
              /\ o.ref \in Refs /\ o.event \in Refs
              /\ o.does \in {"keep", "refuse", "move"} => Known(o.ref) /\ o.event = Home(o.ref)
              /\ o.does \in {"link", "mint"} => t = "poll" /\ ~Known(o.ref)
              /\ o.does = "link"
                   => o.event \in Identity!Minted /\ MarkersOf[o.event] = MarkersOf[o.ref]
              /\ o.does = "mint" => o.event = o.ref
        BY <3>1, <3>2 DEF DecisionHolds
      <3>4. o.does \in {"link", "mint"} /\ o.does # "idle" => ~Known(o.ref)'
        <4> SUFFICES ASSUME o.does \in {"link", "mint"}, o.does # "idle" PROVE ~Known(o.ref)'
          OBVIOUS
        <4>1. t = "poll" /\ s # "poll" /\ ~Known(o.ref) /\ o.ref \in Refs
          BY <2>2, <3>3
        <4>2. d.does \notin {"link", "mint"}
          BY <1>3, <4>1
        <4> QED
          BY <1>5, <1>8, <4>1, <4>2 DEF Known
      <3>5. Identity!Minted \subseteq (Identity!Minted)'
        BY <1>5
      <3> QED
        BY <1>10, <3>2, <3>3, <3>4, <3>5 DEF DecisionHolds
    <2> QED
      BY <2>1, <2>2
  <1>16. \A r \in Refs : resolved[r] # Nowhere => resolved'[r] = resolved[r]
    BY <1>2, <1>10, <1>11, <1>13 DEF ResolvedHold
  <1> QED
    BY <1>7, <1>12, <1>14, <1>15, <1>16 DEF IdentityInv

LEMMA IdentityNextInv ==
    ASSUME IdentityInv, [Next]_vars
    PROVE  /\ IdentityInv'
           /\ \A r \in Refs : resolved[r] # Nowhere => resolved'[r] = resolved[r]
  <1>1. CASE Identity!IdentityNext
    <2>1. ASSUME NEW s \in Identity!Sessions, NEW r \in Refs, NEW k \in Kickoffs \cup {TBD},
                 Identity!Resolve(s, r, k)
          PROVE  IdentityInv' /\ resolved' = resolved
      BY <2>1, ResolveInv
    <2>2. ASSUME NEW r \in Refs, NEW k \in Kickoffs, Identity!Refresh(r, k)
          PROVE  IdentityInv' /\ resolved' = resolved
      BY <2>2, RefreshInv
    <2>3. ASSUME NEW s \in Identity!Sessions, Identity!Commit(s)
          PROVE  /\ IdentityInv'
                 /\ \A r \in Refs : resolved[r] # Nowhere => resolved'[r] = resolved[r]
      BY <2>3, DecisionCommits
    <2>4. ASSUME NEW e \in Refs, Identity!Settle(e) PROVE IdentityInv' /\ resolved' = resolved
      BY <2>4 DEF Identity!Settle, IdentityInv, IdentityTyped, LinksHold, ResolvedHold,
         DecisionHolds, Known, Home, Identity!Minted
    <2> QED
      BY <1>1, <2>1, <2>2, <2>3, <2>4 DEF Identity!IdentityNext
  <1>2. CASE UNCHANGED eventVars
    BY <1>2 DEF eventVars, IdentityInv, IdentityTyped, LinksHold, ResolvedHold,
       DecisionHolds, Known, Home, Identity!Minted
  <1> QED
    BY <1>1, <1>2, IdentitySteps

LEMMA IdentityInvariant == Spec => []IdentityInv
  <1>1. Init => IdentityInv
    BY IdentityInitInv DEF Init
  <1>2. IdentityInv /\ [Next]_vars => IdentityInv'
    BY IdentityNextInv
  <1> QED
    BY <1>1, <1>2, PTL DEF Spec

\* Whatever references, kickoffs, links and moves come in between, in two sessions: a
\* reference that was resolved once resolves to the same event again
\* (_get_or_create_event).
THEOREM Resolution_IsStable == Spec => ResolutionIsStable
  <1>1. IdentityInv /\ [Next]_vars
          => [ \A r \in Refs : resolved[r] # Nowhere => resolved'[r] = resolved[r] ]_(Identity!identityVars)
    BY IdentityNextInv
  <1> QED
    BY <1>1, IdentityInvariant, PTL DEF Spec, ResolutionIsStable, Identity!ResolutionIsStable

\* However many references there are and whatever their teams, leagues and kickoffs: two of
\* them that resolve to one event are of one kind of competition (_league_marker_set).
THEOREM DoubleHeaders_StayApart == Spec => []DoubleHeadersStayApart
  <1>1. IdentityInv => DoubleHeadersStayApart
    <2> SUFFICES ASSUME IdentityInv, NEW r \in Refs, NEW s \in Refs, resolved[r] = resolved[s],
                        resolved[r] # Nowhere
                 PROVE  MarkersOf[r] = MarkersOf[s]
      BY DEF DoubleHeadersStayApart, Identity!DoubleHeadersStayApart
    <2>1. resolved[r] = Home(r) /\ resolved[s] = Home(s)
      BY DEF IdentityInv, ResolvedHold
    <2>2. MarkersOf[Home(r)] = MarkersOf[r] /\ MarkersOf[Home(s)] = MarkersOf[s]
      BY DEF IdentityInv, LinksHold, Home
    <2> QED
      BY <2>1, <2>2
  <1> QED
    BY <1>1, IdentityInvariant, PTL

----------------------------------------------------------------------------
(* SnapshotStore: the change-only rows show what was on offer.             *)

LEMMA StoreSteps == [Next]_vars => Store!StoreNext \/ UNCHANGED oddsVars
  BY DEF Next, Only, vars

Shots(q) == Store!ToSet(stored[q])

\* The close for a kickoff right after the last finished cycle.
Latest(q) == Store!ClosingOdds(q, captures + 1)

\* A price that is remembered is on record, unless a commit was not heard of.
OnRecord(mem) == \A q \in Quotes : mem[q] # NoPrice /\ q \notin doubtful => Latest(q) = mem[q]

Shot == [price : Prices, at : Nat]

StoreTyped ==
    /\ captures \in Nat /\ writing \in BOOLEAN
    /\ stored \in [Quotes -> Seq(Shot)]
    /\ memory \in [Quotes -> Prices \cup {NoPrice}] /\ gate \in [Quotes -> Prices \cup {NoPrice}]
    /\ offer \in [Quotes -> Prices \cup {NoPrice}]
    /\ doubtful \subseteq Quotes

StoreInv ==
    /\ StoreTyped
    /\ \A q \in Quotes : \A shot \in Shots(q) :
          shot.at \in 1 .. captures /\ \A other \in Shots(q) : other.at = shot.at => other = shot
    /\ writing => OnRecord(gate)
    /\ ~writing => OnRecord(memory)

LEMMA StoreInitInv == Store!StoreInit => StoreInv /\ Store!History!Init
  <1> SUFFICES ASSUME Store!StoreInit PROVE StoreInv /\ Store!History!Init
    OBVIOUS
  <1>1. /\ stored = [q \in Quotes |-> <<>>] /\ captures = 0 /\ writing = FALSE
        /\ memory = [q \in Quotes |-> NoPrice] /\ gate = [q \in Quotes |-> NoPrice]
        /\ offer = [q \in Quotes |-> NoPrice] /\ doubtful = {} /\ failed = {}
    BY DEF Store!StoreInit, Store!Nothing
  <1>2. \A q \in Quotes : Shots(q) = {}
    BY <1>1 DEF Shots, Store!ToSet
  <1>3. StoreTyped
    <2>1. <<>> \in Seq(Shot)
      BY EmptySeq
    <2> QED
      BY <1>1, <2>1 DEF StoreTyped
  <1>4. OnRecord(memory)
    BY <1>1 DEF OnRecord
  <1>5. Store!Closes = <<>>
    BY <1>1 DEF Store!Closes
  <1> QED
    BY <1>1, <1>2, <1>3, <1>4, <1>5 DEF StoreInv, Store!History!Init

\* A close depends on the rows before kickoff alone.
LEMMA CloseIsLast ==
    ASSUME NEW q \in Quotes
    PROVE  /\ \A kick : Store!ClosingOdds(q, kick)
                         = Store!LastPrice({ shot \in Shots(q) : shot.at < kick })
           /\ \A kick : Store!ClosingOdds(q, kick)'
                         = Store!LastPrice({ shot \in Shots(q)' : shot.at < kick })
  BY DEF Store!ClosingOdds, Shots

\* The end of a cycle that wrote the quotes W, and what its readers see after it.
LEMMA CycleEnds ==
    ASSUME StoreInv, NEW W \in SUBSET Store!ToWrite, captures' = captures + 1,
           stored' = [q \in Quotes |->
                        IF q \in W
                        THEN Append(stored[q], [price |-> offer[q], at |-> captures + 1])
                        ELSE stored[q]]
    PROVE  /\ stored' \in [Quotes -> Seq(Shot)] /\ captures' \in Nat
           /\ \A q \in Quotes : \A shot \in Shots(q)' :
                 /\ shot.at \in 1 .. captures'
                 /\ \A other \in Shots(q)' : other.at = shot.at => other = shot
           /\ \A q \in Quotes : \A n \in 1 .. captures :
                 Store!ClosingOdds(q, n + 1)' = Store!ClosingOdds(q, n + 1)
           /\ \A q \in Quotes : Latest(q)' = IF q \in W THEN offer[q] ELSE Latest(q)
  <1>1. StoreTyped /\ captures \in Nat /\ W \subseteq Quotes
    BY DEF StoreInv, StoreTyped, Store!ToWrite
  <1>2. ASSUME NEW q \in W
        PROVE  /\ stored'[q] \in Seq(Shot)
               /\ Shots(q)' = Shots(q) \cup {[price |-> offer[q], at |-> captures + 1]}
    <2> DEFINE rows == stored[q]
               added == [price |-> offer[q], at |-> captures + 1]
    <2>1. rows \in Seq(Shot) /\ stored'[q] = Append(rows, added)
      BY <1>1, <1>2 DEF StoreTyped
    <2>2. added \in Shot
      BY <1>1, <1>2 DEF StoreTyped, Store!ToWrite, Store!Listed, Shot
    <2> HIDE DEF rows, added
    <2>3. /\ Append(rows, added) \in Seq(Shot) /\ Len(Append(rows, added)) = Len(rows) + 1
          /\ \A i \in 1 .. Len(rows) : Append(rows, added)[i] = rows[i]
          /\ Append(rows, added)[Len(rows) + 1] = added /\ Len(rows) \in Nat
      BY <2>1, <2>2, AppendProperties
    <2>4. DOMAIN rows = 1 .. Len(rows) /\ DOMAIN Append(rows, added) = 1 .. Len(rows) + 1
      BY <2>1, <2>3
    <2>5. Store!ToSet(Append(rows, added)) = Store!ToSet(rows) \cup {added}
      BY <2>3, <2>4 DEF Store!ToSet
    <2> QED
      BY <2>1, <2>3, <2>5 DEF Shots, rows, added
  <1>3. ASSUME NEW q \in Quotes \ W PROVE stored'[q] = stored[q] /\ Shots(q)' = Shots(q)
    BY <1>3 DEF Shots
  <1>4. stored' \in [Quotes -> Seq(Shot)]
    BY <1>1, <1>2, <1>3 DEF StoreTyped
  <1>5. ASSUME NEW q \in Quotes, NEW shot \in Shots(q)'
        PROVE  /\ shot.at \in 1 .. captures'
               /\ \A other \in Shots(q)' : other.at = shot.at => other = shot
    <2>1. \A old \in Shots(q) :
             old.at \in 1 .. captures /\ \A other \in Shots(q) : other.at = old.at => other = old
      BY DEF StoreInv
    <2>2. CASE q \notin W
      BY <1>1, <1>3, <1>5, <2>1, <2>2
    <2>3. CASE q \in W
      <3>1. PICK added : added = [price |-> offer[q], at |-> captures + 1]
        OBVIOUS
      <3>2. Shots(q)' = Shots(q) \cup {added} /\ added.at = captures + 1
        BY <1>2, <2>3, <3>1
      <3>3. captures + 1 \in 1 .. captures' /\ 1 .. captures \subseteq 1 .. captures'
        BY <1>1
      <3>4. CASE shot = added
        BY <1>1, <2>1, <3>2, <3>3, <3>4
      <3>5. CASE shot \in Shots(q)
        BY <1>1, <2>1, <3>2, <3>3, <3>5
      <3> QED
        BY <1>5, <3>2, <3>4, <3>5
    <2> QED
      BY <2>2, <2>3
  <1>6. ASSUME NEW q \in Quotes, NEW n \in 1 .. captures
        PROVE  Store!ClosingOdds(q, n + 1)' = Store!ClosingOdds(q, n + 1)
    <2>1. { shot \in Shots(q)' : shot.at < n + 1 } = { shot \in Shots(q) : shot.at < n + 1 }
      <3>1. CASE q \in W
        <4>1. PICK added : added = [price |-> offer[q], at |-> captures + 1]
          OBVIOUS
        <4>2. Shots(q)' = Shots(q) \cup {added} /\ added.at = captures + 1
          BY <1>2, <3>1, <4>1
        <4>3. ~(added.at < n + 1)
          BY <1>1, <4>2
        <4> QED
          BY <4>2, <4>3
      <3>2. CASE q \notin W
        BY <1>3, <3>2
      <3> QED
        BY <3>1, <3>2
    <2> QED
      BY <2>1, CloseIsLast
  <1>7. ASSUME NEW q \in Quotes PROVE Latest(q)' = IF q \in W THEN offer[q] ELSE Latest(q)
    <2>1. \A old \in Shots(q) : old.at \in 1 .. captures
      BY DEF StoreInv
    <2>2. { shot \in Shots(q) : shot.at < captures + 1 } = Shots(q)
      BY <1>1, <2>1
    <2>3. { shot \in Shots(q)' : shot.at < captures' + 1 } = Shots(q)'
      BY <1>1, <1>5
    <2>4. CASE q \notin W
      BY <1>3, <2>2, <2>3, <2>4, CloseIsLast DEF Latest
    <2>5. CASE q \in W
      <3> DEFINE added == [price |-> offer[q], at |-> captures + 1]
                 after == Shots(q)'
      <3>1. after = Shots(q) \cup {added} /\ added.at = captures + 1 /\ added.price = offer[q]
        BY <1>2, <2>5
      <3> HIDE DEF added, after
      <3>2. \A latest \in after :
              (\A other \in after : other.at <= latest.at) => latest = added
        BY <1>1, <2>1, <3>1
      <3>3. added \in after /\ \A other \in after : other.at <= added.at
        BY <1>1, <2>1, <3>1
      <3>4. (CHOOSE latest \in after : \A other \in after : other.at <= latest.at) = added
        BY <3>2, <3>3
      <3>5. Latest(q)' = Store!LastPrice(after)
        BY <2>3, CloseIsLast DEF Latest, after
      <3>6. Store!LastPrice(after) = added.price
        BY <3>3, <3>4 DEF Store!LastPrice
      <3> QED
        BY <2>5, <3>1, <3>5, <3>6
    <2> QED
      BY <2>4, <2>5
  <1> QED
    BY <1>1, <1>4, <1>5, <1>6, <1>7

\* What OddsHistory calls the price before a cycle.
LEMMA BeforeIsLatest ==
    ASSUME StoreInv, NEW q \in Quotes PROVE Store!History!Before(q) = Latest(q)
  <1>1. captures \in Nat
    BY DEF StoreInv, StoreTyped
  <1> DEFINE shown == Store!Closes
  <1>2. shown = [n \in 1 .. captures |-> [p \in Quotes |-> Store!ClosingOdds(p, n + 1)]]
    BY DEF Store!Closes
  <1>3. Store!History!Before(q) = IF shown = <<>> THEN NoPrice ELSE shown[Len(shown)][q]
    BY DEF Store!History!Before
  <1> HIDE DEF shown
  <1>4. CASE captures = 0
    <2>1. shown = <<>>
      BY <1>2, <1>4
    <2>2. Shots(q) = {}
      BY <1>4 DEF StoreInv
    <2>3. Latest(q) = NoPrice
      BY <2>2, CloseIsLast DEF Latest, Store!LastPrice
    <2> QED
      BY <1>3, <2>1, <2>3
  <1>5. CASE captures # 0
    <2>1. captures \in 1 .. captures /\ Len(shown) = captures /\ shown # <<>>
      BY <1>1, <1>2, <1>5
    <2>2. shown[captures][q] = Latest(q)
      BY <1>2, <2>1 DEF Latest
    <2> QED
      BY <1>3, <2>1, <2>2
  <1> QED
    BY <1>4, <1>5

\* A cycle that wrote W and reports failedNow records, in the sense of OddsHistory.
LEMMA CycleRecords ==
    ASSUME StoreInv, NEW W \in SUBSET Store!ToWrite, writing, captures' = captures + 1,
           stored' = [q \in Quotes |->
                        IF q \in W
                        THEN Append(stored[q], [price |-> offer[q], at |-> captures + 1])
                        ELSE stored[q]],
           offer' = offer, doubtful' \subseteq Quotes,
           \A q \in doubtful' \ doubtful : EventOf[q] \in failed',
           \A q \in W : q \in doubtful \cup doubtful' \/ EventOf[q] \notin failed',
           \A q \in Store!ToWrite \ W : q \in doubtful \cup doubtful' \/ EventOf[q] \in failed'
    PROVE  Store!History!Record
  <1>1. /\ \A q \in Quotes : \A n \in 1 .. captures :
              Store!ClosingOdds(q, n + 1)' = Store!ClosingOdds(q, n + 1)
        /\ \A q \in Quotes : Latest(q)' = IF q \in W THEN offer[q] ELSE Latest(q)
    BY CycleEnds
  <1>2. captures \in Nat /\ StoreTyped
    BY DEF StoreInv, StoreTyped
  <1> DEFINE shown == Store!Closes
  <1>3. /\ shown = [n \in 1 .. captures |-> [q \in Quotes |-> Store!ClosingOdds(q, n + 1)]]
        /\ shown' = [n \in 1 .. captures + 1 |-> [q \in Quotes |-> Store!ClosingOdds(q, n + 1)']]
    BY DEF Store!Closes
  <1> HIDE DEF shown
  <1>4. /\ Len(shown) = captures /\ Len(shown') = captures + 1
        /\ DOMAIN shown = 1 .. captures /\ DOMAIN shown' = 1 .. captures + 1
    BY <1>2, <1>3
  <1>5. SubSeq(shown', 1, Len(shown)) = shown
    <2>1. \A n \in 1 .. captures : shown'[n] = shown[n]
      BY <1>1, <1>2, <1>3
    <2>2. SubSeq(shown', 1, captures) = [n \in 1 .. captures |-> shown'[n]]
      BY <1>2, <1>4
    <2>3. shown = [n \in 1 .. captures |-> shown[n]]
      BY <1>3
    <2> QED
      BY <1>4, <2>1, <2>2, <2>3
  <1>6. ASSUME NEW q \in Quotes PROVE shown'[Len(shown) + 1][q] = Latest(q)'
    <2>1. captures + 1 \in 1 .. captures + 1
      BY <1>2
    <2>2. PICK n : n = captures + 1
      OBVIOUS
    <2>3. shown'[n][q] = Store!ClosingOdds(q, n + 1)'
      BY <1>2, <1>3, <2>1, <2>2
    <2>4. Store!ClosingOdds(q, n + 1)' = Store!LastPrice({ shot \in Shots(q)' : shot.at < n + 1 })
      BY CloseIsLast
    <2>5. Latest(q)' = Store!LastPrice({ shot \in Shots(q)' : shot.at < captures' + 1 })
      BY CloseIsLast DEF Latest
    <2> QED
      BY <1>2, <1>4, <2>2, <2>3, <2>4, <2>5
  <1>7. ASSUME NEW q \in Quotes
        PROVE  Store!History!Shows(q, IF q \in W THEN offer[q] ELSE Latest(q))
    <2>1. Store!History!Before(q) = Latest(q)
      BY BeforeIsLatest
    <2>2. q \in W => q \in Store!ToWrite
      OBVIOUS
    <2>3. CASE offer[q] = NoPrice
      BY <2>1, <2>2, <2>3 DEF Store!History!Shows, Store!ToWrite, Store!Listed
    <2>4. CASE offer[q] # NoPrice /\ q \in doubtful \cup doubtful'
      BY <2>1, <2>4 DEF Store!History!Shows
    <2>5. CASE offer[q] # NoPrice /\ q \notin doubtful \cup doubtful' /\ EventOf[q] \in failed'
      BY <2>1, <2>5 DEF Store!History!Shows
    <2>6. CASE offer[q] # NoPrice /\ q \notin doubtful \cup doubtful' /\ EventOf[q] \notin failed'
      <3>1. q \notin W => Latest(q) = offer[q]
        <4> SUFFICES ASSUME q \notin W PROVE Latest(q) = offer[q]
          OBVIOUS
        <4>1. q \notin Store!ToWrite
          BY <2>6
        <4>2. offer[q] = gate[q]
          BY <2>6, <4>1 DEF Store!ToWrite, Store!Listed
        <4> QED
          BY <2>6, <4>2 DEF StoreInv, OnRecord
      <3> QED
        BY <2>6, <3>1 DEF Store!History!Shows
    <2> QED
      BY <2>3, <2>4, <2>5, <2>6
  <1>8. ASSUME NEW q \in Quotes
        PROVE  Store!History!Shows(q, shown'[Len(shown) + 1][q])
    BY <1>1, <1>6, <1>7
  <1> QED
    BY <1>4, <1>5, <1>8 DEF Store!History!Record, shown

\* A cycle's end: it is recorded, and the next memory is on record again.
LEMMA CycleEndInv ==
    ASSUME StoreInv, NEW W \in SUBSET Store!ToWrite, Store!EndCapture,
           stored' = [q \in Quotes |->
                        IF q \in W
                        THEN Append(stored[q], [price |-> offer[q], at |-> captures + 1])
                        ELSE stored[q]],
           offer' = offer, doubtful' \subseteq Quotes,
           \A q \in doubtful' \ doubtful : EventOf[q] \in failed',
           \A q \in W : q \in doubtful \cup doubtful' \/ EventOf[q] \notin failed',
           \A q \in Store!ToWrite \ W : q \in doubtful \cup doubtful' \/ EventOf[q] \in failed',
           memory' \in [Quotes -> Prices \cup {NoPrice}],
           \A q \in Quotes : memory'[q] # NoPrice /\ q \notin doubtful' =>
              IF q \in W THEN memory'[q] = offer[q]
              ELSE q \notin doubtful
                   /\ (memory'[q] = gate[q] \/ (memory'[q] = offer[q] /\ q \notin Store!ToWrite))
    PROVE  StoreInv' /\ Store!History!Record
  <1>1. /\ writing /\ writing' = FALSE /\ captures' = captures + 1
        /\ gate' \in [Quotes -> Prices \cup {NoPrice}]
    BY DEF Store!EndCapture, Store!Nothing
  <1>2. Store!History!Record
    BY <1>1, CycleRecords
  <1>3. /\ stored' \in [Quotes -> Seq(Shot)] /\ captures' \in Nat
        /\ \A q \in Quotes : \A shot \in Shots(q)' :
              /\ shot.at \in 1 .. captures'
              /\ \A other \in Shots(q)' : other.at = shot.at => other = shot
        /\ \A q \in Quotes : Latest(q)' = IF q \in W THEN offer[q] ELSE Latest(q)
    BY <1>1, CycleEnds
  <1>4. StoreTyped'
    BY <1>1, <1>3 DEF StoreInv, StoreTyped
  <1>5. ASSUME NEW q \in Quotes, memory'[q] # NoPrice, q \notin doubtful'
        PROVE  Latest(q)' = memory'[q]
    <2>1. CASE q \in W
      BY <1>3, <1>5, <2>1
    <2>2. CASE q \notin W
      <3>1. /\ q \notin doubtful
            /\ memory'[q] = gate[q] \/ (memory'[q] = offer[q] /\ q \notin Store!ToWrite)
        BY <1>5, <2>2
      <3>2. memory'[q] = gate[q]
        BY <1>5, <3>1 DEF Store!ToWrite, Store!Listed
      <3>3. Latest(q) = gate[q]
        BY <1>1, <1>5, <3>1, <3>2 DEF StoreInv, OnRecord
      <3> QED
        BY <1>3, <2>2, <3>2, <3>3
    <2> QED
      BY <2>1, <2>2
  <1>6. OnRecord(memory)'
    BY <1>5 DEF OnRecord
  <1> QED
    BY <1>1, <1>2, <1>3, <1>4, <1>6 DEF StoreInv

\* Reading: the offers of a new cycle, or a price that is forgotten.
LEMMA ReadingInv ==
    ASSUME StoreInv,
           \/ \E prices \in [Quotes -> Prices \cup {NoPrice}] : Store!Observe(prices)
           \/ \E q \in Quotes : Store!Sweep(q)
    PROVE  StoreInv' /\ (Store!History!Capture \/ UNCHANGED Store!History!vars)
  <1>1. /\ stored' = stored /\ captures' = captures /\ failed' = failed
        /\ doubtful' = doubtful /\ StoreTyped
    BY DEF Store!Observe, Store!Sweep, StoreInv
  <1>2. Store!Closes' = Store!Closes
    BY <1>1 DEF Store!Closes, Store!ClosingOdds
  <1>3. \A q \in Quotes : Shots(q)' = Shots(q) /\ Latest(q)' = Latest(q)
    BY <1>1 DEF Shots, Latest, Store!ClosingOdds
  <1>4. CASE \E prices \in [Quotes -> Prices \cup {NoPrice}] : Store!Observe(prices)
    <2>1. PICK prices \in [Quotes -> Prices \cup {NoPrice}] : Store!Observe(prices)
      BY <1>4
    <2>2. /\ ~writing /\ writing' = TRUE /\ offer' = prices /\ gate' = memory
          /\ memory' = IF gateFirst
                       THEN [q \in Quotes |-> IF prices[q] # NoPrice THEN prices[q] ELSE memory[q]]
                       ELSE memory
      BY <2>1 DEF Store!Observe
    <2>3. StoreTyped'
      BY <1>1, <2>2 DEF StoreTyped
    <2>4. OnRecord(gate)'
      BY <1>1, <1>3, <2>2 DEF StoreInv, OnRecord
    <2>5. StoreInv'
      BY <1>1, <1>3, <2>2, <2>3, <2>4 DEF StoreInv
    <2>6. Store!History!Capture
      BY <1>1, <1>2, <2>2 DEF Store!History!Capture
    <2> QED
      BY <2>5, <2>6
  <1>5. CASE \E q \in Quotes : Store!Sweep(q)
    <2>1. PICK q \in Quotes : Store!Sweep(q)
      BY <1>5
    <2>2. /\ ~writing /\ writing' = writing /\ offer' = offer /\ gate' = gate
          /\ memory' = [memory EXCEPT ![q] = NoPrice]
      BY <2>1 DEF Store!Sweep
    <2>3. StoreTyped'
      BY <1>1, <2>2 DEF StoreTyped
    <2>4. OnRecord(memory)'
      <3>1. \A p \in Quotes : memory'[p] # NoPrice => memory'[p] = memory[p]
        BY <1>1, <2>2 DEF StoreTyped
      <3> QED
        BY <1>1, <1>3, <2>2, <3>1 DEF StoreInv, OnRecord
    <2>5. StoreInv'
      BY <1>1, <1>3, <2>2, <2>3, <2>4 DEF StoreInv
    <2>6. UNCHANGED Store!History!vars
      BY <1>1, <1>2, <2>2 DEF Store!History!vars
    <2> QED
      BY <2>5, <2>6
  <1> QED
    BY <1>4, <1>5

\* Writing: every way a cycle's transaction can end.
LEMMA WritingInv ==
    ASSUME StoreInv,
           \/ \E fails \in SUBSET Store!Attempted :
                Store!Persist(fails) \/ Store!PersistUnheard(fails)
           \/ Store!PersistFails
           \/ \E committed \in BOOLEAN : Store!StoreDies(committed)
    PROVE  StoreInv' /\ Store!History!Record
  <1>1. /\ Store!ToWrite \subseteq Quotes /\ StoreTyped /\ doubtful \subseteq Quotes
        /\ stored = [q \in Quotes |-> stored[q]]
        /\ \A q \in Store!ToWrite : EventOf[q] \in Store!Attempted
    BY DEF StoreInv, StoreTyped, Store!ToWrite, Store!Attempted
  <1>2. ASSUME NEW fails, Store!Remembered(fails)
        PROVE  /\ memory' \in [Quotes -> Prices \cup {NoPrice}]
               /\ \A q \in Quotes :
                    memory'[q] = IF Store!Listed(q) /\ EventOf[q] \notin fails THEN offer[q] ELSE gate[q]
    BY <1>1, <1>2 DEF Store!Remembered, StoreTyped
  <1>3. ASSUME NEW fails
        PROVE  Store!Written(fails) =
                 [q \in Quotes |->
                    IF q \in { p \in Store!ToWrite : EventOf[p] \notin fails }
                    THEN Append(stored[q], [price |-> offer[q], at |-> captures + 1])
                    ELSE stored[q]]
    BY DEF Store!Written
  <1>4. stored = [q \in Quotes |->
                    IF q \in {} THEN Append(stored[q], [price |-> offer[q], at |-> captures + 1])
                    ELSE stored[q]]
    BY <1>1
  <1>5. ASSUME NEW fails \in SUBSET Store!Attempted, Store!Persist(fails)
        PROVE  StoreInv' /\ Store!History!Record
    <2> DEFINE W == { p \in Store!ToWrite : EventOf[p] \notin fails }
    <2>1. /\ Store!EndCapture /\ Store!Remembered(fails) /\ failed' = fails
          /\ doubtful' = doubtful \ W /\ offer' = offer
          /\ stored' = Store!Written(fails)
      BY <1>5 DEF Store!Persist
    <2>2. /\ W \in SUBSET Store!ToWrite
          /\ \A q \in Store!ToWrite : q \in W <=> EventOf[q] \notin fails
      OBVIOUS
    <2>3. stored' = [q \in Quotes |->
                       IF q \in W THEN Append(stored[q], [price |-> offer[q], at |-> captures + 1])
                       ELSE stored[q]]
      BY <1>3, <2>1
    <2> HIDE DEF W
    <2>4. \A q \in Quotes : memory'[q] # NoPrice /\ q \notin doubtful' =>
             IF q \in W THEN memory'[q] = offer[q]
             ELSE q \notin doubtful
                  /\ (memory'[q] = gate[q] \/ (memory'[q] = offer[q] /\ q \notin Store!ToWrite))
      <3> SUFFICES ASSUME NEW q \in Quotes, memory'[q] # NoPrice, q \notin doubtful'
                   PROVE  IF q \in W THEN memory'[q] = offer[q]
                          ELSE q \notin doubtful
                               /\ \/ memory'[q] = gate[q]
                                  \/ memory'[q] = offer[q] /\ q \notin Store!ToWrite
        OBVIOUS
      <3>1. memory'[q] = IF Store!Listed(q) /\ EventOf[q] \notin fails THEN offer[q] ELSE gate[q]
        BY <1>2, <2>1
      <3>2. CASE q \in W
        <4>1. Store!Listed(q) /\ EventOf[q] \notin fails
          BY <2>2, <3>2 DEF Store!ToWrite
        <4> QED
          BY <3>1, <3>2, <4>1
      <3>3. CASE q \notin W
        <4>1. q \notin doubtful
          BY <2>1, <3>3
        <4>2. EventOf[q] \notin fails => q \notin Store!ToWrite
          BY <2>2, <3>3
        <4> QED
          BY <3>1, <3>3, <4>1, <4>2
      <3> QED
        BY <3>2, <3>3
    <2>5. memory' \in [Quotes -> Prices \cup {NoPrice}]
      BY <1>2, <2>1
    <2> QED
      BY <1>1, <2>1, <2>2, <2>3, <2>4, <2>5, CycleEndInv
  <1>6. ASSUME NEW fails \in SUBSET Store!Attempted, Store!PersistUnheard(fails)
        PROVE  StoreInv' /\ Store!History!Record
    <2> DEFINE W == { p \in Store!ToWrite : EventOf[p] \notin fails }
    <2>1. /\ Store!EndCapture /\ Store!Remembered(Store!Attempted) /\ failed' = Store!Attempted
          /\ doubtful' = doubtful \cup Store!ToWrite /\ offer' = offer
          /\ stored' = Store!Written(fails)
      BY <1>6 DEF Store!PersistUnheard
    <2>2. W \in SUBSET Store!ToWrite
      OBVIOUS
    <2>3. stored' = [q \in Quotes |->
                       IF q \in W THEN Append(stored[q], [price |-> offer[q], at |-> captures + 1])
                       ELSE stored[q]]
      BY <1>3, <2>1
    <2> HIDE DEF W
    <2>4. \A q \in Quotes : memory'[q] # NoPrice /\ q \notin doubtful' =>
             IF q \in W THEN memory'[q] = offer[q]
             ELSE q \notin doubtful
                  /\ (memory'[q] = gate[q] \/ (memory'[q] = offer[q] /\ q \notin Store!ToWrite))
      BY <1>2, <2>1, <2>2
    <2>5. memory' \in [Quotes -> Prices \cup {NoPrice}]
      BY <1>2, <2>1
    <2> QED
      BY <1>1, <2>1, <2>2, <2>3, <2>4, <2>5, CycleEndInv
  <1>7. CASE Store!PersistFails
    <2>1. /\ Store!EndCapture /\ Store!Remembered(Store!Attempted) /\ failed' = Store!Attempted
          /\ doubtful' = doubtful /\ offer' = offer /\ stored' = stored
      BY <1>7 DEF Store!PersistFails
    <2>2. {} \in SUBSET Store!ToWrite
      OBVIOUS
    <2>3. \A q \in Quotes : memory'[q] # NoPrice /\ q \notin doubtful' =>
             IF q \in {} THEN memory'[q] = offer[q]
             ELSE q \notin doubtful
                  /\ (memory'[q] = gate[q] \/ (memory'[q] = offer[q] /\ q \notin Store!ToWrite))
      <3> SUFFICES ASSUME NEW q \in Quotes, memory'[q] # NoPrice, q \notin doubtful'
                   PROVE  q \notin doubtful
                          /\ \/ memory'[q] = gate[q]
                             \/ memory'[q] = offer[q] /\ q \notin Store!ToWrite
        OBVIOUS
      <3>1. memory'[q] = IF Store!Listed(q) /\ EventOf[q] \notin Store!Attempted
                         THEN offer[q] ELSE gate[q]
        BY <1>2, <2>1
      <3>2. EventOf[q] \notin Store!Attempted => q \notin Store!ToWrite
        BY <1>1
      <3> QED
        BY <2>1, <3>1, <3>2
    <2>4. memory' \in [Quotes -> Prices \cup {NoPrice}]
      BY <1>2, <2>1
    <2> QED
      BY <1>1, <1>4, <2>1, <2>2, <2>3, <2>4, CycleEndInv
  <1>8. ASSUME NEW committed \in BOOLEAN, Store!StoreDies(committed)
        PROVE  StoreInv' /\ Store!History!Record
    <2>1. /\ Store!EndCapture /\ failed' = Store!Events /\ offer' = offer
          /\ doubtful' = doubtful \cup Store!ToWrite
          /\ memory' = [q \in Quotes |-> NoPrice]
      BY <1>8 DEF Store!StoreDies, Store!Nothing
    <2>2. \A q \in Quotes : EventOf[q] \in Store!Events
      BY DEF Store!Events
    <2>3. PICK W \in SUBSET Store!ToWrite :
            stored' = [q \in Quotes |->
                         IF q \in W THEN Append(stored[q], [price |-> offer[q], at |-> captures + 1])
                         ELSE stored[q]]
      <3>1. CASE committed
        <4>1. stored' = Store!Written({})
          BY <1>8, <3>1 DEF Store!StoreDies
        <4>2. { p \in Store!ToWrite : EventOf[p] \notin {} } \in SUBSET Store!ToWrite
          OBVIOUS
        <4> QED
          BY <1>3, <4>1, <4>2
      <3>2. CASE ~committed
        <4>1. stored' = stored /\ {} \in SUBSET Store!ToWrite
          BY <1>8, <3>2 DEF Store!StoreDies
        <4> QED
          BY <1>4, <4>1
      <3> QED
        BY <3>1, <3>2
    <2>4. memory' \in [Quotes -> Prices \cup {NoPrice}] /\ \A q \in Quotes : memory'[q] = NoPrice
      BY <2>1
    <2> QED
      BY <1>1, <2>1, <2>2, <2>3, <2>4, CycleEndInv
  <1> QED
    BY <1>5, <1>6, <1>7, <1>8

LEMMA StoreNextInv ==
    StoreInv /\ [Next]_vars => StoreInv' /\ [Store!History!Next]_(Store!History!vars)
  <1> SUFFICES ASSUME StoreInv, [Next]_vars
               PROVE  StoreInv' /\ [Store!History!Next]_(Store!History!vars)
    OBVIOUS
  <1>1. CASE Store!StoreNext
    <2>1. \/ \/ \E prices \in [Quotes -> Prices \cup {NoPrice}] : Store!Observe(prices)
             \/ \E q \in Quotes : Store!Sweep(q)
          \/ \/ \E fails \in SUBSET Store!Attempted :
                  Store!Persist(fails) \/ Store!PersistUnheard(fails)
             \/ Store!PersistFails
             \/ \E committed \in BOOLEAN : Store!StoreDies(committed)
      BY <1>1 DEF Store!StoreNext
    <2> QED
      BY <2>1, ReadingInv, WritingInv DEF Store!History!Next
  <1>2. CASE UNCHANGED oddsVars
    <2> SUFFICES ASSUME stored' = stored, memory' = memory, gate' = gate, offer' = offer,
                        writing' = writing, captures' = captures, failed' = failed,
                        doubtful' = doubtful
                 PROVE  StoreInv' /\ UNCHANGED Store!History!vars
      BY <1>2 DEF oddsVars
    <2>1. \A q \in Quotes : Shots(q)' = Shots(q) /\ Latest(q)' = Latest(q)
      BY DEF Shots, Latest, Store!ClosingOdds
    <2>2. Store!Closes' = Store!Closes
      BY DEF Store!Closes, Store!ClosingOdds
    <2>3. StoreInv'
      BY <2>1 DEF StoreInv, StoreTyped, OnRecord
    <2> QED
      BY <2>2, <2>3 DEF Store!History!vars
  <1> QED
    BY <1>1, <1>2, StoreSteps

\* The rows written only on change implement OddsHistory: whatever fails, unheard or lost
\* with the process, in either order of memory and write, for any quotes and prices, the
\* close before any kickoff is the price on offer in the last cycle before it
\* (_persist_snapshots, capture_once, closing_odds_from_snapshots).
THEOREM Store_KeepsHistory == Spec => KeepsHistory
  <1>1. Init => StoreInv /\ Store!History!Init
    BY StoreInitInv DEF Init
  <1> QED
    BY <1>1, StoreNextInv, PTL DEF Spec, KeepsHistory, Store!KeepsHistory, Store!History!Spec
=============================================================================
