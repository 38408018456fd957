---------------------------- MODULE SnapshotStore ----------------------------
(***************************************************************************)
(* The change-only store of odds: a capture cycle writes the prices that   *)
(* differ from its memory of what it wrote, in one transaction with a      *)
(* savepoint per event, and readers rebuild the close of a quote from what *)
(* was stored before kickoff.  Events can fail one by one, the commit can  *)
(* fail, or succeed without an answer (a cancelled cycle, a lost           *)
(* connection), and the memory goes with the process.                      *)
(*                                                                         *)
(*   app/pipeline.py               _persist_snapshots (memory set after    *)
(*                                 the write)                              *)
(*   app/ingestion/betfair_exchange.py, pinnacle_arcadia.py                *)
(*                                 capture_once (memory set before the     *)
(*                                 write and rolled back)                  *)
(*   app/storage/repositories.py   persist_odds_snapshots,                 *)
(*                                 closing_odds_from_snapshots             *)
(***************************************************************************)
EXTENDS Naturals, Sequences, SequencesExt

CONSTANTS
    Quotes,          \* event, bookmaker, market and selection
    Prices,
    NoPrice,         \* not quoted, nothing remembered, nothing recorded
    EventOf,         \* the event of a quote
    MaxCaptures,     \* bound: capture cycles
    MaxAccidents     \* bound: commits without answer and deaths

StoreAssumption == MaxCaptures \in Nat /\ MaxAccidents \in Nat

VARIABLES
    gateFirst,       \* the capture's memory is set before the write
    stored,          \* committed rows per quote: price and capture cycle
    memory,          \* odds_seen, _seen_price
    gate,            \* the memory to roll back to (gate_prior)
    offer,           \* what the running cycle observed
    writing,         \* a cycle is between its fetch and its end
    captures,        \* finished cycles, the clock of captured_at
    failed,          \* events the last cycle did not record
    doubtful,        \* history: quotes with a commit nobody heard of
    accidents

storeVars == <<gateFirst, stored, memory, gate, offer, writing, captures, failed, doubtful,
               accidents>>

Events == { EventOf[q] : q \in Quotes }

Nothing == [q \in Quotes |-> NoPrice]

Row == [price : Prices, at : 1 .. MaxCaptures]

StoreTypeOK ==
    /\ gateFirst \in BOOLEAN /\ writing \in BOOLEAN
    /\ \A q \in Quotes : ToSet(stored[q]) \subseteq Row
    /\ {memory, gate, offer} \subseteq [Quotes -> Prices \cup {NoPrice}]
    /\ captures \in 0 .. MaxCaptures /\ accidents \in 0 .. MaxAccidents
    /\ failed \subseteq Events /\ doubtful \subseteq Quotes

StoreInit ==
    /\ gateFirst \in BOOLEAN
    /\ stored = [q \in Quotes |-> <<>>]
    /\ memory = Nothing /\ gate = Nothing /\ offer = Nothing
    /\ writing = FALSE /\ captures = 0
    /\ failed = {} /\ doubtful = {} /\ accidents = 0

Listed(q) == offer[q] # NoPrice

\* The quotes whose price differs from the memory before this cycle.
ToWrite == { q \in Quotes : Listed(q) /\ offer[q] # gate[q] }

Attempted == { EventOf[q] : q \in ToWrite }

\* The rows after a commit in which these events failed.
Written(fails) ==
    [q \in Quotes |->
        IF q \in ToWrite /\ EventOf[q] \notin fails
        THEN Append(stored[q], [price |-> offer[q], at |-> captures + 1])
        ELSE stored[q]]

\* Fault: the price counts as seen whether its event was recorded or not.
RememberedAnyway(fails) ==
    memory' = [q \in Quotes |-> IF Listed(q) THEN offer[q] ELSE gate[q]]

\* Only what was recorded is remembered (set after the write, or rolled back).
Remembered(fails) ==
    memory' = [q \in Quotes |->
        IF Listed(q) /\ EventOf[q] \notin fails THEN offer[q] ELSE gate[q]]

\* The fetch: what the books show now; a gate-first capture notes it at once.
Observe(prices) ==
    /\ ~writing /\ captures < MaxCaptures
    /\ offer' = prices /\ writing' = TRUE
    /\ gate' = memory
    /\ memory' = IF gateFirst
                 THEN [q \in Quotes |-> IF prices[q] # NoPrice THEN prices[q] ELSE memory[q]]
                 ELSE memory
    /\ UNCHANGED <<gateFirst, stored, captures, failed, doubtful, accidents>>

EndCapture ==
    writing /\ writing' = FALSE /\ captures' = captures + 1 /\ gate' = Nothing

\* The transaction commits without the events whose savepoint failed, or which an
\* attach-only capture does not find.
Persist(fails) ==
    /\ EndCapture
    /\ stored' = Written(fails) /\ Remembered(fails)
    /\ failed' = fails
    /\ doubtful' = doubtful \ { q \in ToWrite : EventOf[q] \notin fails }
    /\ UNCHANGED <<gateFirst, offer, accidents>>

\* The whole batch is lost with its session.
PersistFails ==
    /\ EndCapture /\ ToWrite # {}
    /\ Remembered(Attempted) /\ failed' = Attempted
    /\ UNCHANGED <<gateFirst, stored, offer, doubtful, accidents>>

Mishap == accidents < MaxAccidents /\ accidents' = accidents + 1

\* The commit took effect, but the cycle was cancelled or lost its connection before it
\* knew: to the memory it is a failure.
PersistUnheard(fails) ==
    /\ EndCapture /\ Mishap /\ ToWrite # {}
    /\ stored' = Written(fails) /\ Remembered(Attempted)
    /\ failed' = Attempted /\ doubtful' = doubtful \cup ToWrite
    /\ UNCHANGED <<gateFirst, offer>>

\* The process dies, before or after the commit, and forgets.
StoreDies(committed) ==
    /\ EndCapture /\ Mishap
    /\ stored' = IF committed THEN Written({}) ELSE stored
    /\ memory' = Nothing /\ failed' = Events
    /\ doubtful' = doubtful \cup ToWrite
    /\ UNCHANGED <<gateFirst, offer>>

\* _sweep_odds_seen and the feeds' caps: a forgotten quote is written once more.
Sweep(q) ==
    /\ ~writing /\ memory[q] # NoPrice
    /\ memory' = [memory EXCEPT ![q] = NoPrice]
    /\ UNCHANGED <<gateFirst, stored, gate, offer, writing, captures, failed, doubtful,
                   accidents>>

StoreNext ==
    \/ \E prices \in [Quotes -> Prices \cup {NoPrice}] : Observe(prices)
    \/ \E fails \in SUBSET Attempted : Persist(fails) \/ PersistUnheard(fails)
    \/ PersistFails
    \/ \E committed \in BOOLEAN : StoreDies(committed)
    \/ \E q \in Quotes : Sweep(q)

StoreSpec == StoreInit /\ [][StoreNext]_storeVars

----------------------------------------------------------------------------
(* Readers.                                                                *)

\* The price of the last captured of some rows.
LastPrice(rows) ==
    IF rows = {} THEN NoPrice
    ELSE (CHOOSE latest \in rows : \A other \in rows : other.at <= latest.at).price

\* Fault: a row at the time of kickoff still counts as a close.
ClosingOddsInPlay(q, kickoff) ==
    LastPrice({ shot \in ToSet(stored[q]) : shot.at <= kickoff })

\* closing_odds_from_snapshots: the last row captured strictly before kickoff.
ClosingOdds(q, kickoff) ==
    LastPrice({ shot \in ToSet(stored[q]) : shot.at < kickoff })

\* The close for a kickoff after each of the cycles.
Closes == [n \in 1 .. captures |-> [q \in Quotes |-> ClosingOdds(q, n + 1)]]

\* The store implements OddsHistory: whatever failed before and wherever kickoff falls,
\* the close rebuilt from the changes is the price on offer in the last cycle before
\* it.  Every failed event is retried: a price the memory suppresses is on record.
History == INSTANCE OddsHistory WITH
    Quotes <- Quotes, Prices <- Prices, NoPrice <- NoPrice, EventOf <- EventOf,
    shown <- Closes, offer <- offer, failed <- failed, doubtful <- doubtful

KeepsHistory == History!Spec
=============================================================================
