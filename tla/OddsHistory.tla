---------------------------- MODULE OddsHistory ----------------------------
(***************************************************************************)
(* What the odds history promises its readers (closing lines, backtests,   *)
(* line movement), the abstract specification that SnapshotStore           *)
(* implements: after each capture cycle it shows the prices on offer in    *)
(* that cycle, as if all of them were written every time.  Prices of       *)
(* events whose write is known to have failed stay what they were; after a *)
(* commit that nobody heard of, the price may be either.                   *)
(***************************************************************************)
EXTENDS Sequences, Naturals

CONSTANTS
    Quotes,          \* event, bookmaker, market and selection
    Prices,
    NoPrice,         \* not quoted, nothing recorded
    EventOf          \* the event of a quote

VARIABLES
    shown,           \* per finished cycle: the price shown for each quote
    offer,           \* the prices on offer in the running cycle
    failed,          \* events the last cycle reports as not recorded
    doubtful         \* quotes with a commit nobody heard of

vars == <<shown, offer, failed, doubtful>>

Init ==
    /\ shown = <<>> /\ failed = {} /\ doubtful = {}
    /\ offer = [q \in Quotes |-> NoPrice]

Before(q) == IF shown = <<>> THEN NoPrice ELSE shown[Len(shown)][q]

Capture ==
    /\ offer' \in [Quotes -> Prices \cup {NoPrice}]
    /\ UNCHANGED <<shown, failed, doubtful>>

\* What a cycle may leave behind of a quote.
Shows(q, price) ==
    IF offer[q] = NoPrice THEN price = Before(q)
    ELSE IF q \in doubtful \cup doubtful' THEN price \in {Before(q), offer[q]}
    ELSE IF EventOf[q] \in failed' THEN price = Before(q)
    ELSE price = offer[q]

Record ==
    /\ Len(shown') = Len(shown) + 1
    /\ SubSeq(shown', 1, Len(shown)) = shown
    /\ \A q \in Quotes : Shows(q, shown'[Len(shown) + 1][q])
    /\ \A q \in doubtful' \ doubtful : EventOf[q] \in failed'
    /\ UNCHANGED offer

Next == Capture \/ Record

Spec == Init /\ [][Next]_vars
=============================================================================
