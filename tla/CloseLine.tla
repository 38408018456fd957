------------------------------ MODULE CloseLine ------------------------------
(***************************************************************************)
(* The closing line of a pick: who writes it and for which price.  The     *)
(* poll cycle mints or re-prices a pick and then revalidates every open    *)
(* one; settlement, on its own connection, writes the result and the close *)
(* of the snapshot history; the dashboard does the same by hand.  Rows are *)
(* read without a lock and flushed column by column, so a transaction      *)
(* writes over what was committed since it read.                           *)
(*                                                                         *)
(*   app/storage/repositories.py  persist_pick, _supersede_older_versions  *)
(*   app/clv_trueup.py            revalidate_open_picks,                   *)
(*                                finalize_closing_from_snapshots          *)
(*   app/settlement/engine.py     settle_open_picks, settle_event_picks,   *)
(*                                _settle_one                              *)
(*   app/api/routes.py            record_result                            *)
(*                                                                         *)
(* One opportunity: the same selection under each strategy version.  Its   *)
(* kickoff is known.  A cycle that began before kickoff is over before     *)
(* SETTLE_DELAY has passed after it.                                       *)
(***************************************************************************)
EXTENDS Naturals

CONSTANTS
    Versions,        \* 1 .. n: the strategy versions, a pick of each
    SkipLimit,       \* CLV_IMPLAUSIBLE_SKIP_LIMIT
    MaxPolls,        \* bound: poll cycles
    MaxSlips,        \* bound: commits that fail, mentions no channel takes, restarts
    MaxByHand        \* bound: dashboard requests that settle

CloseAssumption ==
    /\ 1 \in Versions /\ Versions \subseteq Nat
    /\ {SkipLimit, MaxPolls, MaxSlips, MaxByHand} \subseteq Nat

Settlers == {"job", "request"}

VARIABLES
    time,            \* of the fixture: before kickoff, playing, due for settlement
    row,             \* the committed row of each pick
    result,          \* picks with a result_tracking row
    version,         \* the strategy version the process runs
    skipStreak,      \* _implausible_skip_streak, in memory
    cycle,           \* the poll cycle
    tx,              \* the settlement job's transaction and a request's
    polls, slips, requests,
    mentioned,       \* history: value-lost mentions sent ...
    missed,          \* ... and given up on, or never known to be due
    losses,          \* history: committed crossings of the floor
    byHand           \* history: picks a request settled, or was about to

closeVars == <<time, row, result, version, skipStreak, cycle, tx, polls, slips,
               requests, mentioned, missed, losses, byHand>>

----------------------------------------------------------------------------
(* A price is named by the cycle that detected it.  A close belongs to the *)
(* price it was compared with; snap is has_snapshot_close and gaveUp the   *)
(* terminal state of a pick whose close was never plausible.               *)

QuotedBy == 0 .. MaxPolls

NoClose == [by |-> "none", price |-> 0]

Row == [status : {"none", "alerted", "superseded", "settled"},
        tier : {"volume", "premium"}, price : QuotedBy,
        close : [by : {"none", "poll", "snapshot"}, price : QuotedBy],
        snap : BOOLEAN, gaveUp : BOOLEAN, lost : BOOLEAN]

Absent == [status |-> "none", tier |-> "volume", price |-> 0, close |-> NoClose,
           snap |-> FALSE, gaveUp |-> FALSE, lost |-> FALSE]

Verdicts == {"skip", "giveUp", "below", "above"}

Idle == [step |-> "idle", early |-> FALSE, seen |-> <<>>, tier |-> "volume",
         verdict |-> <<>>, unsent |-> {}]

NoTx == [kind |-> "none", seen |-> <<>>]

CloseTypeOK ==
    /\ time \in {"before", "playing", "due"}
    /\ row \in [Versions -> Row] /\ result \subseteq Versions /\ version \in Versions
    /\ skipStreak \in [Versions -> 0 .. SkipLimit]
    /\ cycle.step \in {"idle", "detecting", "minting", "minted", "repricing", "mentioning"}
    /\ cycle.early \in BOOLEAN /\ cycle.tier \in {"volume", "premium"}
    /\ cycle.unsent \subseteq Versions
    /\ \A p \in DOMAIN cycle.verdict : cycle.verdict[p] \in Verdicts
    /\ \A w \in Settlers : tx[w].kind \in {"none", "auto", "event", "record", "finalize"}
    /\ \A seen \in {cycle.seen} \cup { tx[w].seen : w \in Settlers } :
         DOMAIN seen \subseteq Versions /\ \A p \in DOMAIN seen : seen[p] \in Row
    /\ polls \in 0 .. MaxPolls /\ slips \in 0 .. MaxSlips
    /\ \A n \in {mentioned, missed, losses} : n \in [Versions -> 0 .. MaxPolls]
    /\ byHand \subseteq Versions /\ requests \in 0 .. MaxByHand

CloseInit ==
    /\ time = "before"
    /\ row = [p \in Versions |-> Absent] /\ result = {} /\ version = 1
    /\ skipStreak = [p \in Versions |-> 0] /\ cycle = Idle
    /\ tx = [w \in Settlers |-> NoTx]
    /\ polls = 0 /\ slips = 0 /\ requests = 0 /\ byHand = {}
    /\ mentioned = [p \in Versions |-> 0] /\ missed = mentioned /\ losses = mentioned

\* The rows a statement that asks for open picks returns.
Open == [p \in { q \in Versions : row[q].status = "alerted" } |-> row[p]]

Plus(count, picks) == [p \in Versions |-> count[p] + IF p \in picks THEN 1 ELSE 0]

histories == <<mentioned, missed, losses>>

----------------------------------------------------------------------------
(* The fixture.                                                            *)

TimePasses ==
    /\ \/ time = "before" /\ time' = "playing"
       \/ time = "playing" /\ ~cycle.early /\ time' = "due"
    /\ UNCHANGED <<row, result, version, skipStreak, cycle, tx, polls, slips, requests,
                   histories, byHand>>

----------------------------------------------------------------------------
(* The poll cycle mints.                                                   *)

BeginCycle ==
    /\ cycle.step = "idle" /\ polls < MaxPolls
    /\ polls' = polls + 1
    /\ cycle' = [Idle EXCEPT !.step = "detecting", !.early = (time = "before")]
    /\ UNCHANGED <<time, row, result, version, skipStreak, tx, slips, requests, histories,
                   byHand>>

\* Fault: a fixture under way is priced all the same.
DetectStarted(tier) ==
    /\ cycle.step = "detecting"
    /\ cycle' = [cycle EXCEPT !.step = "minting", !.tier = tier,
                              !.seen = [p \in {version} |-> row[p]]]
    /\ UNCHANGED <<time, row, result, version, skipStreak, tx, polls, slips, requests,
                   histories, byHand>>

\* Only a fixture known not to have started is priced; persist_pick reads the row.
Detect(tier) ==
    /\ cycle.step = "detecting" /\ cycle.early
    /\ cycle' = [cycle EXCEPT !.step = "minting", !.tier = tier,
                              !.seen = [p \in {version} |-> row[p]]]
    /\ UNCHANGED <<time, row, result, version, skipStreak, tx, polls, slips, requests,
                   histories, byHand>>

NothingDetected ==
    /\ cycle.step = "detecting"
    /\ cycle' = [cycle EXCEPT !.step = "minted"]
    /\ UNCHANGED <<time, row, result, version, skipStreak, tx, polls, slips, requests,
                   histories, byHand>>

\* Fault: the columns the old price left behind stay.
RepricedKeepingClose(p) == [row[p] EXCEPT !.tier = "premium", !.price = polls]

\* What a promotion and a re-price write; value_lost_at is not among it.
Repriced(p) ==
    [row[p] EXCEPT !.tier = "premium", !.price = polls, !.close = NoClose,
                   !.snap = FALSE, !.gaveUp = FALSE]

\* _supersede_older_versions: a volume pick displaces volume picks only.
Displaced(p) ==
    /\ p # version /\ row[p].status = "alerted"
    /\ cycle.tier = "premium" \/ row[p].tier # "premium"

\* persist_pick decides by the row it has read and writes to the row as it is by then.
Mint(moved) ==
    LET seen == cycle.seen[version]
        inserts == row[version].status = "none"
        isOpen == seen.status = "alerted" /\ cycle.tier = "premium"
        promotes == ~inserts /\ isOpen /\ seen.tier = "volume"
        reprices == ~inserts /\ isOpen /\ seen.tier = "premium" /\ moved
    IN  /\ cycle.step = "minting"
        /\ cycle' = [cycle EXCEPT !.step = "minted", !.seen = <<>>]
        /\ row' = [p \in Versions |->
             IF p = version /\ inserts
               THEN [Absent EXCEPT !.status = "alerted", !.tier = cycle.tier,
                                   !.price = polls]
             ELSE IF p = version /\ (promotes \/ reprices) THEN Repriced(p)
             ELSE IF (inserts \/ promotes) /\ Displaced(p)
               THEN [row[p] EXCEPT !.status = "superseded"]
             ELSE row[p]]
        /\ UNCHANGED <<time, result, version, skipStreak, tx, polls, slips, requests,
                       histories, byHand>>

----------------------------------------------------------------------------
(* The cycle revalidates: read and judged at once, flushed together.       *)

\* Fault: picks on started fixtures are re-priced too.
RevalidatedAnytime ==
    { p \in DOMAIN Open : ~(row[p].gaveUp /\ row[p].close = NoClose) }

\* Open picks of a fixture that has not started and that were not given up.
Revalidated ==
    { p \in DOMAIN Open : time = "before" /\ ~(row[p].gaveUp /\ row[p].close = NoClose) }

\* The last of SkipLimit implausible closes gives a pick without one up.
GivesUp(p, close) ==
    close[p] = "implausible" /\ skipStreak[p] + 1 >= SkipLimit /\ row[p].close = NoClose

\* close[p]: what the cycle's prices say of the pick.
Revalidate(close) ==
    LET verdict == [p \in Revalidated |->
            IF GivesUp(p, close) THEN "giveUp"
            ELSE IF close[p] \in {"below", "above"} THEN close[p] ELSE "skip"]
    IN  /\ cycle.step = "minted"
        /\ cycle' = [cycle EXCEPT !.step = "repricing", !.verdict = verdict,
                                  !.seen = [p \in Revalidated |-> row[p]]]
        /\ skipStreak' = [p \in Versions |->
             IF p \notin Revalidated \/ close[p] = "unpriced" THEN skipStreak[p]
             ELSE IF verdict[p] # "skip" THEN 0
             ELSE IF skipStreak[p] < SkipLimit THEN skipStreak[p] + 1 ELSE SkipLimit]
        /\ UNCHANGED <<time, row, result, version, tx, polls, slips, requests,
                       histories, byHand>>

\* value_lost_transition: an alerted premium pick falls below the floor.
Crosses(p) ==
    /\ cycle.verdict[p] = "below"
    /\ cycle.seen[p].tier = "premium" /\ ~cycle.seen[p].lost

Verdict(p) ==
    IF cycle.verdict[p] = "giveUp" THEN [row[p] EXCEPT !.gaveUp = TRUE]
    ELSE [row[p] EXCEPT
            !.close = [by |-> "poll", price |-> cycle.seen[p].price],
            !.gaveUp = FALSE,
            !.lost = IF cycle.seen[p].tier = "premium"
                       THEN cycle.verdict[p] = "below" ELSE @]

Crossed == { p \in DOMAIN cycle.verdict : Crosses(p) }

\* The commit is durable: the verdicts are on the rows and the crossings with them.
VerdictsCommit ==
    /\ cycle.step = "repricing"
    /\ row' = [p \in Versions |->
         IF p \in DOMAIN cycle.verdict /\ cycle.verdict[p] # "skip"
           THEN Verdict(p) ELSE row[p]]
    /\ losses' = Plus(losses, Crossed)

Revalidation ==
    /\ VerdictsCommit
    /\ cycle' = [Idle EXCEPT !.step = "mentioning", !.early = cycle.early,
                             !.unsent = Crossed]
    /\ UNCHANGED <<time, result, version, skipStreak, tx, polls, slips, requests,
                   mentioned, missed, byHand>>

\* The commit is durable and its answer is lost: the raise ends the cycle before any
\* mention, and value_lost_at, now set, keeps the crossing from being found again.
RevalidationUnheard ==
    /\ VerdictsCommit
    /\ slips < MaxSlips /\ slips' = slips + 1
    /\ missed' = Plus(missed, Crossed)
    /\ cycle' = Idle
    /\ UNCHANGED <<time, result, version, skipStreak, tx, polls, requests, mentioned,
                   byHand>>

\* Fault: the mentions go out although the commit failed.
RevalidationFailsLate ==
    /\ cycle.step = "repricing" /\ slips < MaxSlips
    /\ slips' = slips + 1
    /\ cycle' = [Idle EXCEPT !.step = "mentioning", !.early = cycle.early,
                             !.unsent = Crossed]
    /\ UNCHANGED <<time, row, result, version, skipStreak, tx, polls, requests, histories,
                   byHand>>

\* The commit fails and nothing of it is durable: no column, no mention; the streaks
\* have moved all the same.
RevalidationFails ==
    /\ cycle.step = "repricing" /\ slips < MaxSlips
    /\ slips' = slips + 1
    /\ cycle' = Idle
    /\ UNCHANGED <<time, row, result, version, skipStreak, tx, polls, requests, histories,
                   byHand>>

\* A mention goes out after the commit, or fails and is only logged.
Mention(p) ==
    /\ p \in cycle.unsent
    /\ cycle' = [cycle EXCEPT !.unsent = @ \ {p}]
    /\ \/ mentioned' = Plus(mentioned, {p}) /\ UNCHANGED <<slips, missed>>
       \/ /\ slips < MaxSlips /\ slips' = slips + 1
          /\ missed' = Plus(missed, {p}) /\ UNCHANGED mentioned
    /\ UNCHANGED <<time, row, result, version, skipStreak, tx, polls, requests, losses,
                   byHand>>

EndCycle ==
    /\ cycle.step = "mentioning" /\ cycle.unsent = {}
    /\ cycle' = Idle
    /\ UNCHANGED <<time, row, result, version, skipStreak, tx, polls, slips, requests,
                   histories, byHand>>

\* The process restarts, as this version or the next.
Restart(v) ==
    /\ v \in {version, version + 1} \cap Versions
    /\ slips < MaxSlips /\ slips' = slips + 1
    /\ version' = v
    /\ missed' = Plus(missed, cycle.unsent)
    /\ skipStreak' = [p \in Versions |-> 0]
    /\ cycle' = Idle /\ tx' = [w \in Settlers |-> NoTx]
    /\ UNCHANGED <<time, row, result, polls, requests, mentioned, losses, byHand>>

----------------------------------------------------------------------------
(* Settlement: the job once the fixture is over, requests whenever they    *)
(* please.                                                                 *)

Reads(w, kind, seen) ==
    /\ tx[w] = NoTx /\ seen # <<>>
    /\ tx' = [tx EXCEPT ![w] = [kind |-> kind, seen |-> seen]]
    /\ UNCHANGED <<time, row, result, version, skipStreak, cycle, polls, slips, histories>>

JobReads ==
    /\ time = "due" /\ Reads("job", "auto", Open)
    /\ UNCHANGED <<requests, byHand>>

RequestReads ==
    /\ requests < MaxByHand /\ requests' = requests + 1
    /\ \/ Reads("request", "event", Open) /\ byHand' = byHand \cup DOMAIN Open
       \/ \E p \in Versions :
            /\ row[p].status # "none"
            /\ Reads("request", "record", [q \in {p} |-> row[q]])
            /\ byHand' = byHand \cup {p}

\* finalize_closing_from_snapshots, for the price the transaction has read.
Closed(w, p) ==
    [row[p] EXCEPT !.close = [by |-> "snapshot", price |-> tx[w].seen[p].price],
                   !.snap = TRUE, !.gaveUp = FALSE]

\* The picks graded get result and status; those the snapshots cover get their close.
\* A pick that has a result by now is left alone.
Settles(w, graded, covered) ==
    /\ tx[w].kind \in {"auto", "event"}
    /\ graded \subseteq DOMAIN tx[w].seen \ result /\ covered \subseteq graded
    /\ result' = result \cup graded
    /\ row' = [p \in Versions |->
         LET after == IF p \in covered THEN Closed(w, p) ELSE row[p]
         IN  IF p \in graded THEN [after EXCEPT !.status = "settled"] ELSE after]
    /\ tx' = [tx EXCEPT ![w] = NoTx]
    /\ UNCHANGED <<time, version, skipStreak, cycle, polls, slips, requests, histories,
                   byHand>>

\* record_result commits the user's result first ...
Records ==
    LET w == "request" IN
    /\ tx[w].kind = "record"
    /\ result' = result \cup DOMAIN tx[w].seen
    /\ row' = [p \in Versions |->
         IF p \in DOMAIN tx[w].seen THEN [row[p] EXCEPT !.status = "settled"] ELSE row[p]]
    /\ tx' = [tx EXCEPT ![w].kind = "finalize"]
    /\ UNCHANGED <<time, version, skipStreak, cycle, polls, slips, requests, histories,
                   byHand>>

\* ... and then the close, if there is one and nothing fails.
Finalizes(covered) ==
    LET w == "request" IN
    /\ tx[w].kind = "finalize" /\ covered \subseteq DOMAIN tx[w].seen
    /\ row' = [p \in Versions |-> IF p \in covered THEN Closed(w, p) ELSE row[p]]
    /\ tx' = [tx EXCEPT ![w] = NoTx]
    /\ UNCHANGED <<time, result, version, skipStreak, cycle, polls, slips, requests,
                   histories, byHand>>

----------------------------------------------------------------------------

CloseNext ==
    \/ TimePasses \/ BeginCycle \/ NothingDetected
    \/ \E tier \in {"volume", "premium"} : Detect(tier)
    \/ \E moved \in BOOLEAN : Mint(moved)
    \/ \E close \in [Revalidated -> {"unpriced", "implausible", "below", "above"}] :
         Revalidate(close)
    \/ Revalidation \/ RevalidationUnheard \/ RevalidationFails \/ EndCycle
    \/ \E p \in Versions : Mention(p)
    \/ \E v \in Versions : Restart(v)
    \/ JobReads \/ RequestReads \/ Records
    \/ \E w \in Settlers, graded, covered \in SUBSET Versions : Settles(w, graded, covered)
    \/ \E covered \in SUBSET Versions : Finalizes(covered)

CloseSpec == CloseInit /\ [][CloseNext]_closeVars

----------------------------------------------------------------------------
(* Properties.  A request may settle a pick before its kickoff, while the  *)
(* cycle has it in hand; whichever flushes last then wins, column by       *)
(* column.  What a request settles is left out where that matters.         *)

\* Every committed crossing of the floor is mentioned once, or missed because a channel
\* refused, the process ended or the answer to the commit was lost: none is mentioned for
\* a commit that failed, none twice, whatever restarts or is settled meanwhile.
MentionsMatchLosses ==
    \A p \in Versions :
        losses[p] = mentioned[p] + missed[p] + (IF p \in cycle.unsent THEN 1 ELSE 0)

\* A close is that of the price the pick is held at: no re-price, promotion or late
\* flush leaves the close of another price on the row.
CloseIsOfThePrice ==
    \A p \in Versions \ byHand :
        row[p].close # NoClose => row[p].close.price = row[p].price

\* The close that settlement takes from the snapshots is final.
FinalCloseStands ==
    [][ \A p \in Versions \ byHand' :
          row[p].snap /\ row[p].status = "settled" =>
              row'[p].close = row[p].close /\ row'[p].snap ]_closeVars

\* One opportunity counts once as a premium pick, over a change of version between its
\* mint and its settlement.
OnePremiumCounted ==
    \A p, q \in result \ byHand :
        row[p].tier = "premium" /\ row[q].tier = "premium" => p = q
=============================================================================
