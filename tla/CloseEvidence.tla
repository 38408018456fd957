---------------------------- MODULE CloseEvidence ----------------------------
(***************************************************************************)
(* What a close proves.  A close is evidence of the price taken only if    *)
(* its source is a sharp one that said something new: the writers stamp a  *)
(* verdict and the reason of it beside the close, and three readers decide *)
(* by the stamped columns which settled picks they trust.                  *)
(*                                                                         *)
(*   app/edge/value.py            close_is_mint_echo,                      *)
(*                                persisted_close_independent,             *)
(*                                close_exclusion_reason                   *)
(*   app/clv_trueup.py            revalidate_open_picks,                   *)
(*                                _drop_stale_sharp_echoes,                *)
(*                                finalize_closing_from_snapshots          *)
(*   app/storage/repositories.py  persist_pick, update_pick_stake,         *)
(*                                _aggregate_settled,                      *)
(*                                _settled_close_is_trusted                *)
(*   app/backtesting/live_evidence.py  SettledPickRow.sharp_close          *)
(*                                                                         *)
(* One pick, whose anchor book every writer has recorded.  The fill is at  *)
(* a soft book, so no book prices its own close; a close so far from the   *)
(* fill that the writers refuse it is no close.  The cohort that one       *)
(* parser's fix left with closes of another product is left out.           *)
(***************************************************************************)
EXTENDS Integers

CONSTANTS
    KickoffAt,       \* the instant of kickoff; bound: instants go on to it
    CloseGap,        \* SNAPSHOT_CLOSE_MAX_GAP
    MaxDetections    \* bound: times the pick is detected

EvidenceAssumption ==
    KickoffAt \in Nat /\ CloseGap \in Nat /\ MaxDetections \in Nat

\* The exchange and the soft books are scraped; Pinnacle is captured into an archive.
Sharps == {"pinnacle", "exchange"}
Archived == {"pinnacle"}
Scraped == {"exchange", "consensus"}
Sources == Archived \cup Scraped

Instants == 0 .. KickoffAt
Never == -1

VARIABLES
    instant,
    sighted,         \* source |-> when its newest row of the pick's market was captured
    bet,             \* the pick's row
    detections,
    priced           \* history: when, and against which anchor, the prices held were taken

evidenceVars == <<instant, sighted, bet, detections, priced>>

----------------------------------------------------------------------------
(* The row.  Of a close's fair probability it matters whether it moved     *)
(* from the mint's and, if so, was devigged as the mint's was, and whether *)
(* the CLV is extreme; a price that replaces another leaves no close.      *)

Reasons == {"circular_self_priced", "stale_echo", "tautological",
            "asymmetric_devig_fallback", "fabricated", "no_snapshot_close", "trusted"}

Fairs ==
    { f \in [moved : BOOLEAN, sameMethod : BOOLEAN, extreme : BOOLEAN] :
        f.moved \/ (f.sameMethod /\ ~f.extreme) }

Closes == [anchor : Sources, at : Instants, fair : Fairs, independent : BOOLEAN,
           reason : Reasons]

\* staked: a premium row, the settled stake is not zero.  Only a re-price can spread it over
\* several books.
Bets == [status : {"none", "open", "settled"},
         created : Instants, anchor : Sources,
         staked : BOOLEAN, repriced : BOOLEAN,
         close : {<<>>} \cup [1 .. 1 -> Closes], snap : BOOLEAN]

EvidenceTypeOK ==
    /\ instant \in Instants
    /\ sighted \in [Sources -> Instants \cup {Never}]
    /\ bet \in Bets
    /\ detections \in 0 .. MaxDetections
    /\ priced \subseteq [at : Instants, anchor : Sources]

EvidenceInit ==
    /\ instant = 0
    /\ sighted \in [Sources -> {instant, Never}]
    /\ bet = [status |-> "none", created |-> 0, anchor |-> "consensus",
              staked |-> FALSE, repriced |-> FALSE, close |-> <<>>, snap |-> FALSE]
    /\ detections = 0 /\ priced = {}

Seen(sources) == { s \in sources : sighted[s] # Never }

\* Time passes; up to kickoff a scrape or a capture sees prices of some sources.
Observe(sources) ==
    /\ instant < KickoffAt /\ instant' = instant + 1
    /\ sources = {} \/ instant' < KickoffAt
    /\ sighted' = [s \in Sources |-> IF s \in sources THEN instant' ELSE sighted[s]]
    /\ UNCHANGED <<bet, detections, priced>>

----------------------------------------------------------------------------
(* The price: persist_pick and update_pick_stake, in one transaction.      *)

Detects(anchor) ==
    /\ instant < KickoffAt /\ detections < MaxDetections /\ anchor \in Seen(Sources)
    /\ detections' = detections + 1
    /\ UNCHANGED <<instant, sighted>>

Priced(anchor) == [bet EXCEPT !.anchor = anchor, !.close = <<>>, !.snap = FALSE]

\* A new row, or a volume row promoted: the settlement basis and created_at start afresh.
\* A premium pick that is granted no stake becomes a volume one.
Insert(anchor, granted) ==
    /\ Detects(anchor)
    /\ bet.status = "none" \/ (bet.status = "open" /\ ~bet.staked)
    /\ bet' = [Priced(anchor) EXCEPT
                 !.status = "open", !.created = instant, !.repriced = FALSE,
                 !.staked = granted]
    /\ priced' = {[at |-> instant, anchor |-> anchor]}

\* Another price or venue for a premium row: created_at stays, and so does the basis but
\* for the stake granted on top.
Reprice(anchor) ==
    /\ Detects(anchor)
    /\ bet.status = "open" /\ bet.staked
    /\ bet' = [Priced(anchor) EXCEPT !.repriced = TRUE]
    /\ priced' = priced \cup {[at |-> instant, anchor |-> anchor]}

----------------------------------------------------------------------------
(* The verdict.                                                            *)

\* _settlement_fill_for_clv: no single book and moment stand behind the stake.
Mixed == bet.staked /\ bet.repriced

\* Fault: a row captured in the instant of the mint passes for an observation since.
MintEchoStrict(anchor, at) == at < bet.created /\ anchor = bet.anchor

\* close_is_mint_echo: the mint's own anchor, not observed since.
MintEcho(anchor, at) == at <= bet.created /\ anchor = bet.anchor

\* persisted_close_independent
Independent(anchor, at, fair) == ~Mixed /\ ~MintEcho(anchor, at) /\ fair.moved

\* Fault: the reason leaves the devig methods to the readers.
ReasonAnyMethod(anchor, at, fair, isSnapshot) ==
    IF Mixed THEN "circular_self_priced"
    ELSE IF ~fair.moved /\ at > bet.created THEN "tautological"
    ELSE IF ~fair.moved \/ MintEcho(anchor, at) THEN "stale_echo"
    ELSE IF fair.extreme THEN "fabricated"
    ELSE IF ~isSnapshot THEN "no_snapshot_close" ELSE "trusted"

\* close_exclusion_reason: the first guard the close trips.
Reason(anchor, at, fair, isSnapshot) ==
    IF Mixed THEN "circular_self_priced"
    ELSE IF ~fair.moved /\ at > bet.created THEN "tautological"
    ELSE IF ~fair.moved \/ MintEcho(anchor, at) THEN "stale_echo"
    ELSE IF ~fair.sameMethod THEN "asymmetric_devig_fallback"
    ELSE IF fair.extreme THEN "fabricated"
    ELSE IF ~isSnapshot THEN "no_snapshot_close" ELSE "trusted"

\* _anchor_capture_time: the anchor's newest row; of a consensus, the group's newest.
CaptureTime(anchor, group) ==
    IF anchor \in Sharps THEN sighted[anchor]
    ELSE CHOOSE at \in { sighted[s] : s \in group } : \A s \in group : at >= sighted[s]

\* A source among those with rows anchors the fair, over the rows that form a group: a
\* sharp source that prices only part of the market gives way.
Stamped(rows, isSnapshot) ==
    LET anchored == UNION { { <<a, CaptureTime(a, group)>> : a \in group } :
                              group \in SUBSET rows }
    IN  { <<[anchor |-> c[1], at |-> c[2], fair |-> fair,
             independent |-> Independent(c[1], c[2], fair),
             reason |-> Reason(c[1], c[2], fair, isSnapshot)]>> :
          c \in anchored, fair \in Fairs }

\* revalidate_open_picks: what this cycle scraped, and the archive.
Revalidate ==
    /\ bet.status = "open" /\ instant < KickoffAt
    /\ LET rows == { s \in Scraped : sighted[s] = instant } \cup Seen(Archived)
       IN  bet' \in { [bet EXCEPT !.close = close] : close \in Stamped(rows, FALSE) }
    /\ UNCHANGED <<instant, sighted, detections, priced>>

Fresh(sources) == \E s \in Seen(sources) : KickoffAt - sighted[s] <= CloseGap

\* _drop_stale_sharp_echoes
StaleEchoes ==
    { s \in Seen(Archived) : ~Fresh({s}) /\ MintEcho(s, sighted[s]) }

\* finalize_closing_from_snapshots: a scrape that stopped early is not used, however a
\* sharp source may be as old as it is beside one that did not.
Finalized ==
    LET sharp == Seen(Archived) \ StaleEchoes
        rows == (IF Fresh(Scraped) THEN Seen(Scraped) ELSE {}) \cup sharp
    IN  IF Fresh(Scraped) \/ Fresh(sharp)
          THEN { [bet EXCEPT !.close = close, !.snap = TRUE] : close \in Stamped(rows, TRUE) }
          ELSE {}

\* The result and, where the snapshots cover it, the close.
Settle ==
    /\ bet.status = "open"
    /\ bet' \in { [b EXCEPT !.status = "settled"] : b \in {bet} \cup Finalized }
    /\ UNCHANGED <<instant, sighted, detections, priced>>

\* A request that records the result again takes the close again.
Refinalize ==
    /\ bet.status = "settled"
    /\ bet' \in Finalized
    /\ UNCHANGED <<instant, sighted, detections, priced>>

----------------------------------------------------------------------------
(* The readers.                                                            *)

Close == bet.close[1]

\* _settlement_close_independent_expr
ReadIndependent == ~bet.repriced /\ Close.independent

Tautological == ~Close.fair.moved

Asymmetric == ~Close.fair.sameMethod

\* The headline of the performance report.
CountsInHeadline ==
    /\ bet.close # <<>> /\ ~Tautological
    /\ bet.snap /\ Close.anchor \in Sharps /\ ReadIndependent /\ ~Asymmetric

\* The cells that decide how much evidence a market has.
CountsInCells ==
    /\ bet.close # <<>> /\ bet.snap
    /\ Close.anchor \in Sharps /\ ReadIndependent /\ ~Tautological /\ ~Asymmetric

\* The stratified report, which leaves the close itself to the snapshot marker.
CountsInReport ==
    /\ bet.snap /\ Close.anchor \in Sharps /\ ReadIndependent
    /\ ~Tautological /\ ~Asymmetric

----------------------------------------------------------------------------

EvidenceNext ==
    \/ \E sources \in SUBSET Sources : Observe(sources)
    \/ \E anchor \in Sources, granted \in BOOLEAN : Insert(anchor, granted)
    \/ \E anchor \in Sources : Reprice(anchor)
    \/ Revalidate \/ Settle \/ Refinalize

EvidenceSpec == EvidenceInit /\ [][EvidenceNext]_evidenceVars

----------------------------------------------------------------------------
(* Properties.                                                             *)

\* A close that is counted as evidence tells something the prices held did not: its source
\* is another than the one a price was compared with, or was observed after that price was
\* taken; also after promotions, re-prices and a result recorded twice.
TrustedIsEvidence ==
    bet.status = "settled" /\ CountsInHeadline =>
        \A p \in priced : Close.at > p.at \/ Close.anchor # p.anchor

\* Writers and readers, four times the same rule in other words, agree on every settled
\* pick: the readers with one another, and with the stored reason but for the magnitude
\* it alone looks at.
OneVerdict ==
    bet.status = "settled" =>
        /\ CountsInHeadline = CountsInCells /\ CountsInCells = CountsInReport
        /\ CountsInHeadline =>
             Close.reason = (IF Close.fair.extreme THEN "fabricated" ELSE "trusted")
        /\ bet.close # <<>> /\ Close.reason = "trusted" /\ Close.anchor \in Sharps
             => CountsInHeadline
=============================================================================
