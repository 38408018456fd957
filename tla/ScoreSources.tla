----------------------------- MODULE ScoreSources -----------------------------
(***************************************************************************)
(* Which score an open pick is settled with, and when it is given up.      *)
(* Result feeds publish rows by team names and date, each source at its    *)
(* own time and in its own spelling; the capture job reads the score off   *)
(* the pick's own match page, which shows a running score while the match  *)
(* is played.  The settlement cycle asks the feeds first, then the page;   *)
(* age voids what no source answers.                                       *)
(*                                                                         *)
(*   app/settlement/results.py     ScoreBook.lookup, load_scores           *)
(*   app/ingestion/espn_scores.py  the parsers, fetch_espn_scores          *)
(*   app/clv_trueup.py             capture_finished_scores                 *)
(*   app/settlement/engine.py      run_settlement_cycle and its passes     *)
(*                                                                         *)
(* Several games can be mistaken for one another: the same pairing on      *)
(* consecutive days, the women's match of the clubs, a club whose name     *)
(* contains another's.  The races of the writes are in Settlement.         *)
(***************************************************************************)
EXTENDS Integers

CONSTANTS
    Pairing,         \* the two clubs of each game
    Held,            \* games there are picks on
    Markers,         \* women, youth or reserve marker of a game's names
    Likeness,        \* names of different clubs that _names_match takes for the same
    KickoffOf,       \* in ticks
    DayLength,       \* ticks of a UTC day
    Playing,         \* ticks a match lasts
    SoftFloor,       \* _RESULTS_SOFT_FLOOR
    SettleDelay,     \* settle_delay_for
    FullFloor,       \* _FINISHED_FLOOR
    ScoreWindow,     \* SCORE_WINDOW and RESULTS_SCRAPE_WINDOW
    VoidAge,         \* STALE_UNSETTLEABLE_AGE
    ExpireAge,       \* settlement_expire_days
    LastTick         \* bound: the clock stops there

Fixtures == DOMAIN Pairing

(* A match is over when its floors have passed; void and expiry come after     *)
(* the window of the sources.                                                  *)
ScoreAssumption ==
    /\ Held \subseteq Fixtures /\ \A g \in Fixtures : KickoffOf[g] \in Nat
    /\ {DayLength, Playing, SoftFloor, SettleDelay, FullFloor, ScoreWindow, VoidAge, ExpireAge,
        LastTick} \subseteq Nat
    /\ DayLength > 0
    /\ SoftFloor < Playing /\ Playing <= SettleDelay /\ Playing <= FullFloor
    /\ ScoreWindow < VoidAge /\ VoidAge < ExpireAge
    /\ \A g \in Held : KickoffOf[g] + ExpireAge < LastTick

VARIABLES
    hour,            \* the clock
    pick,            \* the open pick: its game, sport, and whether scores grade its market
    overtime,        \* its game is decided after normal time
    published,       \* how the feeds list each game, "not" before they do
    matchPage,       \* what the directory last registered of its match page
    captured,        \* the event's scraped score
    verdict,         \* "open", "void", or the score it was settled with and its game
    blind,           \* history: the feeds had no row of its game under its own date
    statusless       \* history: the captured score came without a status

scoreVars == <<hour, pick, overtime, published, matchPage, captured, verdict, blind, statusless>>

own == pick.game
Date(g) == KickoffOf[g] \div DayLength
Over(g) == hour >= KickoffOf[g] + Playing
Age == hour - KickoffOf[own]

\* Once there is a verdict, nothing else matters: the world stops.
Open == verdict.value = "open"

\* In another spelling, or by the local date of an evening game.
Listings == {"not", "exact", "alike", "local"}

NoPage == [score |-> "none", finished |-> "unknown"]

ScoreInit ==
    /\ hour = 0
    /\ pick \in [game : Held, tennis : BOOLEAN, gradeable : BOOLEAN]
    /\ overtime \in BOOLEAN
    /\ pick.tennis => ~overtime
    /\ published = [g \in Fixtures |-> "not"]
    /\ matchPage = NoPage /\ captured = "none"
    /\ verdict = [of |-> own, value |-> "open"] /\ blind = FALSE /\ statusless = FALSE

----------------------------------------------------------------------------
(* The feeds.                                                              *)

\* What the parsers pass on: finals decided in normal time; of tennis, complete results.
Emitted(g) == Over(g) /\ (g = own => ~overtime)

\* The source lists a game, sooner or later or never.
Publish(g, listing) ==
    /\ Open /\ Emitted(g) /\ published[g] = "not" /\ listing # "not"
    /\ Markers[g] # "senior" \/ Pairing[g] # Pairing[own] => listing = "exact"
    /\ published' = [published EXCEPT ![g] = listing]
    /\ UNCHANGED <<hour, pick, overtime, matchPage, captured, verdict, blind, statusless>>

\* The rows of the games a fetch brought, as parsed.
Row(g) ==
    [game |-> g, value |-> "final", exact |-> published[g] # "alike",
     date |-> IF published[g] = "local" THEN Date(g) - 1 ELSE Date(g)]

(* A source, or a single date of one, may fail, and the cache may be half an   *)
(* hour old: any part of what is published, back to the window.                *)
Fetches ==
    { {Row(g) : g \in found} :
        found \in SUBSET {g \in Fixtures :
                            published[g] # "not" /\ KickoffOf[g] >= hour - ScoreWindow} }

----------------------------------------------------------------------------
(* ScoreBook.lookup                                                        *)

\* Normalized names equal ours.
Same(row) ==
    /\ row.exact /\ Pairing[row.game] = Pairing[own] /\ Markers[row.game] = Markers[own]

Exactly(book, date) == {row \in book : Same(row) /\ row.date = date}

\* _names_match without _markers_agree. Fault: the marker veto is missing.
ContainedUnvetoed(book, date) ==
    {row \in book :
        /\ Pairing[row.game] = Pairing[own] \/ {Pairing[row.game], Pairing[own]} \in Likeness
        /\ row.date = date}

\* _contained: alike in name, and of one mind about women, youth and reserves.
Contained(book, date) ==
    {row \in book :
        /\ Pairing[row.game] = Pairing[own] \/ {Pairing[row.game], Pairing[own]} \in Likeness
        /\ Markers[row.game] = Markers[own]
        /\ row.date = date}

\* The adjacent dates count when only one of them has an answer.
Adjacent(before, after) ==
    IF before # {} /\ after # {} THEN {} ELSE before \cup after

\* Several candidates are no answer; two games of one score do not occur here.
Unique(rows) == IF \E row, other \in rows : row # other THEN {} ELSE rows

\* The rows lookup may return: of several under one exact key, whichever came last.
Lookup(book) ==
    LET date == Date(own)
        Exact(d) == Exactly(book, d)
        Alike(d) == Contained(book, d)
        twice == Exact(date - 1) # {} /\ Exact(date + 1) # {}
        near == Adjacent(Exact(date - 1), Exact(date + 1))
    IN  CASE Exact(date) # {} -> Exact(date)
          [] Exact(date) = {} /\ (twice \/ near # {}) -> near
          [] OTHER -> Unique(IF Alike(date) # {} THEN Alike(date)
                            ELSE Adjacent(Alike(date - 1), Alike(date + 1)))

----------------------------------------------------------------------------
(* The match page.                                                         *)

\* What the header shows: a running score during play; none once it carries the marker of
\* extra time; the status may be missing.
Shown ==
    IF hour < KickoffOf[own] THEN [score : {"none"}, finished : {"no", "unknown"}]
    ELSE IF ~Over(own) THEN [score : {"none", "partial"}, finished : {"no", "unknown"}]
    ELSE [score : {IF overtime THEN "none" ELSE "final"},
          finished : {"yes", "unknown"}]

\* A page without a score, or one that says the match is not over, is as good as none.
Capturable(shown) == shown.score # "none" /\ shown.finished # "no"

\* A poll or a revalidation of the event, until its score is captured.
Register(shown) ==
    /\ Open /\ captured = "none"
    /\ matchPage' = IF Capturable(shown) THEN shown ELSE NoPage
    /\ UNCHANGED <<hour, pick, overtime, published, captured, verdict, blind, statusless>>

\* The directory lives in memory.
Restart ==
    /\ Open /\ captured = "none" /\ matchPage' = NoPage
    /\ UNCHANGED <<hour, pick, overtime, published, captured, verdict, blind, statusless>>

\* Fault: a score without a status is taken as soon as the soft floor has passed.
CaptureSoon(shown) ==
    /\ Open /\ captured = "none"
    /\ Age > SoftFloor /\ Age < ScoreWindow
    /\ Capturable(shown)
    /\ matchPage' = shown /\ captured' = shown.score
    /\ statusless' = (shown.finished = "unknown")
    /\ UNCHANGED <<hour, pick, overtime, published, verdict, blind>>

(* _scrape_one_finished_score: the fetch registers what the page shows, or, if *)
(* it brought nothing without raising, leaves what was registered before.      *)
Capture(shown) ==
    /\ Open /\ captured = "none"
    /\ Age > SoftFloor /\ Age < ScoreWindow
    /\ Capturable(shown)
    /\ shown.finished = "yes" \/ Age > FullFloor
    /\ matchPage' = shown /\ captured' = shown.score
    /\ statusless' = (shown.finished = "unknown")
    /\ UNCHANGED <<hour, pick, overtime, published, verdict, blind>>

----------------------------------------------------------------------------
(* The settlement cycle.                                                   *)

\* void_unsettleable_known_kickoff_picks
TooOld == Age > VoidAge /\ captured = "none"

\* Fault: beyond the window of the sources a pick is no longer looked at.
EligibleInWindow == Age >= SettleDelay /\ Age <= ScoreWindow

Eligible == Age >= SettleDelay

(* _load_scraped_finals: the score of its own event and those of other open    *)
(* picks' events, by kickoff; never of tennis, whose pages do not tell a       *)
(* retirement.                                                                 *)
Scraped(others) ==
    LET Of(g, value) == [game |-> g, value |-> value, exact |-> TRUE, date |-> Date(g)]
    IN  IF pick.tennis THEN {}
        ELSE { Of(own, score) : score \in {captured} \ {"none"} }
               \cup { Of(g, "final") : g \in others }

\* Its own row under its own date, which no other game's row shadows.
Sighted(book) ==
    \E row \in book :
        /\ row.game = own /\ row.date = Date(own)
        /\ \A other \in book :
             other.game # own /\ Same(other) =>
                 other.date # row.date /\ (row.exact \/ other.date \notin row.date - 1 .. row.date + 1)

Grade(row, book) ==
    IF pick.gradeable
    THEN verdict' = [of |-> row.game, value |-> row.value] /\ blind' = ~Sighted(book)
    ELSE UNCHANGED <<verdict, blind>>

Voided == verdict' = [of |-> own, value |-> "void"] /\ UNCHANGED blind

(* One cycle: void by age, settle from what the feeds brought, settle from the *)
(* pages what the feeds did not answer, expire what nobody answers.  Without a *)
(* row from any source it is an outage, in which nothing expires.              *)
Cycle(book, others, outage) ==
    LET pages == Scraped(others)
        fed == Lookup(book)
    IN  /\ outage => book \cup pages = {}
        /\ \/ TooOld /\ Voided
           \/ /\ ~TooOld
              /\ \/ \E row \in fed : Grade(row, book)
                 \/ fed = {} /\ \E row \in Lookup(pages) : Grade(row, pages)
                 \/ /\ Age > ExpireAge /\ ~outage /\ Lookup(book \cup pages) = {}
                    /\ Voided

\* The events of other open picks that have a score.
OtherPages == SUBSET {g \in Held \ {own} : Over(g)}

Settle(outage) ==
    /\ Open /\ Eligible
    /\ UNCHANGED <<hour, pick, overtime, published, matchPage, captured, statusless>>
    /\ \E book \in Fetches, others \in OtherPages : Cycle(book, others, outage)

HourPasses ==
    /\ Open /\ hour < LastTick /\ hour' = hour + 1
    /\ UNCHANGED <<pick, overtime, published, matchPage, captured, verdict, blind, statusless>>

ScoreNext ==
    \/ HourPasses \/ Restart
    \/ \E g \in Fixtures, listing \in Listings : Publish(g, listing)
    \/ \E shown \in Shown : Register(shown)
    \/ \E shown \in Shown \cup {matchPage} : Capture(shown)
    \/ \E outage \in BOOLEAN : Settle(outage)

\* Time passes, and the job runs with the feeds at hand.
ScoreFairness ==
    /\ WF_scoreVars(HourPasses)
    /\ WF_scoreVars(Settle(FALSE))

ScoreSpec == ScoreInit /\ [][ScoreNext]_scoreVars /\ ScoreFairness

----------------------------------------------------------------------------
(* Properties.                                                             *)

ScoreTypeOK ==
    /\ hour \in 0 .. LastTick /\ own \in Fixtures
    /\ published \in [Fixtures -> Listings]
    /\ matchPage \in [score : {"none", "partial", "final"}, finished : {"yes", "unknown"}]
    /\ captured \in {"none", "partial", "final"}
    /\ verdict \in [of : Fixtures, value : {"open", "void", "partial", "final"}]
    /\ blind \in BOOLEAN /\ statusless \in BOOLEAN

(* A pick is settled with the final score of its own game.  A running score    *)
(* counts only if it was registered without a status and the fetch after the   *)
(* match brought nothing; another game's score only if the sources had no      *)
(* clear row of its own game, and never that of another category.              *)
GradedByOwnGame ==
    verdict.value \in {"partial", "final"} =>
        \/ verdict = [of |-> own, value |-> "final"]
        \/ verdict.of = own /\ statusless /\ Age > FullFloor
        \/ verdict.of # own /\ blind /\ Markers[verdict.of] = Markers[own]

(* A pick that needs no attention of the cycle any more, or never gets it: one  *)
(* whose page has a score that does not grade its market is left to a person.  *)
Answered == verdict.value # "open" \/ (captured # "none" /\ ~pick.gradeable)

(* Every other pick is settled or void in the end.                             *)
NoPickIsForgotten == []<>Answered
=============================================================================
