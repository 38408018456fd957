------------------------------- MODULE Grading -------------------------------
(***************************************************************************)
(* How a selection is graded from a final score: Asian and European        *)
(* handicaps, quarter lines, ties of two-way markets, tennis retirements   *)
(* and the refusal to read games into a score of sets.                     *)
(*                                                                         *)
(*   app/settlement/outcomes.py   settle_selection,                        *)
(*                                settle_selection_retired, pick_pnl       *)
(*   app/settlement/engine.py     _settle_one                              *)
(*                                                                         *)
(* Lines are counted in quarters of a goal.  The two teams are called as   *)
(* the market lists them; the event may list them the other way round,     *)
(* where two providers' fixtures share one event.                          *)
(***************************************************************************)
EXTENDS Integers, FiniteSetsExt

CONSTANTS
    Goals,           \* what a team may score
    Lines            \* handicaps and totals, in quarters

GradeAssumption == Goals \subseteq Nat /\ Lines \subseteq Int

VARIABLES
    code,            \* Sport.key
    final,           \* goals (sets, points) of each team
    ending,          \* completion, and the winner of a retired match
    flipped,         \* the event's home team is the market's away team
    axis,            \* what market_detail says a tennis line counts
    slip             \* a market's legs with their grades

gradeVars == <<code, final, ending, flipped, axis, slip>>

Home == IF flipped THEN "away" ELSE "home"
Away == IF flipped THEN "home" ELSE "away"

\* TENNIS_MAX_SET_SUM, _TENNIS_MAX_SET_TOTAL_LINE and _TENNIS_MAX_SET_SPREAD_LINE.
MaxSets == 5
MaxSetTotal == 18
MaxSetSpread == 10

\* _TWO_WAY_H2H_SPORTS and _TWO_WAY_HANDICAP_SPORTS.
TieRefunds == code = "american_football"
TwoWayHandicap == code \in {"basketball", "tennis", "american_football"}

Outcomes == {"won", "lost", "void", "push", "half_won", "half_lost", "refused"}

----------------------------------------------------------------------------
(* Grades.                                                                 *)

Total == final["home"] + final["away"]

\* The margin of a team, found by its name on either side of the event.
Margin(team) ==
    IF team = Home THEN final[Home] - final[Away] ELSE final[Away] - final[Home]

Won(condition) == IF condition THEN "won" ELSE "lost"

\* _ah_component: one half-stake.
Component(margin) ==
    IF margin > 0 THEN "won" ELSE IF margin = 0 THEN "push" ELSE "lost"

IsQuarter(line) == line % 2 # 0

\* _combine_quarter: the stake is split over the adjacent half-lines.
Quarter(margin) ==
    LET halves == {Component(margin - 1), Component(margin + 1)}
    IN  IF halves = {"won"} THEN "won"
        ELSE IF halves = {"lost"} THEN "lost"
        ELSE IF "won" \in halves THEN "half_won" ELSE "half_lost"

\* tennis_set_score_ungradeable
Ungradeable(leg) ==
    /\ code = "tennis" /\ Total <= MaxSets
    /\ \/ leg.market = "spreads"
          /\ (axis # "sets" \/ leg.line > MaxSetSpread \/ -leg.line > MaxSetSpread)
       \/ leg.market = "totals" /\ (axis = "games" \/ leg.line > MaxSetTotal)

H2H(side) ==
    IF side = "Draw" THEN Won(final["home"] = final["away"])
    ELSE IF TieRefunds /\ Margin(side) = 0 THEN "push"
    ELSE Won(Margin(side) > 0)

Totals(side, line) ==
    LET margin == IF side = "Over" THEN 4 * Total - line ELSE line - 4 * Total
    IN  IF IsQuarter(line) THEN Quarter(margin) ELSE Component(margin)

DoubleChance(side) ==
    CASE side = "home or Draw" -> Won(Margin("home") >= 0)
      [] side = "away or Draw" -> Won(Margin("away") >= 0)
      [] side = "home or away" -> Won(Margin("home") # 0)

\* Fault: an adjusted tie loses in every sport.
SpreadsAllEuropean(side, line) ==
    IF side = "Draw"
    THEN Won(4 * final[Home] + line = 4 * final[Away])
    ELSE LET margin == 4 * Margin(side) + line
         IN  IF IsQuarter(line) THEN Quarter(margin) ELSE Won(margin > 0)

\* The draw leg's line is that of the event's home team.
Spreads(side, line) ==
    IF side = "Draw"
    THEN IF line % 4 # 0 THEN "refused" ELSE Won(4 * final[Home] + line = 4 * final[Away])
    ELSE LET margin == 4 * Margin(side) + line
         IN  IF IsQuarter(line) THEN Quarter(margin)
             ELSE IF margin = 0 /\ ~TwoWayHandicap THEN "lost"
             ELSE Component(margin)

\* settle_selection
Settled(leg) ==
    IF Ungradeable(leg) THEN "refused"
    ELSE CASE leg.market = "h2h" -> H2H(leg.side)
           [] leg.market = "totals" -> Totals(leg.side, leg.line)
           [] leg.market = "btts" ->
                Won((leg.side = "Yes") = (final["home"] > 0 /\ final["away"] > 0))
           [] leg.market = "dnb" -> Component(Margin(leg.side))
           [] leg.market = "double_chance" -> DoubleChance(leg.side)
           [] leg.market = "spreads" -> Spreads(leg.side, leg.line)

\* settle_selection_retired: the player who advanced is one of the event's sides.
SettledRetired(leg) ==
    IF leg.market # "h2h" THEN "void"
    ELSE Won(leg.side = IF ending.winner = "home" THEN Home ELSE Away)

\* _settle_one
Grade(leg) ==
    CASE ending.completion = "void" -> "void"
      [] ending.completion = "retired" -> SettledRetired(leg)
      [] ending.completion = "full" -> Settled(leg)

----------------------------------------------------------------------------
(* Markets: the legs a book quotes together, and how many of them win.     *)

Market == {"h2h", "totals", "btts", "dnb", "double_chance", "spreads"}

ThreeWay(market, line) ==
    \/ market = "h2h" /\ code = "soccer"
    \/ market = "double_chance"
    \/ market = "spreads" /\ line % 4 = 0 /\ ~TwoWayHandicap

Sides(market, line) ==
    CASE market \in {"h2h", "spreads"} ->
           {"home", "away"} \cup (IF ThreeWay(market, line) THEN {"Draw"} ELSE {})
      [] market = "totals" -> {"Over", "Under"}
      [] market = "btts" -> {"Yes", "No"}
      [] market = "dnb" -> {"home", "away"}
      [] market = "double_chance" -> {"home or Draw", "away or Draw", "home or away"}

\* The away team's handicap is the home team's, negated.
Leg(market, side, line) ==
    [market |-> market, side |-> side,
     line |-> IF market = "spreads" /\ side = "away" THEN -line ELSE line]

Legs(market, line) == { Leg(market, side, line) : side \in Sides(market, line) }

----------------------------------------------------------------------------

GradeTypeOK ==
    /\ code \in {"soccer", "basketball", "tennis", "american_football"}
    /\ final \in [{"home", "away"} -> Goals] /\ flipped \in BOOLEAN
    /\ axis \in {"sets", "games", "unknown"}
    /\ \A leg \in DOMAIN slip : slip[leg] \in Outcomes

\* Only soccer and American football end level; only tennis ends early.
GradeInit ==
    /\ code \in {"soccer", "basketball", "tennis", "american_football"}
    /\ final \in [{"home", "away"} -> Goals]
    /\ code \in {"basketball", "tennis"} => final["home"] # final["away"]
    /\ ending \in [completion : {"full", "void"}, winner : {"nobody"}]
                    \cup [completion : {"retired"}, winner : {"home", "away"}]
    /\ code # "tennis" => ending.completion = "full"
    /\ flipped \in BOOLEAN
    /\ axis \in {"sets", "games", "unknown"} /\ (code # "tennis" => axis = "unknown")
    /\ slip = <<>>

\* Every leg of a market is graded from the same final.
GradeMarket(market, line) ==
    /\ slip = <<>>
    /\ market \in {"totals", "spreads"} \/ line = 0
    /\ market = "totals" => line > 0
    /\ market \in {"dnb", "double_chance", "btts"} => code = "soccer"
    /\ slip' = [leg \in Legs(market, line) |-> Grade(leg)]
    /\ UNCHANGED <<code, final, ending, flipped, axis>>

GradeNext == \E market \in Market, line \in Lines : GradeMarket(market, line)

GradeSpec == GradeInit /\ [][GradeNext]_gradeVars

----------------------------------------------------------------------------
(* Properties.                                                             *)

\* pick_pnl of 2 * winners units at the odds of a book without margin, legs / winners.
Pnl(outcome, legs, winners) ==
    CASE outcome = "won" -> 2 * (legs - winners)
      [] outcome = "half_won" -> legs - winners
      [] outcome = "half_lost" -> -winners
      [] outcome = "lost" -> -2 * winners
      [] outcome \in {"push", "void", "refused"} -> 0

Winners(leg) == IF leg.market = "double_chance" THEN 2 ELSE 1

PnlOf(leg, outcome) == Pnl(outcome, Cardinality(DOMAIN slip), Winners(leg))

\* A handicap draw of an event that lists the teams the other way round is graded for
\* the wrong team's handicap: the legs of such a market do not add up.
DrawOnFlippedEvent == flipped /\ \E leg \in DOMAIN slip :
    leg.market = "spreads" /\ leg.side = "Draw"

\* Whoever backs every leg of a market without margin wins and loses nothing, and
\* either all of them are graded or none: whatever the score, the line, the sport and
\* the order of the teams.
MarketsBalance ==
    /\ DrawOnFlippedEvent \/ SumFunction([leg \in DOMAIN slip |-> PnlOf(leg, slip[leg])]) = 0
    /\ \A leg, other \in DOMAIN slip : slip[leg] = "refused" => slip[other] = "refused"

\* A quarter line pays the mean of the two lines beside it, where those push.
QuarterIsTheMean ==
    \A leg \in DOMAIN slip :
        LET beside == { Settled([leg EXCEPT !.line = @ + d]) : d \in {-1, 1} }
        IN  /\ IsQuarter(leg.line) /\ ending.completion = "full" /\ slip[leg] # "refused"
            /\ leg.market = "totals" \/ TwoWayHandicap
            /\ "refused" \notin beside
            => \E low, high \in beside :
                 /\ beside = {low, high}
                 /\ 2 * Pnl(slip[leg], 2, 1) = Pnl(low, 2, 1) + Pnl(high, 2, 1)

\* Both, for every market, score, line, sport, ending and order of the teams.
GradesCohere == MarketsBalance /\ QuarterIsTheMean
=============================================================================
