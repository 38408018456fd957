------------------------------ MODULE MarketLines ------------------------------
(***************************************************************************)
(* Which quotes are priced against one another.  Every provider names the  *)
(* lines of a match in its own vocabulary; a fair price comes from taking  *)
(* the margin out of the legs of one market, so the legs a cycle groups    *)
(* must be all the outcomes of one market, and of one that the final score *)
(* can grade.                                                              *)
(*                                                                         *)
(*   app/ingestion/oddschecker.py      _market_for_type, parse_market_api_payloads *)
(*   app/ingestion/oddsportal.py       _selections                         *)
(*   app/ingestion/pinnacle_arcadia.py extract_total_quotes, extract_spread_quotes *)
(*   app/ingestion/betfair_api.py      join_extended_lines                 *)
(*   app/pipeline.py                   fold_injected_group_details, group_market_prices, *)
(*                                     event_fair_probs, the candidate boundary *)
(*   app/edge/value.py                 spread_pair_coherent, the anchors   *)
(*                                                                         *)
(* One match.  Lines are in quarters of a goal, point, set or game.        *)
(***************************************************************************)
EXTENDS Integers, FiniteSets

CONSTANTS
    MarketsOf,       \* the markets on a match, by sport
    MaxQuotes        \* bound on the quotes a cycle brings

\* What books list.  A set or a match has more games than a match has sets, and a level
\* three-way handicap is the result itself.
Listed(sport, m) ==
    /\ m \in [product : {"asian", "european", "total", "exact_sets"}, unit : STRING,
              period : STRING, line : Int]
    /\ \/ sport = "soccer" /\ m.unit \in {"goals", "corners"}
       \/ sport = "tennis" /\ m.unit \in {"sets", "games"}
       \/ sport = "basketball" /\ m.unit = "goals"
    /\ m.product = "european" => sport # "tennis" /\ m.line # 0
    /\ m.product = "exact_sets" => m.unit = "sets" /\ m.period = "full"
    /\ m.product \in {"total", "exact_sets"} => m.line > 0
    /\ m.product = "total" /\ m.unit = "games" => m.line > 18

LinesAssumption ==
    /\ MaxQuotes \in Nat /\ DOMAIN MarketsOf \subseteq {"soccer", "tennis", "basketball"}
    /\ \A sport \in DOMAIN MarketsOf : \A m \in MarketsOf[sport] : Listed(sport, m)

VARIABLES
    sportKey,            \* the sport
    primary,         \* ODDS_SOURCE: "oddschecker" or "oddsportal"
    board            \* the quotes of this cycle

lineVars == <<sportKey, primary, board>>

----------------------------------------------------------------------------
(* Markets and quotes.                                                     *)

Leg(m, side, line) == [of |-> m, side |-> side, line |-> line]

\* A handicap's line is the home side's.
Teams(m) == {Leg(m, "home", m.line), Leg(m, "away", -m.line)}
Draw(m) == Leg(m, "draw", m.line)

Sides(m) == {Leg(m, "over", m.line), Leg(m, "under", m.line)}

\* The outcomes of a market.  In a best of three, two sets or three is under or over 2.5.
Legs(m) ==
    CASE m.product = "asian" -> Teams(m)
      [] m.product = "european" -> Teams(m) \cup {Draw(m)}
      [] m.product = "total" -> Sides(m)
      [] m.product = "exact_sets" -> Sides([m EXCEPT !.product = "total"])

\* What settlement's final score counts.
ScoreUnit == IF sportKey = "tennis" THEN "sets" ELSE "goals"

IsSpread(m) == m.product \in {"asian", "european"}
Fractional(line) == line % 4 # 0
HalfLine(line) == line % 4 = 2

\* An observation: its group, the selection's text, and what was really quoted.
Row(book, leg, detail) ==
    [book |-> book, market |-> IF IsSpread(leg.of) THEN "spreads" ELSE "totals",
     detail |-> detail, selection |-> [who |-> leg.side, line |-> leg.line, signed |-> TRUE],
     leg |-> leg]

Detail(space, line) == [space |-> space, line |-> line]

----------------------------------------------------------------------------
(* OddsChecker: a handicap row is filed under its own signed line.         *)

\* A bare soccer "Handicap", or any with a draw among its bets.
IsThreeWay(q) ==
    /\ q.market.product = "european"
    /\ sportKey = "soccer" \/ Draw(q.market) \in q.legs

OddsCheckerSpace(m) ==
    CASE m.period # "full" -> IF IsSpread(m) THEN "spreads_1st_half" ELSE "totals_1st_half"
      [] m.period = "full" /\ ~IsSpread(m) -> "totals"
      [] m.period = "full" /\ IsSpread(m) /\ m.unit = "sets" -> "spreads_sets"
      [] OTHER -> "spreads"

\* Corners are no goals; the exact number of sets counts with both its bets.
OddsChecker(q) ==
    IF \/ IsThreeWay(q) \/ q.market.unit = "corners"
       \/ q.market.product = "exact_sets" /\ q.legs # Legs(q.market)
    THEN {}
    ELSE {Row(q.book, leg, Detail(OddsCheckerSpace(q.market), leg.line)) : leg \in q.legs}

(* OddsPortal: half lines, and the three-way handicap, by the home side's line. *)

OddsPortalSpace(m) ==
    CASE m.product = "european" -> "european_handicap"
      [] m.product = "asian" -> IF sportKey = "soccer" THEN "asian_handicap"
                                ELSE IF m.unit = "sets" THEN "asian_handicap_sets"
                                ELSE "asian_handicap_games"
      [] OTHER -> IF sportKey = "soccer" THEN "over_under"
                  ELSE IF m.unit = "sets" THEN "over_under_sets" ELSE "over_under_games"

OddsPortal(q) ==
    IF \/ q.market.period # "full" \/ q.market.unit = "corners"
       \/ q.market.product \in {"asian", "total"} /\ ~HalfLine(q.market.line)
       \/ q.market.product = "european" /\ sportKey # "soccer"
       \/ q.market.product = "exact_sets"
    THEN {}
    ELSE {Row(q.book, leg, Detail(OddsPortalSpace(q.market), q.market.line)) : leg \in q.legs}

(* Pinnacle's main lines, by the home side's line; the level line has no sign. *)

ArcadiaSpace(m) ==
    IF IsSpread(m) THEN IF sportKey = "basketball" THEN "asian_handicap_games" ELSE "asian_handicap"
    ELSE IF sportKey = "basketball" THEN "over_under_games" ELSE "over_under"

Arcadia(q) ==
    IF q.market.period # "full" \/ q.market.product \notin {"asian", "total"}
       \/ q.market.unit # ScoreUnit
    THEN {}
    ELSE { [Row(q.book, leg, Detail(ArcadiaSpace(q.market), q.market.line))
              EXCEPT !.selection.signed = (leg.line # 0)] : leg \in q.legs }

(* Betfair's ladders: fractional lines backed on both sides, by the home line. *)

Betfair(q) ==
    IF \/ sportKey # "soccer" \/ q.legs # Legs(q.market) \/ ~Fractional(q.market.line)
       \/ q.market.period # "full" \/ q.market.product \notin {"asian", "total"}
       \/ q.market.unit = "corners"
    THEN {}
    ELSE { Row(q.book, leg, Detail(IF IsSpread(q.market) THEN "spreads" ELSE "totals",
                                   q.market.line)) : leg \in q.legs }

Rows(q) ==
    CASE q.source = "oddschecker" -> OddsChecker(q)
      [] q.source = "oddsportal" -> OddsPortal(q)
      [] q.source = "arcadia" -> Arcadia(q)
      [] OTHER -> Betfair(q)

----------------------------------------------------------------------------
(* Grouping.                                                               *)

Canonical(detail) ==
    IF detail.space \in {"over_under", "over_under_games"}
    THEN [detail EXCEPT !.space = "totals"] ELSE detail

\* The native groups that quote a selection.
Natives(rows, selection) ==
    { row.detail : row \in
        {r \in rows : r.selection = selection /\ r.detail.space = "spreads"
                      /\ Fractional(r.detail.line)} }

SameSize(line, other) == line = other \/ line = -other

\* An injected handicap joins the only native group that quotes the very selection.
Adopted(rows, row) ==
    LET natives == Natives(rows, row.selection)
        joins == {detail \in natives : SameSize(detail.line, row.detail.line)}
    IN  IF /\ row.detail.space \in {"asian_handicap", "asian_handicap_games"}
           /\ Fractional(row.detail.line) /\ Cardinality(natives) = 1 /\ joins # {}
        THEN [row EXCEPT !.detail = CHOOSE detail \in joins : TRUE]
        ELSE row

Folded ==
    LET rows == {[row EXCEPT !.detail = Canonical(row.detail)] :
                    row \in UNION {Rows(q) : q \in board}}
    IN  {Adopted(rows, row) : row \in rows}

GroupsOf(rows) ==
    { {r \in rows : r.market = row.market /\ r.detail = row.detail} : row \in rows }

Selections(group) == {row.selection : row \in group}
Head(group) == CHOOSE row \in group : TRUE

----------------------------------------------------------------------------
(* Fair prices.                                                            *)

\* Fault: two selections are taken for the two sides.
PairAssumed(group) ==
    LET teams == {s \in Selections(group) : s.who # "draw"}
    IN  Cardinality(teams) = 2 /\ Cardinality(Selections(group)) \in 2 .. 3

\* Two teams at opposite lines, with a draw leg or without.
SpreadPairCoherent(group) ==
    LET teams == {s \in Selections(group) : s.who # "draw"}
    IN  /\ Cardinality(teams) = 2 /\ Cardinality(Selections(group)) \in 2 .. 3
        /\ \A one, two \in teams :
             one # two => one.signed /\ two.signed /\ one.who # two.who /\ one.line = -two.line

\* A book that quotes every selection: one sharp book does, of soft ones it takes
\* three, and whether the margin is plausible is data, so this allows more.
Anchored(group) ==
    /\ Cardinality(Selections(group)) >= 2
    /\ \E book \in {row.book : row \in group} :
         Selections({row \in group : row.book = book}) = Selections(group)

Fair(group) ==
    /\ Anchored(group)
    /\ Head(group).market = "spreads" => SpreadPairCoherent(group)

\* The final score does not tell the score of a part.
Settleable(group) == Head(group).detail.space \notin {"spreads_1st_half", "totals_1st_half"}

\* On a whole total there is a third outcome, the push.
IntegerTotal(group) == Head(group).detail.space = "totals" /\ ~Fractional(Head(group).detail.line)

\* Tennis is scored in sets: spreads must say so, totals must be small.
GameLine(group) ==
    /\ sportKey = "tennis"
    /\ IF Head(group).market = "spreads"
       THEN \/ Head(group).detail.space \notin {"spreads_sets", "asian_handicap_sets"}
            \/ \E s \in Selections(group) : s.line \notin -10 .. 10
       ELSE \/ Head(group).detail.space = "over_under_games"
            \/ \E s \in Selections(group) : s.line > 18

\* Sharp books set the fair price and are never the offer.
Offered(group) == \E row \in group : row.book = "soft"

Candidates ==
    { group \in GroupsOf(Folded) :
        /\ Settleable(group) /\ ~GameLine(group) /\ ~IntegerTotal(group)
        /\ Fair(group) /\ Offered(group) }

----------------------------------------------------------------------------
(* What a cycle may bring: any legs of any markets, from any provider.     *)

Sources == {primary, "arcadia", "betfair"}

\* The sharp books come from feeds of their own; the primary brings a soft one.
BooksOf(source) ==
    CASE source = "arcadia" -> {"pinnacle"}
      [] source = "betfair" -> {"exchange"}
      [] OTHER -> {"soft"}

Quote(source, book, m, legs) ==
    /\ Cardinality(board) < MaxQuotes
    /\ LET q == [source |-> source, book |-> book, market |-> m, legs |-> legs]
       IN  q \notin board /\ Rows(q) # {} /\ board' = board \cup {q}
    /\ UNCHANGED <<sportKey, primary>>

LinesInit ==
    /\ sportKey \in DOMAIN MarketsOf
    /\ primary \in {"oddschecker", "oddsportal"}
    /\ board = {}

LinesNext ==
    \E source \in Sources, m \in MarketsOf[sportKey] :
        \E book \in BooksOf(source), legs \in SUBSET Legs(m) \ {{}} : Quote(source, book, m, legs)

LinesSpec == LinesInit /\ [][LinesNext]_lineVars

----------------------------------------------------------------------------
(* Properties.                                                             *)

LinesTypeOK ==
    /\ sportKey \in DOMAIN MarketsOf /\ primary \in {"oddschecker", "oddsportal"}
    /\ \A q \in board :
         q.source \in Sources /\ q.market \in MarketsOf[sportKey] /\ q.legs \subseteq Legs(q.market)

\* The draw leg of a three-way handicap may be quoted by nobody.
Exhausts(legs, m) ==
    \/ legs = Legs(m)
    \/ m.product = "european" /\ legs = Teams(m)

\* Settlement reads a whole handicap line of soccer as the three-way one.
GradedAsQuoted(m) ==
    sportKey = "soccer" /\ m.product = "asian" => Fractional(m.line) \/ m.line = 0

(* A group that gives candidates holds all the outcomes of one market of the   *)
(* whole match, in the unit of the final score, each under one selection, and  *)
(* no others.                                                                  *)
PricedGroupsAreMarkets ==
    \A group \in Candidates :
        /\ \E m \in {row.leg.of : row \in group} :
             /\ Exhausts({row.leg : row \in group}, m)
             /\ m.period = "full" /\ m.unit = ScoreUnit /\ GradedAsQuoted(m)
        /\ \A one, two \in group : one.selection = two.selection <=> one.leg = two.leg
=============================================================================
