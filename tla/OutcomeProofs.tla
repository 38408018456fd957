---------------------------- MODULE OutcomeProofs ----------------------------
(***************************************************************************)
(* Theorems about what a pick is worth, at its two ends.                   *)
(*                                                                         *)
(* ScoreSources: the score it is settled with is of its own game.          *)
(* Grading: what a market and its score come to, leg by leg, whole,        *)
(* half and quarter lines alike.                                           *)
(* MarketLines: the quotes priced together are of one market, all of it.   *)
(***************************************************************************)
EXTENDS MCPlatform, FiniteSetTheorems, TLAPS

----------------------------------------------------------------------------
(* ScoreSources: a pick is settled with the score of its own game.         *)

LEMMA ScoreSteps == [Next]_vars => Scores!ScoreNext \/ UNCHANGED scoreVars
  BY DEF Next, Only, vars

\* A page that says the match is over shows no running score; a running score that was
\* captured came without a status, after the floor of pages without one.
ScoreInv ==
    /\ Scores!ScoreTypeOK
    /\ pick \in [game : Held, tennis : BOOLEAN, gradeable : BOOLEAN] /\ overtime \in BOOLEAN
    /\ matchPage.finished = "yes" => matchPage.score # "partial"
    /\ captured = "partial" => statusless /\ Scores!Age > FullFloor
    /\ Scores!GradedByOwnGame

LEMMA ScoreNumbers ==
    /\ {DayLength, Playing, SoftFloor, SettleDelay, FullFloor, ScoreWindow, VoidAge, ExpireAge,
        LastTick} \subseteq Nat
    /\ DayLength > 0 /\ \A g \in Scores!Fixtures : KickoffOf[g] \in Nat
    /\ Held \subseteq Scores!Fixtures
    /\ \A g \in Scores!Fixtures : Scores!Date(g) \in Int
  <1>1. /\ {DayLength, Playing, SoftFloor, SettleDelay, FullFloor, ScoreWindow, VoidAge, ExpireAge,
            LastTick} \subseteq Nat
        /\ DayLength > 0 /\ \A g \in Scores!Fixtures : KickoffOf[g] \in Nat
        /\ Held \subseteq Scores!Fixtures
    BY PlatformAssumption DEF Scores!ScoreAssumption
  <1>2. \A n \in Nat : n \div DayLength \in Int
    BY <1>1
  <1> QED
    BY <1>1, <1>2 DEF Scores!Date

\* A row that a source or a page can bring.
Readable == [game : Scores!Fixtures, value : {"partial", "final"}, exact : BOOLEAN, date : Int]

\* Whatever lookup answers is a row it was given, of a game of our category.
LEMMA LookupAnswers ==
    ASSUME NEW book, NEW line \in Scores!Lookup(book)
    PROVE  line \in book /\ Markers[line.game] = Markers[Scores!own]
  BY DEF Scores!Lookup, Scores!Exactly, Scores!Contained, Scores!Same, Scores!Adjacent,
     Scores!Unique

\* ScoreBook.lookup: a clear row of the own game under its own date is the answer.
LEMMA SightedAnswers ==
    ASSUME ScoreInv, NEW book \in SUBSET Readable, Scores!Sighted(book),
           NEW line \in Scores!Lookup(book)
    PROVE  line.game = Scores!own
  <1> DEFINE date == Scores!Date(Scores!own)
  <1>1. PICK mine \in book :
          /\ mine.game = Scores!own /\ mine.date = date
          /\ \A other \in book :
               other.game # Scores!own /\ Scores!Same(other) =>
                 other.date # mine.date
                 /\ (mine.exact \/ other.date \notin mine.date - 1 .. mine.date + 1)
    BY DEF Scores!Sighted
  <1>2. date \in Int
    BY ScoreNumbers DEF ScoreInv, Scores!ScoreTypeOK
  <1>3. CASE Scores!Exactly(book, date) # {}
    BY <1>1, <1>3 DEF Scores!Lookup, Scores!Exactly
  <1>4. CASE Scores!Exactly(book, date) = {}
    <2>1. ~mine.exact
      BY <1>1, <1>4 DEF Scores!Exactly, Scores!Same
    <2>2. \A d \in {date - 1, date + 1} : \A other \in Scores!Exactly(book, d) :
             other.game = Scores!own
      BY <1>1, <1>2, <2>1 DEF Scores!Exactly
    <2>3. mine \in Scores!Contained(book, date)
      BY <1>1 DEF Scores!Contained
    <2>4. CASE line \in Scores!Adjacent(Scores!Exactly(book, date - 1),
                                        Scores!Exactly(book, date + 1))
      BY <2>2, <2>4 DEF Scores!Adjacent
    <2>5. CASE line \in Scores!Unique(Scores!Contained(book, date))
      BY <1>1, <2>3, <2>5 DEF Scores!Unique
    <2> QED
      BY <1>4, <2>3, <2>4, <2>5 DEF Scores!Lookup
  <1> QED
    BY <1>3, <1>4

LEMMA ScoreInitInv == Scores!ScoreInit => ScoreInv
  <1> SUFFICES ASSUME Scores!ScoreInit PROVE ScoreInv
    OBVIOUS
  <1>1. /\ hour = 0 /\ pick \in [game : Held, tennis : BOOLEAN, gradeable : BOOLEAN]
        /\ overtime \in BOOLEAN /\ published = [g \in Scores!Fixtures |-> "not"]
        /\ matchPage = Scores!NoPage /\ captured = "none"
        /\ verdict = [of |-> Scores!own, value |-> "open"] /\ blind = FALSE /\ statusless = FALSE
    BY DEF Scores!ScoreInit
  <1>2. Scores!own \in Scores!Fixtures
    BY <1>1, ScoreNumbers DEF Scores!own
  <1>3. Scores!ScoreTypeOK
    <2>1. hour \in 0 .. LastTick
      BY <1>1, ScoreNumbers
    <2>2. matchPage \in [score : {"none", "partial", "final"}, finished : {"yes", "unknown"}]
      BY <1>1 DEF Scores!NoPage
    <2>3. verdict \in [of : Scores!Fixtures, value : {"open", "void", "partial", "final"}]
      BY <1>1, <1>2
    <2>4. published \in [Scores!Fixtures -> Scores!Listings]
      BY <1>1 DEF Scores!Listings
    <2> QED
      BY <1>1, <1>2, <2>1, <2>2, <2>3, <2>4 DEF Scores!ScoreTypeOK
  <1> QED
    BY <1>1, <1>3 DEF ScoreInv, Scores!NoPage, Scores!GradedByOwnGame

\* The clock, the feeds and the page leave an open pick open.
LEMMA OpenInv ==
    ASSUME ScoreInv, Scores!Open, Scores!ScoreTypeOK', UNCHANGED <<pick, overtime, verdict>>,
           matchPage'.finished = "yes" => matchPage'.score # "partial",
           captured' = "partial" => statusless' /\ Scores!Age' > FullFloor
    PROVE  ScoreInv'
  BY DEF ScoreInv, Scores!GradedByOwnGame, Scores!Open

LEMMA WorldInv ==
    ASSUME ScoreInv,
           \/ Scores!HourPasses \/ Scores!Restart
           \/ \E g \in Scores!Fixtures, listing \in Scores!Listings : Scores!Publish(g, listing)
           \/ \E shown \in Scores!Shown : Scores!Register(shown)
    PROVE  ScoreInv'
  <1>1. CASE Scores!HourPasses
    <2>1. Scores!ScoreTypeOK' /\ Scores!Open
      BY <1>1, ScoreNumbers DEF Scores!HourPasses, ScoreInv, Scores!ScoreTypeOK, Scores!own
    <2>2. Scores!Age' = Scores!Age + 1 /\ Scores!Age \in Int
      BY <1>1, ScoreNumbers DEF Scores!HourPasses, ScoreInv, Scores!ScoreTypeOK, Scores!Age, Scores!own
    <2> QED
      BY <1>1, <2>1, <2>2, OpenInv, ScoreNumbers DEF Scores!HourPasses, ScoreInv
  <1>2. CASE Scores!Restart
    BY <1>2, OpenInv DEF Scores!Restart, ScoreInv, Scores!ScoreTypeOK, Scores!NoPage, Scores!own,
       Scores!Age
  <1>3. ASSUME NEW g \in Scores!Fixtures, NEW listing \in Scores!Listings,
               Scores!Publish(g, listing)
        PROVE  ScoreInv'
    BY <1>3, OpenInv DEF Scores!Publish, ScoreInv, Scores!ScoreTypeOK, Scores!own, Scores!Age
  <1>4. ASSUME NEW shown \in Scores!Shown, Scores!Register(shown) PROVE ScoreInv'
    <2>1. /\ Scores!Capturable(shown) => shown \in [score : {"partial", "final"}, finished : {"yes", "unknown"}]
          /\ shown.finished = "yes" => shown.score # "partial"
      BY DEF Scores!Shown, Scores!Capturable
    <2> QED
      BY <1>4, <2>1, OpenInv DEF Scores!Register, ScoreInv, Scores!ScoreTypeOK, Scores!own,
         Scores!Age, Scores!NoPage
  <1> QED
    BY <1>1, <1>2, <1>3, <1>4

LEMMA CaptureInv ==
    ASSUME ScoreInv, NEW shown \in Scores!Shown \cup {matchPage}, Scores!Capture(shown)
    PROVE  ScoreInv'
  <1>1. /\ shown \in [score : {"partial", "final"}, finished : {"yes", "unknown"}]
        /\ shown.finished = "yes" => shown.score # "partial"
    BY DEF Scores!Capture, Scores!Shown, Scores!Capturable, ScoreInv, Scores!ScoreTypeOK
  <1>2. shown.score = "partial" => shown.finished = "unknown" /\ Scores!Age > FullFloor
    BY <1>1 DEF Scores!Capture
  <1> QED
    BY <1>1, <1>2, OpenInv DEF Scores!Capture, ScoreInv, Scores!ScoreTypeOK, Scores!own, Scores!Age

\* A book of the feeds, and a book of the pages: what their rows are.
LEMMA FetchedRows ==
    ASSUME ScoreInv, NEW book \in Scores!Fetches
    PROVE  book \in SUBSET Readable /\ \A line \in book : line.value = "final"
  <1>1. \A g \in Scores!Fixtures : Scores!Row(g) \in Readable /\ Scores!Row(g).value = "final"
    BY ScoreNumbers DEF Scores!Row, Readable
  <1> QED
    BY <1>1 DEF Scores!Fetches

LEMMA ScrapedRows ==
    ASSUME ScoreInv, NEW others \in Scores!OtherPages
    PROVE  /\ Scores!Scraped(others) \in SUBSET Readable
           /\ \A line \in Scores!Scraped(others) :
                line.value = "final" \/ (line.game = Scores!own /\ line.value = captured)
  <1>1. others \subseteq Scores!Fixtures
    BY ScoreNumbers DEF Scores!OtherPages
  <1>2. Scores!own \in Scores!Fixtures /\ captured \in {"none", "partial", "final"}
    BY DEF ScoreInv, Scores!ScoreTypeOK
  <1> DEFINE Line(g, value) == [game |-> g, value |-> value, exact |-> TRUE, date |-> Scores!Date(g)]
  <1>3. \A g \in Scores!Fixtures, value \in {"partial", "final"} :
          /\ Line(g, value) \in Readable
          /\ Line(g, value).game = g /\ Line(g, value).value = value
    BY ScoreNumbers DEF Readable
  <1>4. ASSUME NEW line \in Scores!Scraped(others)
        PROVE  \/ line = Line(Scores!own, captured) /\ captured # "none"
               \/ \E g \in others : line = Line(g, "final")
    BY DEF Scores!Scraped
  <1> HIDE DEF Line
  <1> QED
    BY <1>1, <1>2, <1>3, <1>4

\* The settlement cycle grades an open pick with a row that lookup answers.
LEMMA GradeInv ==
    ASSUME ScoreInv, NEW book \in SUBSET Readable, NEW line \in Scores!Lookup(book),
           line.value = "final" \/ (line.game = Scores!own /\ line.value = captured),
           Scores!Open, Scores!Grade(line, book),
           UNCHANGED <<hour, pick, overtime, published, matchPage, captured, statusless>>
    PROVE  ScoreInv'
  <1>1. line \in Readable /\ Markers[line.game] = Markers[Scores!own]
    BY LookupAnswers
  <1>2. CASE UNCHANGED <<verdict, blind>>
    BY <1>2 DEF ScoreInv, Scores!ScoreTypeOK, Scores!own, Scores!Age, Scores!GradedByOwnGame
  <1>3. CASE verdict' = [of |-> line.game, value |-> line.value] /\ blind' = ~Scores!Sighted(book)
    <2>1. Scores!ScoreTypeOK'
      BY <1>1, <1>3 DEF ScoreInv, Scores!ScoreTypeOK, Scores!own, Readable
    <2>2. line.game # Scores!own => blind'
      BY <1>3, SightedAnswers
    <2>3. Scores!GradedByOwnGame'
      BY <1>1, <1>3, <2>2 DEF Scores!GradedByOwnGame, ScoreInv, Readable, Scores!own, Scores!Age
    <2> QED
      BY <2>1, <2>3 DEF ScoreInv, Scores!own, Scores!Age
  <1> QED
    BY <1>2, <1>3 DEF Scores!Grade

LEMMA ScoreSettledInv ==
    ASSUME ScoreInv, NEW outage \in BOOLEAN, Scores!Settle(outage)
    PROVE  ScoreInv'
  <1>1. PICK book \in Scores!Fetches, others \in Scores!OtherPages :
          Scores!Cycle(book, others, outage)
    BY DEF Scores!Settle
  <1>2. /\ Scores!Open
        /\ UNCHANGED <<hour, pick, overtime, published, matchPage, captured, statusless>>
    BY DEF Scores!Settle
  <1> DEFINE pages == Scores!Scraped(others)
  <1>3. CASE Scores!Voided
    BY <1>2, <1>3 DEF Scores!Voided, ScoreInv, Scores!ScoreTypeOK, Scores!own, Scores!Age,
       Scores!GradedByOwnGame
  <1>4. ASSUME NEW line \in Scores!Lookup(book), Scores!Grade(line, book) PROVE ScoreInv'
    <2>1. line.value = "final"
      BY FetchedRows, LookupAnswers
    <2> QED
      BY <1>2, <1>4, <2>1, FetchedRows, GradeInv
  <1>5. ASSUME NEW line \in Scores!Lookup(pages), Scores!Grade(line, pages) PROVE ScoreInv'
    <2>1. line.value = "final" \/ (line.game = Scores!own /\ line.value = captured)
      BY ScrapedRows, LookupAnswers
    <2>2. pages \in SUBSET Readable
      BY ScrapedRows
    <2> HIDE DEF pages
    <2> QED
      BY <1>2, <1>5, <2>1, <2>2, GradeInv
  <1> QED
    BY <1>1, <1>3, <1>4, <1>5 DEF Scores!Cycle

LEMMA ScoreInvariant == Spec => []ScoreInv
  <1>1. Init => ScoreInv
    BY ScoreInitInv DEF Init
  <1>2. ASSUME ScoreInv, [Next]_vars PROVE ScoreInv'
    <2>1. CASE \/ Scores!HourPasses \/ Scores!Restart
               \/ \E g \in Scores!Fixtures, listing \in Scores!Listings :
                    Scores!Publish(g, listing)
               \/ \E shown \in Scores!Shown : Scores!Register(shown)
      BY <1>2, <2>1, WorldInv
    <2>2. CASE \E shown \in Scores!Shown \cup {matchPage} : Scores!Capture(shown)
      BY <1>2, <2>2, CaptureInv
    <2>3. CASE \E outage \in BOOLEAN : Scores!Settle(outage)
      BY <1>2, <2>3, ScoreSettledInv
    <2>4. CASE UNCHANGED scoreVars
      <3>1. /\ hour' = hour /\ pick' = pick /\ overtime' = overtime /\ published' = published
            /\ matchPage' = matchPage /\ captured' = captured /\ verdict' = verdict
            /\ blind' = blind /\ statusless' = statusless
        BY <2>4 DEF scoreVars
      <3> QED
        BY <1>2, <3>1 DEF ScoreInv, Scores!ScoreTypeOK, Scores!own, Scores!Age,
           Scores!GradedByOwnGame
    <2> QED
      BY <1>2, <2>1, <2>2, <2>3, <2>4, ScoreSteps DEF Scores!ScoreNext
  <1> QED
    BY <1>1, <1>2, PTL DEF Spec

\* Whatever the feeds list, in whatever spelling and part, and whatever the pages show: a
\* pick is settled with the final score of its own game, or with a running score that came
\* without a status and outlasted the floor, or with a score of the same category while the
\* sources had no clear row of its own game (ScoreBook.lookup, run_settlement_cycle). The
\* proof is of any games, dates, markers and likenesses.
THEOREM Graded_ByOwnGame == Spec => []GradedByOwnGame
  BY ScoreInvariant, PTL DEF ScoreInv, GradedByOwnGame

----------------------------------------------------------------------------
(* Grading: the sum over the legs of a market, of which there are two or   *)
(* three.                                                                  *)

\* The element a fold takes next, and what is left.
Taken(s) == CHOOSE x \in s : TRUE
Left(s) == s \ {Taken(s)}

\* What a fold of + over a subset of S must be, step by step.
Folds(iter, f, S) ==
    iter = [s \in SUBSET S |-> IF s = {} THEN 0 ELSE f[Taken(s)] + iter[Left(s)]]

LEMMA SumIsFold ==
    ASSUME NEW f
    PROVE  Grades!SumFunction(f) = (CHOOSE iter : Folds(iter, f, DOMAIN f))[DOMAIN f]
  BY DEF Grades!SumFunction, Grades!SumFunctionOnSet, Grades!FoldFunctionOnSet,
     Grades!MapThenFoldSet, Folds, Taken, Left

LEMMA TakenFrom == ASSUME NEW s, s # {} PROVE Taken(s) \in s
  BY DEF Taken

\* A fold over at most three elements can be written out, so there is one.
LEMMA FoldOfThree ==
    ASSUME NEW f, NEW S, NEW a, NEW b, NEW c, S \subseteq {a, b, c}
    PROVE  \E iter : Folds(iter, f, S)
  <1> DEFINE One(s) == IF s = {} THEN 0 ELSE f[Taken(s)] + 0
             Two(s) == IF s = {} THEN 0 ELSE f[Taken(s)] + One(Left(s))
             Three(s) == IF s = {} THEN 0 ELSE f[Taken(s)] + Two(Left(s))
             iter == [s \in SUBSET S |-> Three(s)]
  <1>1. ASSUME NEW x, NEW s, s \subseteq {x} PROVE Left(s) = {}
    BY <1>1, TakenFrom DEF Left
  <1>2. ASSUME NEW x, NEW y, NEW s, s \subseteq {x, y}
        PROVE  Left(s) \subseteq {x} \/ Left(s) \subseteq {y}
    BY <1>2, TakenFrom DEF Left
  <1>3. ASSUME NEW s \in SUBSET S
        PROVE  \E x, y \in {a, b, c} : Left(s) \subseteq {x, y}
    BY <1>3, TakenFrom DEF Left
  <1>4. ASSUME NEW x, NEW s, s \subseteq {x} PROVE One(s) = Two(s)
    BY <1>1, <1>4
  <1>5. ASSUME NEW x, NEW y, NEW s, s \subseteq {x, y} PROVE Two(s) = Three(s)
    <2>1. One(Left(s)) = Two(Left(s))
      <3> HIDE DEF One, Two
      <3>1. CASE Left(s) \subseteq {x}
        BY <1>4, <3>1
      <3>2. CASE Left(s) \subseteq {y}
        BY <1>4, <3>2
      <3> QED
        BY <1>2, <1>5, <3>1, <3>2
    <2> QED
      BY <2>1
  <1>6. ASSUME NEW s \in SUBSET S
        PROVE  iter[s] = IF s = {} THEN 0 ELSE f[Taken(s)] + iter[Left(s)]
    <2>1. Left(s) \in SUBSET S
      BY DEF Left
    <2>2. Two(Left(s)) = Three(Left(s))
      <3> HIDE DEF Two, Three
      <3>1. PICK x, y \in {a, b, c} : Left(s) \subseteq {x, y}
        BY <1>3, <1>6
      <3> QED
        BY <1>5, <3>1
    <2> QED
      BY <2>1, <2>2
  <1> HIDE DEF iter
  <1>7. Folds(iter, f, S)
    <2>1. iter = [s \in SUBSET S |-> iter[s]]
      BY DEF iter
    <2> QED
      BY <1>6, <2>1 DEF Folds
  <1> QED
    BY <1>7

\* The sum of a function over its domain, of none, two or three elements.
LEMMA SumUnfolds ==
    ASSUME NEW f, NEW a, NEW b, NEW c, DOMAIN f \subseteq {a, b, c}
    PROVE  \E iter : /\ Grades!SumFunction(f) = iter[DOMAIN f]
                     /\ \A s \in SUBSET (DOMAIN f) :
                          iter[s] = IF s = {} THEN 0 ELSE f[Taken(s)] + iter[Left(s)]
  <1> DEFINE iter == CHOOSE it : Folds(it, f, DOMAIN f)
  <1>1. Folds(iter, f, DOMAIN f)
    BY FoldOfThree
  <1>2. Grades!SumFunction(f) = iter[DOMAIN f]
    BY SumIsFold
  <1> HIDE DEF iter
  <1> QED
    BY <1>1, <1>2 DEF Folds

LEMMA SumOfNone ==
    ASSUME NEW f, DOMAIN f = {} PROVE Grades!SumFunction(f) = 0
  BY SumUnfolds

\* One step of such a sum, and its end.
LEMMA SumOfTwo ==
    ASSUME NEW f, NEW a, NEW b, a # b, DOMAIN f = {a, b}, f[a] \in Int, f[b] \in Int
    PROVE  Grades!SumFunction(f) = f[a] + f[b]
  <1>1. DOMAIN f \subseteq {a, b, b}
    OBVIOUS
  <1>2. PICK iter : /\ Grades!SumFunction(f) = iter[DOMAIN f]
                    /\ \A s \in SUBSET (DOMAIN f) :
                         iter[s] = IF s = {} THEN 0 ELSE f[Taken(s)] + iter[Left(s)]
    BY <1>1, SumUnfolds
  <1>3. ASSUME NEW s \in SUBSET {a, b}, s # {}
        PROVE  iter[s] = f[Taken(s)] + iter[Left(s)]
    BY <1>2, <1>3
  <1>4. iter[{}] = 0
    BY <1>2
  <1>5. ASSUME NEW x \in {a, b} PROVE iter[{x}] = f[x]
    <2>1. {x} \in SUBSET {a, b} /\ {x} # {}
      OBVIOUS
    <2>2. Taken({x}) = x /\ Left({x}) = {}
      BY <2>1, TakenFrom DEF Left
    <2>3. iter[{x}] = f[x] + iter[{}]
      BY <1>3, <2>1, <2>2
    <2>4. f[x] \in Int
      OBVIOUS
    <2> QED
      BY <1>4, <2>3, <2>4
  <1>6. iter[{a, b}] = f[Taken({a, b})] + iter[Left({a, b})]
    <2>1. {a, b} \in SUBSET {a, b} /\ {a, b} # {}
      OBVIOUS
    <2> QED
      BY <1>3, <2>1
  <1>7. \/ Taken({a, b}) = a /\ Left({a, b}) = {b}
        \/ Taken({a, b}) = b /\ Left({a, b}) = {a}
    BY TakenFrom DEF Left
  <1>8. iter[{a}] = f[a] /\ iter[{b}] = f[b]
    BY <1>5
  <1>9. iter[{a, b}] = f[a] + f[b]
    <2>1. CASE Taken({a, b}) = a /\ Left({a, b}) = {b}
      BY <1>6, <1>8, <2>1
    <2>2. CASE Taken({a, b}) = b /\ Left({a, b}) = {a}
      <3>1. iter[{a, b}] = f[b] + f[a]
        BY <1>6, <1>8, <2>2
      <3> QED
        BY <3>1
    <2> QED
      BY <1>7, <2>1, <2>2
  <1> QED
    BY <1>2, <1>9

LEMMA SumOfThree ==
    ASSUME NEW f, NEW a, NEW b, NEW c, a # b, b # c, a # c, DOMAIN f = {a, b, c},
           f[a] \in Int, f[b] \in Int, f[c] \in Int
    PROVE  Grades!SumFunction(f) = f[a] + f[b] + f[c]
  <1>1. PICK iter : /\ Grades!SumFunction(f) = iter[DOMAIN f]
                    /\ \A s \in SUBSET (DOMAIN f) :
                         iter[s] = IF s = {} THEN 0 ELSE f[Taken(s)] + iter[Left(s)]
    BY SumUnfolds
  <1>2. ASSUME NEW s \in SUBSET {a, b, c}, s # {}
        PROVE  iter[s] = f[Taken(s)] + iter[Left(s)]
    BY <1>1, <1>2
  <1>3. iter[{}] = 0
    BY <1>1
  <1>4. ASSUME NEW x \in {a, b, c} PROVE iter[{x}] = f[x] /\ f[x] \in Int
    <2>1. {x} \in SUBSET {a, b, c} /\ {x} # {}
      OBVIOUS
    <2>2. Taken({x}) = x /\ Left({x}) = {}
      BY <2>1, TakenFrom DEF Left
    <2>3. iter[{x}] = f[x] + iter[{}]
      BY <1>2, <2>1, <2>2
    <2>4. f[x] \in Int
      OBVIOUS
    <2> QED
      BY <1>3, <2>3, <2>4
  <1>5. ASSUME NEW x \in {a, b, c}, NEW y \in {a, b, c}, x # y
        PROVE  iter[{x, y}] = f[x] + f[y]
    <2>1. \/ Taken({x, y}) = x /\ Left({x, y}) = {y}
          \/ Taken({x, y}) = y /\ Left({x, y}) = {x}
      BY <1>5, TakenFrom DEF Left
    <2>2. {x, y} \in SUBSET {a, b, c} /\ {x, y} # {}
      OBVIOUS
    <2>3. iter[{x, y}] = f[Taken({x, y})] + iter[Left({x, y})]
      BY <1>2, <2>2
    <2>4. /\ iter[{x}] = f[x] /\ f[x] \in Int
          /\ iter[{y}] = f[y] /\ f[y] \in Int
      BY <1>4
    <2>5. CASE Taken({x, y}) = x /\ Left({x, y}) = {y}
      BY <2>3, <2>4, <2>5
    <2>6. CASE Taken({x, y}) = y /\ Left({x, y}) = {x}
      <3>1. iter[{x, y}] = f[y] + f[x]
        BY <2>3, <2>4, <2>6
      <3> QED
        BY <2>4, <3>1
    <2> QED
      BY <2>1, <2>5, <2>6
  <1>6. \/ Taken({a, b, c}) = a /\ Left({a, b, c}) = {b, c}
        \/ Taken({a, b, c}) = b /\ Left({a, b, c}) = {a, c}
        \/ Taken({a, b, c}) = c /\ Left({a, b, c}) = {a, b}
    BY TakenFrom DEF Left
  <1>7. iter[{a, b, c}] = f[Taken({a, b, c})] + iter[Left({a, b, c})]
    <2>1. {a, b, c} \in SUBSET {a, b, c} /\ {a, b, c} # {}
      OBVIOUS
    <2> QED
      BY <1>2, <2>1
  <1>8. /\ iter[{a, b}] = f[a] + f[b] /\ iter[{b, c}] = f[b] + f[c]
        /\ iter[{a, c}] = f[a] + f[c]
    BY <1>5
  <1>9. iter[{a, b, c}] = f[a] + f[b] + f[c]
    <2>1. CASE Taken({a, b, c}) = a /\ Left({a, b, c}) = {b, c}
      <3>1. iter[{a, b, c}] = f[a] + (f[b] + f[c])
        BY <1>7, <1>8, <2>1
      <3> QED
        BY <3>1
    <2>2. CASE Taken({a, b, c}) = b /\ Left({a, b, c}) = {a, c}
      <3>1. iter[{a, b, c}] = f[b] + (f[a] + f[c])
        BY <1>7, <1>8, <2>2
      <3> QED
        BY <3>1
    <2>3. CASE Taken({a, b, c}) = c /\ Left({a, b, c}) = {a, b}
      <3>1. iter[{a, b, c}] = f[c] + (f[a] + f[b])
        BY <1>7, <1>8, <2>3
      <3> QED
        BY <3>1
    <2> QED
      BY <1>6, <2>1, <2>2, <2>3
  <1> QED
    BY <1>1, <1>9

LEMMA CountOfTwo == ASSUME NEW a, NEW b, a # b PROVE Grades!Cardinality({a, b}) = 2
  <1>1. IsFiniteSet({a}) /\ Cardinality({a}) = 1 /\ {a, b} = {a} \cup {b}
    BY FS_Singleton
  <1>2. Cardinality({a, b}) = 2
    BY <1>1, FS_AddElement
  <1>3. Grades!Cardinality({a, b}) = Cardinality({a, b})
    BY Zenon DEF Grades!Cardinality, Cardinality
  <1> QED
    BY <1>2, <1>3

LEMMA CountOfThree ==
    ASSUME NEW a, NEW b, NEW c, a # b, b # c, a # c
    PROVE  Grades!Cardinality({a, b, c}) = 3
  <1>1. IsFiniteSet({a}) /\ Cardinality({a}) = 1 /\ {a, b} = {a} \cup {b}
    BY FS_Singleton
  <1>2. IsFiniteSet({a, b}) /\ Cardinality({a, b}) = 2
    BY <1>1, FS_AddElement
  <1>3. {a, b, c} = {a, b} \cup {c}
    OBVIOUS
  <1>4. Cardinality({a, b, c}) = 3
    BY <1>2, <1>3, FS_AddElement
  <1>5. Grades!Cardinality({a, b, c}) = Cardinality({a, b, c})
    BY Zenon DEF Grades!Cardinality, Cardinality
  <1> QED
    BY <1>4, <1>5

----------------------------------------------------------------------------
(* The legs of a market are graded against one another.                    *)

LEMMA GradeSteps == [Next]_vars => Grades!GradeNext \/ UNCHANGED gradeVars
  BY DEF Next, Only, vars

\* What a market is graded under: the guards of GradeMarket.
Gradable(market, line) ==
    /\ market \in Grades!Market /\ line \in Int
    /\ market \in {"totals", "spreads"} \/ line = 0
    /\ market \in {"dnb", "double_chance", "btts"} => code = "soccer"

Graded(market, line) == [leg \in Grades!Legs(market, line) |-> Grades!Grade(leg)]

\* The facts of a match: what its sport allows its final and its ending to be.
MatchFacts ==
    /\ code \in {"soccer", "basketball", "tennis", "american_football"}
    /\ final["home"] \in Nat /\ final["away"] \in Nat
    /\ code \in {"basketball", "tennis"} => final["home"] # final["away"]
    /\ ending.completion \in {"full", "void", "retired"}
    /\ ending.completion = "retired" => ending.winner \in {"home", "away"}
    /\ code # "tennis" => ending.completion = "full"
    /\ flipped \in BOOLEAN

GradesInv ==
    /\ MatchFacts /\ Grades!GradeTypeOK
    /\ slip = <<>> \/ \E market \in Grades!Market, line \in Int :
                         Gradable(market, line) /\ slip = Graded(market, line)

\* A team's margin is its own score less the other's, however the event lists them.
LEMMA MarginOfTeam ==
    ASSUME MatchFacts
    PROVE  /\ Grades!Margin("home") = final["home"] - final["away"]
           /\ Grades!Margin("away") = final["away"] - final["home"]
           /\ {Grades!Home, Grades!Away} = {"home", "away"} /\ Grades!Home # Grades!Away
           /\ ~flipped => Grades!Home = "home" /\ Grades!Away = "away"
  BY DEF Grades!Margin, Grades!Home, Grades!Away, MatchFacts

\* Two grades that cancel at even odds.
Cancel(one, other) ==
    \/ one = other /\ one \in {"push", "void", "refused"}
    \/ one = "won" /\ other = "lost"
    \/ one = "lost" /\ other = "won"
    \/ one = "half_won" /\ other = "half_lost"
    \/ one = "half_lost" /\ other = "half_won"

LEMMA ComponentsCancel ==
    ASSUME NEW m \in Int, NEW k \in Int, m + k = 0
    PROVE  /\ Cancel(Grades!Component(m), Grades!Component(k))
           /\ m # 0 => Cancel(Grades!Quarter(m), Grades!Quarter(k))
           /\ m # 0 => Cancel(Grades!Won(m > 0), Grades!Won(k > 0))
  <1>1. CASE m > 0
    <2>1. k < 0 /\ ~(k > 0) /\ k # 0
      BY <1>1
    <2>2. Cancel(Grades!Component(m), Grades!Component(k))
      BY <1>1, <2>1 DEF Cancel, Grades!Component
    <2>3. Cancel(Grades!Won(m > 0), Grades!Won(k > 0))
      BY <1>1, <2>1 DEF Cancel, Grades!Won
    <2>4. Grades!Quarter(m) = IF m = 1 THEN "half_won" ELSE "won"
      BY <1>1 DEF Grades!Quarter, Grades!Component
    <2>5. Grades!Quarter(k) = IF m = 1 THEN "half_lost" ELSE "lost"
      BY <1>1 DEF Grades!Quarter, Grades!Component
    <2>6. Cancel(Grades!Quarter(m), Grades!Quarter(k))
      BY <2>4, <2>5 DEF Cancel
    <2> QED
      BY <2>2, <2>3, <2>6
  <1>2. CASE m < 0
    <2>1. k > 0 /\ ~(m > 0) /\ k # 0 /\ m # 0
      BY <1>2
    <2>2. Cancel(Grades!Component(m), Grades!Component(k))
      BY <2>1 DEF Cancel, Grades!Component
    <2>3. Cancel(Grades!Won(m > 0), Grades!Won(k > 0))
      BY <2>1 DEF Cancel, Grades!Won
    <2>4. Grades!Quarter(m) = IF k = 1 THEN "half_lost" ELSE "lost"
      BY <1>2 DEF Grades!Quarter, Grades!Component
    <2>5. Grades!Quarter(k) = IF k = 1 THEN "half_won" ELSE "won"
      BY <1>2 DEF Grades!Quarter, Grades!Component
    <2>6. Cancel(Grades!Quarter(m), Grades!Quarter(k))
      BY <2>4, <2>5 DEF Cancel
    <2> QED
      BY <2>2, <2>3, <2>6
  <1>3. CASE m = 0
    <2>1. k = 0
      BY <1>3
    <2>2. Grades!Component(m) = "push" /\ Grades!Component(k) = "push"
      BY <1>3, <2>1 DEF Grades!Component
    <2> QED
      BY <1>3, <2>2 DEF Cancel
  <1> QED
    BY <1>1, <1>2, <1>3

\* A market of two legs that cancel balances.
LEMMA TwoLegsBalance ==
    ASSUME NEW a, NEW b, a # b, DOMAIN slip = {a, b}, Cancel(slip[a], slip[b]),
           a.market # "double_chance", b.market # "double_chance"
    PROVE  Grades!MarketsBalance
  <1> DEFINE f == [leg \in DOMAIN slip |-> Grades!PnlOf(leg, slip[leg])]
  <1>1. Grades!Cardinality(DOMAIN slip) = 2
    <2>1. Grades!Cardinality({a, b}) = 2
      BY CountOfTwo
    <2> QED
      BY <2>1, Zenon
  <1>2. /\ f[a] = Grades!Pnl(slip[a], 2, 1) /\ f[b] = Grades!Pnl(slip[b], 2, 1)
        /\ DOMAIN f = {a, b}
    BY <1>1 DEF Grades!PnlOf, Grades!Winners
  <1>3. f[a] \in Int /\ f[b] \in Int /\ f[a] + f[b] = 0
    BY <1>2 DEF Grades!Pnl, Cancel
  <1> HIDE DEF f
  <1>4. Grades!SumFunction(f) = 0
    BY <1>2, <1>3, SumOfTwo
  <1>5. \A leg, other \in DOMAIN slip : slip[leg] = "refused" => slip[other] = "refused"
    BY DEF Cancel
  <1> QED
    BY <1>4, <1>5 DEF Grades!MarketsBalance, f

\* One of three grades is this, and the two others are that.
OneOf(one, two, three, this, that) ==
    \/ one = this /\ two = that /\ three = that
    \/ one = that /\ two = this /\ three = that
    \/ one = that /\ two = that /\ three = this

\* A market of three legs balances when the number of winners that it is priced for win.
LEMMA ThreeLegsBalance ==
    ASSUME NEW a, NEW b, NEW c, a # b, b # c, a # c, DOMAIN slip = {a, b, c},
           a.market = b.market, b.market = c.market,
           IF a.market = "double_chance"
           THEN OneOf(slip[a], slip[b], slip[c], "lost", "won")
           ELSE OneOf(slip[a], slip[b], slip[c], "won", "lost")
    PROVE  Grades!MarketsBalance
  <1> DEFINE f == [leg \in DOMAIN slip |-> Grades!PnlOf(leg, slip[leg])]
             n == IF a.market = "double_chance" THEN 2 ELSE 1
  <1>1. Grades!Cardinality(DOMAIN slip) = 3
    <2>1. Grades!Cardinality({a, b, c}) = 3
      BY CountOfThree, Zenon
    <2> QED
      BY <2>1, Zenon
  <1>2. /\ f[a] = Grades!Pnl(slip[a], 3, n) /\ f[b] = Grades!Pnl(slip[b], 3, n)
        /\ f[c] = Grades!Pnl(slip[c], 3, n) /\ DOMAIN f = {a, b, c}
    BY <1>1 DEF Grades!PnlOf, Grades!Winners
  <1>3. f[a] \in Int /\ f[b] \in Int /\ f[c] \in Int /\ f[a] + f[b] + f[c] = 0
    BY <1>2 DEF Grades!Pnl, OneOf
  <1> HIDE DEF f
  <1>4. Grades!SumFunction(f) = 0
    BY <1>2, <1>3, SumOfThree
  <1>5. \A leg, other \in DOMAIN slip : slip[leg] = "refused" => slip[other] = "refused"
    BY DEF OneOf
  <1> QED
    BY <1>4, <1>5 DEF Grades!MarketsBalance, f

----------------------------------------------------------------------------
(* Grading: the legs of each market.                                       *)

LEMMA LegFields ==
    ASSUME NEW market, NEW side, NEW line
    PROVE  LET leg == Grades!Leg(market, side, line)
           IN  /\ leg.market = market /\ leg.side = side
               /\ ~(market = "spreads" /\ side = "away") => leg.line = line
               /\ market = "spreads" /\ side = "away" => leg.line = -line
  BY DEF Grades!Leg

\* A line and its negation are of the same fraction, and a fraction is no whole margin.
LEMMA Fractions ==
    ASSUME NEW line \in Int, NEW goals \in Int
    PROVE  /\ -line \in Int
           /\ Grades!IsQuarter(line) <=> Grades!IsQuarter(-line)
           /\ line % 4 = 0 <=> (-line) % 4 = 0
           /\ Grades!IsQuarter(line) => line % 4 # 0
           /\ line % 4 # 0 => 4 * goals + line # 0
  <1>1. -line \in Int
    OBVIOUS
  <1>2. line % 2 # 0 <=> (-line) % 2 # 0
    OBVIOUS
  <1>3. line % 4 = 0 <=> (-line) % 4 = 0
    OBVIOUS
  <1>4. line % 2 # 0 => line % 4 # 0
    OBVIOUS
  <1>5. line % 4 # 0 => 4 * goals + line # 0
    OBVIOUS
  <1> QED
    BY <1>1, <1>2, <1>3, <1>4, <1>5 DEF Grades!IsQuarter

LEMMA TwoSidesBalance ==
    ASSUME NEW market, NEW line, NEW s, NEW t, s # t, slip = Graded(market, line),
           Grades!Sides(market, line) = {s, t}, market # "double_chance",
           Cancel(Grades!Grade(Grades!Leg(market, s, line)),
                  Grades!Grade(Grades!Leg(market, t, line)))
    PROVE  Grades!MarketsBalance
  <1> DEFINE a == Grades!Leg(market, s, line)
             b == Grades!Leg(market, t, line)
  <1>1. a # b /\ a.market = market /\ b.market = market
    BY LegFields
  <1>2. Grades!Legs(market, line) = {a, b}
    BY DEF Grades!Legs
  <1> HIDE DEF a, b
  <1>3. DOMAIN slip = {a, b} /\ slip[a] = Grades!Grade(a) /\ slip[b] = Grades!Grade(b)
    BY <1>2 DEF Graded
  <1>4. Cancel(slip[a], slip[b])
    BY <1>3 DEF a, b
  <1> QED
    BY <1>1, <1>3, <1>4, TwoLegsBalance

LEMMA ThreeSidesBalance ==
    ASSUME NEW market, NEW line, NEW s, NEW t, NEW u, s # t, t # u, s # u,
           slip = Graded(market, line), Grades!Sides(market, line) = {s, t, u},
           LET one == Grades!Grade(Grades!Leg(market, s, line))
               two == Grades!Grade(Grades!Leg(market, t, line))
               three == Grades!Grade(Grades!Leg(market, u, line))
           IN  IF market = "double_chance" THEN OneOf(one, two, three, "lost", "won")
               ELSE OneOf(one, two, three, "won", "lost")
    PROVE  Grades!MarketsBalance
  <1> DEFINE a == Grades!Leg(market, s, line)
             b == Grades!Leg(market, t, line)
             c == Grades!Leg(market, u, line)
  <1>1. /\ a # b /\ b # c /\ a # c
        /\ a.market = market /\ b.market = market /\ c.market = market
    BY LegFields
  <1>2. Grades!Legs(market, line) = {a, b, c}
    BY DEF Grades!Legs
  <1> HIDE DEF a, b, c
  <1>3. /\ DOMAIN slip = {a, b, c}
        /\ slip[a] = Grades!Grade(a) /\ slip[b] = Grades!Grade(b) /\ slip[c] = Grades!Grade(c)
    BY <1>2 DEF Graded
  <1>4. IF a.market = "double_chance" THEN OneOf(slip[a], slip[b], slip[c], "lost", "won")
        ELSE OneOf(slip[a], slip[b], slip[c], "won", "lost")
    BY <1>1, <1>3 DEF a, b, c
  <1> QED
    BY <1>1, <1>3, <1>4, ThreeLegsBalance

\* The sides of a market, and that only soccer has three of them.
LEMMA SidesOf ==
    ASSUME MatchFacts, NEW market \in Grades!Market, NEW line, Gradable(market, line)
    PROVE  /\ market \in {"h2h", "spreads"} /\ Grades!ThreeWay(market, line) =>
                Grades!Sides(market, line) = {"home", "away", "Draw"}
           /\ market \in {"h2h", "spreads"} /\ ~Grades!ThreeWay(market, line) =>
                Grades!Sides(market, line) = {"home", "away"}
           /\ market = "totals" => Grades!Sides(market, line) = {"Over", "Under"}
           /\ market = "btts" => Grades!Sides(market, line) = {"Yes", "No"}
           /\ market = "dnb" => Grades!Sides(market, line) = {"home", "away"}
           /\ market = "double_chance" => Grades!Sides(market, line) =
                {"home or Draw", "away or Draw", "home or away"}
           /\ Grades!ThreeWay(market, line) => code = "soccer"
  BY DEF MatchFacts, Gradable, Grades!Sides, Grades!ThreeWay, Grades!TwoWayHandicap

\* A match that is void or was given up leaves no leg graded on its score.
LEMMA ShortMatchBalances ==
    ASSUME MatchFacts, ending.completion # "full", NEW market \in Grades!Market, NEW line,
           Gradable(market, line), slip = Graded(market, line)
    PROVE  Grades!MarketsBalance
  <1>1. code = "tennis" /\ market \in {"h2h", "spreads", "totals"}
    BY DEF MatchFacts, Gradable, Grades!Market
  <1>2. PICK s, t : s # t /\ Grades!Sides(market, line) = {s, t}
                    /\ (market = "h2h" => {s, t} = {"home", "away"})
    <2>1. CASE market \in {"h2h", "spreads"}
      <3>1. Grades!Sides(market, line) = {"home", "away"} /\ "home" # "away"
        BY <1>1, <2>1, SidesOf
      <3> QED
        BY <3>1
    <2>2. CASE market = "totals"
      <3>1. Grades!Sides(market, line) = {"Over", "Under"} /\ "Over" # "Under"
        BY <2>2, SidesOf
      <3> QED
        BY <2>2, <3>1
    <2> QED
      BY <1>1, <2>1, <2>2
  <1> DEFINE a == Grades!Leg(market, s, line)
             b == Grades!Leg(market, t, line)
  <1>3. a.market = market /\ b.market = market /\ a.side = s /\ b.side = t
    BY LegFields
  <1> HIDE DEF a, b
  <1>4. CASE ending.completion = "void"
    <2>1. Grades!Grade(a) = "void" /\ Grades!Grade(b) = "void"
      BY <1>4 DEF Grades!Grade
    <2> QED
      BY <1>1, <1>2, <2>1, TwoSidesBalance DEF Cancel, a, b
  <1>5. CASE ending.completion = "retired"
    <2>1. /\ Grades!Grade(a) = Grades!SettledRetired(a)
          /\ Grades!Grade(b) = Grades!SettledRetired(b)
      BY <1>5 DEF Grades!Grade
    <2>2. CASE market # "h2h"
      <3>1. Grades!Grade(a) = "void" /\ Grades!Grade(b) = "void"
        BY <1>3, <2>1, <2>2 DEF Grades!SettledRetired
      <3> QED
        BY <1>1, <1>2, <3>1, TwoSidesBalance DEF Cancel, a, b
    <2>3. CASE market = "h2h"
      <3>1. (IF ending.winner = "home" THEN Grades!Home ELSE Grades!Away) \in {"home", "away"}
        BY DEF Grades!Home, Grades!Away
      <3>2. Cancel(Grades!Grade(a), Grades!Grade(b))
        BY <1>2, <1>3, <2>1, <2>3, <3>1 DEF Grades!SettledRetired, Grades!Won, Cancel
      <3> QED
        BY <1>1, <1>2, <2>3, <3>2, TwoSidesBalance DEF a, b
    <2> QED
      BY <2>2, <2>3
  <1> QED
    BY <1>4, <1>5 DEF MatchFacts

\* Of a match that was played to its end, a leg is graded on its score or refused.
LEMMA FullGrade ==
    ASSUME ending.completion = "full", NEW leg, ~Grades!Ungradeable(leg)
    PROVE  /\ leg.market = "h2h" => Grades!Grade(leg) = Grades!H2H(leg.side)
           /\ leg.market = "totals" => Grades!Grade(leg) = Grades!Totals(leg.side, leg.line)
           /\ leg.market = "dnb" =>
                Grades!Grade(leg) = Grades!Component(Grades!Margin(leg.side))
           /\ leg.market = "btts" => Grades!Grade(leg) =
                Grades!Won((leg.side = "Yes") = (final["home"] > 0 /\ final["away"] > 0))
           /\ leg.market = "double_chance" => Grades!Grade(leg) = Grades!DoubleChance(leg.side)
           /\ leg.market = "spreads" => Grades!Grade(leg) = Grades!Spreads(leg.side, leg.line)
  BY DEF Grades!Grade, Grades!Settled

\* Sets and games are read by the market's line, whichever its side.
LEMMA RefusedTogether ==
    ASSUME MatchFacts, NEW market, NEW line \in Int, NEW s, NEW t,
           Grades!Ungradeable(Grades!Leg(market, s, line))
    PROVE  /\ Grades!Ungradeable(Grades!Leg(market, t, line))
           /\ code = "tennis" /\ market \in {"spreads", "totals"}
  <1>1. -line \in Int /\ -(-line) = line
    OBVIOUS
  <1>2. -line > Grades!MaxSetSpread \/ -(-line) > Grades!MaxSetSpread
          <=> line > Grades!MaxSetSpread \/ -line > Grades!MaxSetSpread
    BY <1>1
  <1> HIDE DEF Grades!MaxSetSpread
  <1> QED
    BY <1>2, LegFields DEF Grades!Ungradeable

LEMMA H2HBalances ==
    ASSUME MatchFacts, ending.completion = "full", Gradable("h2h", 0), slip = Graded("h2h", 0)
    PROVE  Grades!MarketsBalance
  <1> DEFINE leg(side) == Grades!Leg("h2h", side, 0)
  <1>1. \A side : leg(side).market = "h2h" /\ leg(side).side = side
    BY LegFields
  <1>2. \A side : Grades!Grade(leg(side)) = Grades!H2H(side)
    BY <1>1, FullGrade DEF Grades!Ungradeable
  <1> HIDE DEF leg
  <1>3. /\ Grades!Margin("home") = final["home"] - final["away"]
        /\ Grades!Margin("away") = final["away"] - final["home"]
        /\ final["home"] \in Nat /\ final["away"] \in Nat
    BY MarginOfTeam DEF MatchFacts
  <1>4. "h2h" \in Grades!Market
    BY DEF Grades!Market
  <1>5. CASE code = "soccer"
    <2>1. Grades!Sides("h2h", 0) = {"home", "away", "Draw"}
      BY <1>4, <1>5, SidesOf DEF Grades!ThreeWay
    <2>2. ~Grades!TieRefunds
      BY <1>5 DEF Grades!TieRefunds
    <2>3. OneOf(Grades!H2H("home"), Grades!H2H("away"), Grades!H2H("Draw"), "won", "lost")
      BY <1>3, <2>2 DEF Grades!H2H, Grades!Won, OneOf
    <2> QED
      BY <1>2, <2>1, <2>3, ThreeSidesBalance DEF leg
  <1>6. CASE code # "soccer"
    <2>1. Grades!Sides("h2h", 0) = {"home", "away"}
      BY <1>4, <1>6, SidesOf DEF Grades!ThreeWay
    <2>2. Cancel(Grades!H2H("home"), Grades!H2H("away"))
      <3>1. CASE final["home"] = final["away"]
        <4>1. Grades!TieRefunds
          BY <1>6, <3>1 DEF Grades!TieRefunds, MatchFacts
        <4> QED
          BY <1>3, <3>1, <4>1 DEF Grades!H2H, Cancel
      <3>2. CASE final["home"] # final["away"]
        <4>1. Grades!Margin("home") # 0 /\ Grades!Margin("away") # 0
          BY <1>3, <3>2
        <4>2. /\ Grades!H2H("home") = Grades!Won(Grades!Margin("home") > 0)
              /\ Grades!H2H("away") = Grades!Won(Grades!Margin("away") > 0)
          BY <4>1 DEF Grades!H2H
        <4> QED
          BY <1>3, <3>2, <4>2 DEF Grades!Won, Cancel
      <3> QED
        BY <3>1, <3>2
    <2> QED
      BY <1>2, <2>1, <2>2, TwoSidesBalance DEF leg
  <1> QED
    BY <1>5, <1>6

\* Both teams to score, draw no bet and double chance, which are soccer's.
LEMMA SoccerMarketsBalance ==
    ASSUME MatchFacts, ending.completion = "full", NEW market,
           market \in {"btts", "dnb", "double_chance"},
           Gradable(market, 0), slip = Graded(market, 0)
    PROVE  Grades!MarketsBalance
  <1> DEFINE leg(side) == Grades!Leg(market, side, 0)
  <1>1. \A side : leg(side).market = market /\ leg(side).side = side
    BY LegFields
  <1>2. \A side : ~Grades!Ungradeable(leg(side))
    BY <1>1 DEF Grades!Ungradeable
  <1> HIDE DEF leg
  <1>3. /\ Grades!Margin("home") = final["home"] - final["away"]
        /\ Grades!Margin("away") = final["away"] - final["home"]
        /\ final["home"] \in Nat /\ final["away"] \in Nat
    BY MarginOfTeam DEF MatchFacts
  <1>4. market \in Grades!Market
    BY DEF Grades!Market
  <1>5. CASE market = "btts"
    <2>1. Grades!Sides(market, 0) = {"Yes", "No"}
      BY <1>4, <1>5, SidesOf
    <2>2. /\ Grades!Grade(leg("Yes")) = Grades!Won(TRUE = (final["home"] > 0 /\ final["away"] > 0))
          /\ Grades!Grade(leg("No")) = Grades!Won(FALSE = (final["home"] > 0 /\ final["away"] > 0))
      BY <1>1, <1>2, <1>5, FullGrade
    <2>3. Cancel(Grades!Grade(leg("Yes")), Grades!Grade(leg("No")))
      BY <2>2 DEF Grades!Won, Cancel
    <2> QED
      BY <1>5, <2>1, <2>3, TwoSidesBalance DEF leg
  <1>6. CASE market = "dnb"
    <2>1. Grades!Sides(market, 0) = {"home", "away"}
      BY <1>4, <1>6, SidesOf
    <2>2. /\ Grades!Grade(leg("home")) = Grades!Component(Grades!Margin("home"))
          /\ Grades!Grade(leg("away")) = Grades!Component(Grades!Margin("away"))
      BY <1>1, <1>2, <1>6, FullGrade
    <2>3. Cancel(Grades!Grade(leg("home")), Grades!Grade(leg("away")))
      <3>1. Grades!Margin("home") \in Int /\ Grades!Margin("away") \in Int
            /\ Grades!Margin("home") + Grades!Margin("away") = 0
        BY <1>3
      <3> QED
        BY <2>2, <3>1, ComponentsCancel
    <2> QED
      BY <1>6, <2>1, <2>3, TwoSidesBalance DEF leg
  <1>7. CASE market = "double_chance"
    <2> DEFINE x == "home or Draw"
               y == "away or Draw"
               z == "home or away"
    <2>1. x # y /\ y # z /\ x # z
      OBVIOUS
    <2>2. Grades!Sides(market, 0) = {x, y, z}
      BY <1>4, <1>7, SidesOf, Zenon
    <2>3. /\ Grades!DoubleChance(x) = Grades!Won(Grades!Margin("home") >= 0)
          /\ Grades!DoubleChance(y) = Grades!Won(Grades!Margin("away") >= 0)
          /\ Grades!DoubleChance(z) = Grades!Won(Grades!Margin("home") # 0)
      BY DEF Grades!DoubleChance
    <2> HIDE DEF x, y, z
    <2>4. \A side : Grades!Grade(leg(side)) = Grades!DoubleChance(side)
      BY <1>1, <1>2, <1>7, FullGrade
    <2>5. OneOf(Grades!DoubleChance(x), Grades!DoubleChance(y), Grades!DoubleChance(z),
                "lost", "won")
      <3>1. CASE final["home"] > final["away"]
        <4>1. Grades!Margin("home") > 0 /\ ~(Grades!Margin("away") >= 0)
          BY <1>3, <3>1
        <4> QED
          BY <1>3, <2>3, <4>1 DEF Grades!Won, OneOf
      <3>2. CASE final["home"] = final["away"]
        <4>1. Grades!Margin("home") = 0 /\ Grades!Margin("away") = 0
          BY <1>3, <3>2
        <4> QED
          BY <2>3, <4>1 DEF Grades!Won, OneOf
      <3>3. CASE final["home"] < final["away"]
        <4>1. Grades!Margin("home") < 0 /\ Grades!Margin("away") > 0
          BY <1>3, <3>3
        <4> QED
          BY <1>3, <2>3, <4>1 DEF Grades!Won, OneOf
      <3> QED
        BY <1>3, <3>1, <3>2, <3>3
    <2>6. OneOf(Grades!Grade(leg(x)), Grades!Grade(leg(y)), Grades!Grade(leg(z)), "lost", "won")
      BY <2>4, <2>5
    <2> QED
      BY <1>7, <2>1, <2>2, <2>6, ThreeSidesBalance DEF leg
  <1> QED
    BY <1>5, <1>6, <1>7

LEMMA TotalsBalance ==
    ASSUME MatchFacts, ending.completion = "full", NEW line \in Int,
           Gradable("totals", line), slip = Graded("totals", line)
    PROVE  Grades!MarketsBalance
  <1> DEFINE a == Grades!Leg("totals", "Over", line)
             b == Grades!Leg("totals", "Under", line)
             m == 4 * Grades!Total - line
             k == line - 4 * Grades!Total
  <1>1. /\ a.market = "totals" /\ b.market = "totals" /\ a.side = "Over" /\ b.side = "Under"
        /\ a.line = line /\ b.line = line
    BY LegFields
  <1>2. Grades!Sides("totals", line) = {"Over", "Under"} /\ "Over" # "Under"
    BY SidesOf DEF Grades!Market
  <1>3. /\ m \in Int /\ k \in Int /\ m + k = 0
        /\ Grades!IsQuarter(line) => m # 0
    <2>1. Grades!Total \in Int
      BY DEF Grades!Total, MatchFacts
    <2>2. m \in Int /\ k \in Int /\ m + k = 0
      BY <2>1
    <2>3. line % 4 # 0 => 4 * (-Grades!Total) + line # 0
      BY <2>1, Fractions
    <2> QED
      BY <2>1, <2>2, <2>3, Fractions
  <1> HIDE DEF a, b
  <1>4. CASE Grades!Ungradeable(a)
    <2>1. Grades!Ungradeable(b)
      BY <1>4, RefusedTogether DEF a, b
    <2>2. Grades!Grade(a) = "refused" /\ Grades!Grade(b) = "refused"
      BY <1>4, <2>1 DEF Grades!Grade, Grades!Settled
    <2> QED
      BY <1>2, <2>2, TwoSidesBalance DEF Cancel, a, b
  <1>5. CASE ~Grades!Ungradeable(a)
    <2>1. ~Grades!Ungradeable(b)
      BY <1>5, RefusedTogether DEF a, b
    <2>2. /\ Grades!Grade(a) = IF Grades!IsQuarter(line) THEN Grades!Quarter(m)
                               ELSE Grades!Component(m)
          /\ Grades!Grade(b) = IF Grades!IsQuarter(line) THEN Grades!Quarter(k)
                               ELSE Grades!Component(k)
      BY <1>1, <1>5, <2>1, FullGrade DEF Grades!Totals
    <2> HIDE DEF m, k
    <2>3. Cancel(Grades!Grade(a), Grades!Grade(b))
      BY <1>3, <2>2, ComponentsCancel
    <2> QED
      BY <1>2, <2>3, TwoSidesBalance DEF a, b
  <1> QED
    BY <1>4, <1>5

\* The margins of the two teams after the handicap.
LEMMA Handicapped ==
    ASSUME MatchFacts, NEW line \in Int
    PROVE  LET m == 4 * Grades!Margin("home") + line
               k == 4 * Grades!Margin("away") + (-line)
           IN  m \in Int /\ k \in Int /\ m + k = 0 /\ (line % 4 # 0 => m # 0)
  <1>1. /\ Grades!Margin("home") = final["home"] - final["away"]
        /\ Grades!Margin("away") = final["away"] - final["home"]
        /\ final["home"] \in Nat /\ final["away"] \in Nat
    BY MarginOfTeam DEF MatchFacts
  <1>2. Grades!Margin("home") \in Int
    BY <1>1
  <1>3. line % 4 # 0 => 4 * Grades!Margin("home") + line # 0
    BY <1>2, Fractions
  <1> QED
    BY <1>1, <1>3

LEMMA SpreadsBalance ==
    ASSUME MatchFacts, ending.completion = "full", NEW line \in Int,
           Gradable("spreads", line), slip = Graded("spreads", line)
    PROVE  Grades!MarketsBalance
  <1> DEFINE a == Grades!Leg("spreads", "home", line)
             b == Grades!Leg("spreads", "away", line)
             c == Grades!Leg("spreads", "Draw", line)
             m == 4 * Grades!Margin("home") + line
             k == 4 * Grades!Margin("away") + (-line)
  <1>1. /\ a.market = "spreads" /\ a.side = "home" /\ a.line = line
        /\ b.market = "spreads" /\ b.side = "away" /\ b.line = -line
        /\ c.market = "spreads" /\ c.side = "Draw" /\ c.line = line
    BY LegFields
  <1>2. m \in Int /\ k \in Int /\ m + k = 0 /\ (line % 4 # 0 => m # 0)
    BY Handicapped
  <1>3. "spreads" \in Grades!Market
    BY DEF Grades!Market
  <1>4. /\ Grades!IsQuarter(line) <=> Grades!IsQuarter(-line)
        /\ line % 4 = 0 <=> (-line) % 4 = 0
        /\ Grades!IsQuarter(line) => line % 4 # 0
    BY Fractions
  <1> HIDE DEF a, b, c
  <1>5. CASE Grades!Ungradeable(a)
    <2>1. Grades!Ungradeable(b) /\ code = "tennis"
      BY <1>5, RefusedTogether DEF a, b
    <2>2. Grades!Grade(a) = "refused" /\ Grades!Grade(b) = "refused"
      BY <1>5, <2>1 DEF Grades!Grade, Grades!Settled
    <2>3. Grades!Sides("spreads", line) = {"home", "away"}
      BY <1>3, <2>1, SidesOf
    <2> QED
      BY <2>2, <2>3, TwoSidesBalance DEF Cancel, a, b
  <1>6. CASE ~Grades!Ungradeable(a)
    <2>1. ~Grades!Ungradeable(b) /\ ~Grades!Ungradeable(c)
      BY <1>6, RefusedTogether DEF a, b, c
    <2>2. /\ Grades!Grade(a) =
               IF Grades!IsQuarter(line) THEN Grades!Quarter(m)
               ELSE IF m = 0 /\ ~Grades!TwoWayHandicap THEN "lost" ELSE Grades!Component(m)
          /\ Grades!Grade(b) =
               IF Grades!IsQuarter(line) THEN Grades!Quarter(k)
               ELSE IF k = 0 /\ ~Grades!TwoWayHandicap THEN "lost" ELSE Grades!Component(k)
      <3>1. /\ Grades!Grade(a) = Grades!Spreads("home", line)
            /\ Grades!Grade(b) = Grades!Spreads("away", -line)
        BY <1>1, <1>6, <2>1, FullGrade
      <3> QED
        BY <1>4, <3>1 DEF Grades!Spreads
    <2>3. CASE Grades!ThreeWay("spreads", line)
      <3>1. line % 4 = 0 /\ ~Grades!TwoWayHandicap /\ ~Grades!IsQuarter(line)
        BY <1>4, <2>3 DEF Grades!ThreeWay
      <3>2. Grades!Sides("spreads", line) = {"home", "away", "Draw"}
        BY <1>3, <2>3, SidesOf
      <3>3. CASE flipped
        <4>1. c \in DOMAIN slip
          BY <3>2 DEF Graded, Grades!Legs, c
        <4>2. Grades!DrawOnFlippedEvent
          BY <1>1, <3>3, <4>1 DEF Grades!DrawOnFlippedEvent
        <4>3. Grades!Grade(a) # "refused" /\ Grades!Grade(b) # "refused"
          BY <2>2, <3>1 DEF Grades!Component
        <4>4. Grades!Grade(c) # "refused"
          BY <1>1, <2>1, <3>1, FullGrade DEF Grades!Spreads, Grades!Won
        <4>5. DOMAIN slip = {a, b, c} /\ \A leg \in {a, b, c} : slip[leg] = Grades!Grade(leg)
          BY <3>2 DEF Graded, Grades!Legs, a, b, c
        <4> QED
          BY <4>2, <4>3, <4>4, <4>5 DEF Grades!MarketsBalance
      <3>4. CASE ~flipped
        <4>1. Grades!Home = "home" /\ Grades!Away = "away"
          BY <3>4, MarginOfTeam
        <4>2. Grades!Grade(c) = Grades!Won(4 * final["home"] + line = 4 * final["away"])
          BY <1>1, <2>1, <3>1, <4>1, FullGrade DEF Grades!Spreads
        <4>3. 4 * final["home"] + line = 4 * final["away"] <=> m = 0
          BY MarginOfTeam DEF MatchFacts
        <4>4. OneOf(Grades!Grade(a), Grades!Grade(b), Grades!Grade(c), "won", "lost")
          <5> HIDE DEF m, k
          <5>1. Grades!Grade(c) = IF m = 0 THEN "won" ELSE "lost"
            BY <4>2, <4>3 DEF Grades!Won
          <5>2. k = 0 <=> m = 0
            BY <1>2
          <5>3. k > 0 <=> m < 0
            BY <1>2
          <5> QED
            BY <1>2, <2>2, <3>1, <5>1, <5>2, <5>3 DEF Grades!Component, OneOf
        <4> QED
          BY <3>2, <4>4, ThreeSidesBalance DEF a, b, c
      <3> QED
        BY <3>3, <3>4
    <2>4. CASE ~Grades!ThreeWay("spreads", line)
      <3>1. Grades!Sides("spreads", line) = {"home", "away"}
        BY <1>3, <2>4, SidesOf
      <3>2. Grades!TwoWayHandicap \/ line % 4 # 0
        BY <2>4 DEF Grades!ThreeWay
      <3>3. Cancel(Grades!Grade(a), Grades!Grade(b))
        <4> HIDE DEF m, k
        <4>1. k = 0 <=> m = 0
          BY <1>2
        <4> QED
          BY <1>2, <1>4, <2>2, <3>2, <4>1, ComponentsCancel
      <3> QED
        BY <3>1, <3>3, TwoSidesBalance DEF a, b
    <2> QED
      BY <2>3, <2>4
  <1> QED
    BY <1>5, <1>6

\* Every market, of every match.
LEMMA EveryMarketBalances == GradesInv => Grades!MarketsBalance
  <1> SUFFICES ASSUME GradesInv PROVE Grades!MarketsBalance
    OBVIOUS
  <1>1. CASE slip = <<>>
    <2> DEFINE f == [leg \in DOMAIN slip |-> Grades!PnlOf(leg, slip[leg])]
    <2>1. DOMAIN slip = {}
      BY <1>1
    <2>2. DOMAIN f = {}
      BY <2>1
    <2> HIDE DEF f
    <2>3. Grades!SumFunction(f) = 0
      BY <2>2, SumOfNone
    <2> QED
      BY <2>1, <2>3 DEF f, Grades!MarketsBalance
  <1>2. CASE \E market \in Grades!Market, line \in Int :
               Gradable(market, line) /\ slip = Graded(market, line)
    <2>1. PICK market \in Grades!Market, line \in Int :
                 Gradable(market, line) /\ slip = Graded(market, line)
      BY <1>2
    <2>2. CASE ending.completion # "full"
      BY <2>1, <2>2, ShortMatchBalances DEF GradesInv
    <2>3. CASE ending.completion = "full"
      <3>1. CASE market = "totals"
        BY <2>1, <2>3, <3>1, TotalsBalance DEF GradesInv
      <3>2. CASE market = "spreads"
        BY <2>1, <2>3, <3>2, SpreadsBalance DEF GradesInv
      <3>3. CASE market = "h2h"
        <4>1. line = 0
          BY <2>1, <3>3 DEF Gradable
        <4> QED
          BY <2>1, <2>3, <3>3, <4>1, H2HBalances DEF GradesInv
      <3>4. CASE market \in {"btts", "dnb", "double_chance"}
        <4>1. line = 0
          BY <2>1, <3>4 DEF Gradable
        <4> QED
          BY <2>1, <2>3, <3>4, <4>1, SoccerMarketsBalance DEF GradesInv
      <3> QED
        BY <3>1, <3>2, <3>3, <3>4 DEF Grades!Market
    <2> QED
      BY <2>2, <2>3
  <1> QED
    BY <1>1, <1>2 DEF GradesInv

\* A quarter line is the mean of its neighbours, which are half and whole lines.
LEMMA QuarterOfComponents ==
    ASSUME NEW m \in Int, m # 0
    PROVE  LET low == Grades!Component(m - 1)
               high == Grades!Component(m + 1)
           IN  2 * Grades!Pnl(Grades!Quarter(m), 2, 1)
                 = Grades!Pnl(low, 2, 1) + Grades!Pnl(high, 2, 1)
  <1> DEFINE low == Grades!Component(m - 1)
             high == Grades!Component(m + 1)
  <1>1. CASE m > 1
    <2>1. low = "won" /\ high = "won"
      BY <1>1 DEF Grades!Component
    <2>2. Grades!Quarter(m) = "won"
      BY <2>1 DEF Grades!Quarter
    <2> QED
      BY <2>1, <2>2 DEF Grades!Pnl
  <1>2. CASE m = 1
    <2>1. low = "push" /\ high = "won"
      BY <1>2 DEF Grades!Component
    <2>2. Grades!Quarter(m) = "half_won"
      BY <2>1 DEF Grades!Quarter
    <2> QED
      BY <2>1, <2>2 DEF Grades!Pnl
  <1>3. CASE m < 0 /\ m + 1 = 0
    <2>1. low = "lost" /\ high = "push"
      BY <1>3 DEF Grades!Component
    <2>2. Grades!Quarter(m) = "half_lost"
      BY <2>1 DEF Grades!Quarter
    <2> QED
      BY <2>1, <2>2 DEF Grades!Pnl
  <1>4. CASE m < 0 /\ m + 1 # 0
    <2>1. low = "lost" /\ high = "lost"
      BY <1>4 DEF Grades!Component
    <2>2. Grades!Quarter(m) = "lost"
      BY <2>1 DEF Grades!Quarter
    <2> QED
      BY <2>1, <2>2 DEF Grades!Pnl
  <1> QED
    BY <1>1, <1>2, <1>3, <1>4

\* The grades of a leg whose line is a quarter less, and a quarter more.
Beside(leg) == { Grades!Settled([leg EXCEPT !.line = @ + d]) : d \in {-1, 1} }

\* The line of a leg, moved by a quarter, moves its margin by as much.
LEMMA MovedLine ==
    ASSUME MatchFacts, ending.completion = "full",
           NEW market \in {"totals", "spreads"}, NEW line \in Int, NEW side,
           side \in Grades!Sides(market, line),
           NEW leg, leg = Grades!Leg(market, side, line), Gradable(market, line),
           Grades!IsQuarter(leg.line), Grades!Grade(leg) # "refused",
           market = "totals" \/ Grades!TwoWayHandicap,
           "refused" \notin Beside(leg)
    PROVE  \E m \in Int : /\ m # 0 /\ Grades!Grade(leg) = Grades!Quarter(m)
                          /\ Beside(leg) = {Grades!Component(m - 1), Grades!Component(m + 1)}
  <1> DEFINE n == leg.line
             moved(d) == [leg EXCEPT !.line = @ + d]
  <1>1. /\ leg.market = market /\ leg.side = side /\ n \in Int
        /\ \A d : moved(d).market = market /\ moved(d).side = side /\ moved(d).line = n + d
        /\ market = "totals" => n = line
    BY DEF Grades!Leg
  <1> HIDE DEF moved
  <1>2. n + 1 \in Int /\ n + (-1) \in Int /\ n % 2 # 0 /\ (n + 1) % 2 = 0 /\ (n + (-1)) % 2 = 0
    <2>1. n % 2 # 0
      BY DEF Grades!IsQuarter
    <2> HIDE DEF n
    <2> QED
      BY <1>1, <2>1
  <1>3. /\ Grades!Grade(leg) = Grades!Settled(leg) /\ ~Grades!Ungradeable(leg)
        /\ \A d \in {-1, 1} : ~Grades!Ungradeable(moved(d))
    BY DEF Grades!Grade, Grades!Settled, Beside, moved
  <1>4. CASE market = "totals"
    <2>1. side = "Over" \/ side = "Under"
      <3>1. Grades!Sides(market, line) = {"Over", "Under"}
        BY <1>4 DEF Grades!Sides
      <3> QED
        BY <3>1
    <2> DEFINE m(l) == IF side = "Over" THEN 4 * Grades!Total - l ELSE l - 4 * Grades!Total
    <2>2. Grades!Total \in Int
      BY DEF Grades!Total, MatchFacts
    <2>3. /\ Grades!Grade(leg) = Grades!Quarter(m(n))
          /\ \A d \in {-1, 1} : Grades!Settled(moved(d)) = Grades!Component(m(n + d))
      <3>1. Grades!Grade(leg) = Grades!Totals(side, n)
        BY <1>1, <1>3, <1>4 DEF Grades!Settled
      <3>2. \A d \in {-1, 1} : Grades!Settled(moved(d)) = Grades!Totals(side, n + d)
        BY <1>1, <1>3, <1>4 DEF Grades!Settled
      <3> HIDE DEF n
      <3> QED
        BY <1>2, <3>1, <3>2 DEF Grades!Totals, Grades!IsQuarter
    <2>4. m(n) \in Int /\ m(n) # 0
      <3>1. 4 * (-Grades!Total) + n # 0
        BY <1>1, <1>2, <2>2, Fractions DEF Grades!IsQuarter
      <3> HIDE DEF n
      <3> QED
        BY <1>1, <2>2, <3>1
    <2>5. {m(n + (-1)), m(n + 1)} = {m(n) - 1, m(n) + 1}
      <3> HIDE DEF n
      <3>1. CASE side = "Over"
        <4>1. m(n + (-1)) = m(n) + 1 /\ m(n + 1) = m(n) - 1
          BY <1>1, <2>2, <3>1
        <4> QED
          BY <4>1
      <3>2. CASE side = "Under"
        <4>1. m(n + (-1)) = m(n) - 1 /\ m(n + 1) = m(n) + 1
          BY <1>1, <2>2, <3>2
        <4> QED
          BY <4>1
      <3> QED
        BY <2>1, <3>1, <3>2
    <2> HIDE DEF m, n
    <2>6. Beside(leg) = {Grades!Component(m(n + (-1))), Grades!Component(m(n + 1))}
      BY <2>3 DEF Beside, moved
    <2>7. {Grades!Component(m(n + (-1))), Grades!Component(m(n + 1))}
            = {Grades!Component(m(n) - 1), Grades!Component(m(n) + 1)}
      BY <2>5
    <2> QED
      BY <2>3, <2>4, <2>6, <2>7
  <1>5. CASE market = "spreads"
    <2>1. Grades!TwoWayHandicap /\ (side = "home" \/ side = "away")
      BY <1>5, SidesOf DEF Grades!Market, Grades!ThreeWay
    <2> DEFINE m(l) == 4 * Grades!Margin(side) + l
    <2>2. Grades!Margin(side) \in Int
      BY <2>1, MarginOfTeam DEF MatchFacts
    <2>3. /\ Grades!Grade(leg) = Grades!Quarter(m(n))
          /\ \A d \in {-1, 1} : Grades!Settled(moved(d)) = Grades!Component(m(n + d))
      <3>1. Grades!Grade(leg) = Grades!Spreads(side, n)
        BY <1>1, <1>3, <1>5 DEF Grades!Settled
      <3>2. \A d \in {-1, 1} : Grades!Settled(moved(d)) = Grades!Spreads(side, n + d)
        BY <1>1, <1>3, <1>5 DEF Grades!Settled
      <3> HIDE DEF n
      <3> QED
        BY <1>2, <2>1, <3>1, <3>2 DEF Grades!Spreads, Grades!IsQuarter
    <2>4. m(n) \in Int /\ m(n) # 0
      BY <1>1, <1>2, <2>2, Fractions DEF Grades!IsQuarter
    <2>5. m(n + (-1)) = m(n) - 1 /\ m(n + 1) = m(n) + 1
      <3> HIDE DEF n
      <3> QED
        BY <1>1, <2>2
    <2> HIDE DEF m, n
    <2>6. Beside(leg) = {Grades!Component(m(n + (-1))), Grades!Component(m(n + 1))}
      BY <2>3 DEF Beside, moved
    <2> QED
      BY <2>3, <2>4, <2>5, <2>6
  <1> QED
    BY <1>4, <1>5

LEMMA EveryQuarterIsTheMean == GradesInv => Grades!QuarterIsTheMean
  <1> SUFFICES ASSUME GradesInv, NEW leg \in DOMAIN slip,
                      Grades!IsQuarter(leg.line), ending.completion = "full",
                      slip[leg] # "refused",
                      leg.market = "totals" \/ Grades!TwoWayHandicap,
                      "refused" \notin Beside(leg)
               PROVE  \E low, high \in Beside(leg) :
                        /\ Beside(leg) = {low, high}
                        /\ 2 * Grades!Pnl(slip[leg], 2, 1)
                             = Grades!Pnl(low, 2, 1) + Grades!Pnl(high, 2, 1)
    BY DEF Grades!QuarterIsTheMean, Beside
  <1>1. slip # <<>>
    OBVIOUS
  <1>2. PICK market \in Grades!Market, line \in Int :
               Gradable(market, line) /\ slip = Graded(market, line)
    BY <1>1 DEF GradesInv
  <1>3. leg \in Grades!Legs(market, line) /\ slip[leg] = Grades!Grade(leg)
    BY <1>2 DEF Graded
  <1>4. PICK side \in Grades!Sides(market, line) : leg = Grades!Leg(market, side, line)
    BY <1>3 DEF Grades!Legs
  <1>5. market \in {"totals", "spreads"} /\ leg.market = market
    <2>1. leg.market = market /\ (market # "spreads" => leg.line = line)
      BY <1>4, LegFields
    <2>2. ~Grades!IsQuarter(0)
      BY DEF Grades!IsQuarter
    <2> QED
      BY <1>2, <2>1, <2>2 DEF Gradable
  <1>6. /\ MatchFacts /\ Grades!Grade(leg) # "refused"
        /\ market = "totals" \/ Grades!TwoWayHandicap
    BY <1>3, <1>5 DEF GradesInv
  <1>7. PICK m \in Int :
          /\ m # 0 /\ Grades!Grade(leg) = Grades!Quarter(m)
          /\ Beside(leg) = {Grades!Component(m - 1), Grades!Component(m + 1)}
    BY <1>2, <1>4, <1>5, <1>6, MovedLine
  <1> QED
    BY <1>3, <1>7, QuarterOfComponents

\* Every leg has one of the outcomes.
LEMMA GradesAreOutcomes ==
    ASSUME MatchFacts, NEW market \in Grades!Market, NEW line \in Int, Gradable(market, line),
           NEW leg \in Grades!Legs(market, line)
    PROVE  Grades!Grade(leg) \in Grades!Outcomes
  <1>1. PICK side \in Grades!Sides(market, line) : leg = Grades!Leg(market, side, line)
    BY DEF Grades!Legs
  <1>2. leg.market = market /\ leg.side = side
    BY <1>1, LegFields
  <1>3. /\ \A p : Grades!Won(p) \in Grades!Outcomes
        /\ \A p : Grades!Component(p) \in Grades!Outcomes
        /\ \A p : Grades!Quarter(p) \in Grades!Outcomes
    BY DEF Grades!Won, Grades!Component, Grades!Quarter, Grades!Outcomes
  <1>4. CASE ending.completion # "full"
    BY <1>3, <1>4 DEF MatchFacts, Grades!Grade, Grades!SettledRetired, Grades!Outcomes
  <1>5. CASE ending.completion = "full"
    <2>1. CASE Grades!Ungradeable(leg)
      BY <1>5, <2>1 DEF Grades!Grade, Grades!Settled, Grades!Outcomes
    <2>2. CASE ~Grades!Ungradeable(leg) /\ market # "double_chance"
      <3>1. \A s, l : /\ Grades!H2H(s) \in Grades!Outcomes
                      /\ Grades!Totals(s, l) \in Grades!Outcomes
                      /\ Grades!Spreads(s, l) \in Grades!Outcomes
        BY <1>3 DEF Grades!H2H, Grades!Totals, Grades!Spreads, Grades!Outcomes
      <3> QED
        BY <1>2, <1>3, <1>5, <2>2, <3>1, FullGrade DEF Grades!Market
    <2>3. CASE ~Grades!Ungradeable(leg) /\ market = "double_chance"
      <3>1. Grades!Grade(leg) = Grades!DoubleChance(side)
        BY <1>2, <1>5, <2>3, FullGrade
      <3>2. side \in {"home or Draw", "away or Draw", "home or away"}
        BY <2>3, SidesOf, Zenon
      <3>3. Grades!DoubleChance(side) \in Grades!Outcomes
        BY <1>3, <3>2, Zenon DEF Grades!DoubleChance
      <3> QED
        BY <3>1, <3>3
    <2> QED
      BY <2>1, <2>2, <2>3
  <1> QED
    BY <1>4, <1>5

\* The grades follow from the match alone.
LEMMA GradesAreOfTheMatch ==
    ASSUME UNCHANGED <<code, final, ending, flipped, axis>>, NEW market, NEW line
    PROVE  /\ Gradable(market, line)' <=> Gradable(market, line)
           /\ Graded(market, line)' = Graded(market, line)
  BY DEF Gradable, Graded, Grades!Grade, Grades!SettledRetired, Grades!Settled,
     Grades!Legs, Grades!Leg, Grades!Sides, Grades!ThreeWay, Grades!TwoWayHandicap,
     Grades!Ungradeable, Grades!Total, Grades!H2H, Grades!TieRefunds, Grades!Margin,
     Grades!Home, Grades!Away, Grades!Totals, Grades!Spreads, Grades!DoubleChance

LEMMA GradeInvariant == Spec => []GradesInv
  <1>1. Init => GradesInv
    <2> SUFFICES ASSUME Grades!GradeInit PROVE GradesInv
      BY DEF Init
    <2>1. Goals \subseteq Nat
      BY PlatformAssumption DEF Grades!GradeAssumption
    <2>2. MatchFacts
      BY <2>1 DEF Grades!GradeInit, MatchFacts
    <2>3. Grades!GradeTypeOK /\ slip = <<>>
      BY DEF Grades!GradeInit, Grades!GradeTypeOK
    <2> QED
      BY <2>2, <2>3 DEF GradesInv
  <1>2. GradesInv /\ [Next]_vars => GradesInv'
    <2> SUFFICES ASSUME GradesInv, [Next]_vars PROVE GradesInv'
      OBVIOUS
    <2>1. CASE Grades!GradeNext
      <3>1. PICK market \in Grades!Market, line \in Lines : Grades!GradeMarket(market, line)
        BY <2>1 DEF Grades!GradeNext
      <3>2. line \in Int
        BY PlatformAssumption DEF Grades!GradeAssumption
      <3>3. /\ code' = code /\ final' = final /\ ending' = ending /\ flipped' = flipped
            /\ axis' = axis /\ slip' = Graded(market, line) /\ Gradable(market, line)
        BY <3>1, <3>2 DEF Grades!GradeMarket, Graded, Gradable
      <3>4. MatchFacts /\ MatchFacts'
        BY <3>3 DEF GradesInv, MatchFacts
      <3>5. /\ Gradable(market, line)' /\ Graded(market, line)' = Graded(market, line)
        BY <3>3, GradesAreOfTheMatch
      <3>6. \A leg \in DOMAIN slip' : slip'[leg] \in Grades!Outcomes
        BY <3>2, <3>3, <3>4, GradesAreOutcomes DEF Graded
      <3>7. Grades!GradeTypeOK'
        BY <3>3, <3>6 DEF GradesInv, Grades!GradeTypeOK
      <3> QED
        BY <3>2, <3>3, <3>4, <3>5, <3>7 DEF GradesInv
    <2>2. CASE UNCHANGED gradeVars
      <3>1. /\ code' = code /\ final' = final /\ ending' = ending /\ flipped' = flipped
            /\ axis' = axis /\ slip' = slip
        BY <2>2 DEF gradeVars
      <3>2. MatchFacts' /\ Grades!GradeTypeOK'
        BY <3>1 DEF GradesInv, MatchFacts, Grades!GradeTypeOK
      <3>3. ASSUME NEW market, NEW line
            PROVE  /\ Gradable(market, line)' <=> Gradable(market, line)
                   /\ Graded(market, line)' = Graded(market, line)
        BY <3>1, GradesAreOfTheMatch
      <3> QED
        BY <3>1, <3>2, <3>3 DEF GradesInv
    <2> QED
      BY <2>1, <2>2, GradeSteps
  <1> QED
    BY <1>1, <1>2, PTL DEF Spec

\* Whatever the score, the line, the sport, the ending and the order of the teams: who backs
\* every leg of a market without margin wins and loses nothing, either all the legs are
\* graded or none, and a quarter line pays the mean of the two lines beside it
\* (settle_selection, settle_selection_retired, pick_pnl). The proof is of any scores and
\* any lines.
THEOREM Grades_Cohere == Spec => []GradesCohere
  <1>1. GradesInv => GradesCohere
    BY EveryMarketBalances, EveryQuarterIsTheMean DEF GradesCohere, Grades!GradesCohere
  <1> QED
    BY <1>1, GradeInvariant, PTL

----------------------------------------------------------------------------
(* MarketLines: what is priced together is one market.                     *)

LEMMA LineSteps == [Next]_vars => Market!LinesNext \/ UNCHANGED lineVars
  BY DEF Next, Only, vars

\* The quotes of a cycle are of markets on the match, each from a provider of its book.
QuoteOK(q) ==
    /\ q.source \in {primary, "arcadia", "betfair"} /\ q.book \in Market!BooksOf(q.source)
    /\ Market!Listed(sportKey, q.market) /\ q.legs \subseteq Market!Legs(q.market)

LinesInv ==
    /\ sportKey \in {"soccer", "tennis", "basketball"}
    /\ primary \in {"oddschecker", "oddsportal"}
    /\ \A q \in board : QuoteOK(q)
    /\ Market!LinesTypeOK

LEMMA LinesInvariant == Spec => []LinesInv
  <1>1. /\ DOMAIN MarketsOf \subseteq {"soccer", "tennis", "basketball"}
        /\ \A game \in DOMAIN MarketsOf : \A m \in MarketsOf[game] : Market!Listed(game, m)
    BY PlatformAssumption DEF Market!LinesAssumption
  <1>2. Init => LinesInv
    <2> SUFFICES ASSUME Market!LinesInit PROVE LinesInv
      BY DEF Init
    <2> QED
      BY <1>1 DEF Market!LinesInit, LinesInv, Market!LinesTypeOK
  <1>3. LinesInv /\ [Next]_vars => LinesInv'
    <2> SUFFICES ASSUME LinesInv, [Next]_vars PROVE LinesInv'
      OBVIOUS
    <2>1. CASE Market!LinesNext
      <3>0. PICK source \in Market!Sources, m \in MarketsOf[sportKey] :
              \E book \in Market!BooksOf(source), legs \in SUBSET Market!Legs(m) :
                Market!Quote(source, book, m, legs)
        BY <2>1 DEF Market!LinesNext
      <3>1. PICK book \in Market!BooksOf(source), legs \in SUBSET Market!Legs(m) :
              Market!Quote(source, book, m, legs)
        BY <3>0
      <3> DEFINE new == [source |-> source, book |-> book, market |-> m, legs |-> legs]
      <3>2. board' = board \cup {new} /\ sportKey' = sportKey /\ primary' = primary
        BY <3>1 DEF Market!Quote
      <3>3. QuoteOK(new)
        BY <1>1, <3>1 DEF QuoteOK, Market!Sources, LinesInv, Market!LinesTypeOK
      <3>4. new.source \in Market!Sources /\ new.market \in MarketsOf[sportKey]
            /\ new.legs \subseteq Market!Legs(new.market)
        BY <3>1
      <3> HIDE DEF new
      <3>5. \A q : QuoteOK(q)' <=> QuoteOK(q)
        BY <3>2 DEF QuoteOK, Market!BooksOf, Market!Listed, Market!Legs, Market!Teams,
           Market!Draw, Market!Sides, Market!Leg
      <3>6. \A q \in board' : QuoteOK(q)'
        BY <3>2, <3>3, <3>5 DEF LinesInv
      <3>7. Market!LinesTypeOK'
        BY <3>2, <3>4 DEF LinesInv, Market!LinesTypeOK, Market!Sources, Market!Legs,
           Market!Teams, Market!Draw, Market!Sides, Market!Leg
      <3> QED
        BY <3>2, <3>6, <3>7 DEF LinesInv
    <2>2. CASE UNCHANGED lineVars
      <3>1. board' = board /\ sportKey' = sportKey /\ primary' = primary
        BY <2>2 DEF lineVars
      <3>2. \A q : QuoteOK(q)' <=> QuoteOK(q)
        BY <3>1 DEF QuoteOK, Market!BooksOf, Market!Listed, Market!Legs, Market!Teams,
           Market!Draw, Market!Sides, Market!Leg
      <3>3. Market!LinesTypeOK'
        BY <3>1 DEF LinesInv, Market!LinesTypeOK, Market!Sources, Market!Legs,
           Market!Teams, Market!Draw, Market!Sides, Market!Leg
      <3> QED
        BY <3>1, <3>2, <3>3 DEF LinesInv
    <2> QED
      BY <2>1, <2>2, LineSteps
  <1> QED
    BY <1>2, <1>3, PTL DEF Spec

\* A row of a market of the whole match; games are told from sets.
OfMarket(r, product) ==
    /\ r.leg.of \in [product : {product}, unit : STRING, period : {"full"}, line : Int]
    /\ r.leg.of.unit \in {"goals", "sets", "games"}
    /\ r.leg.of.unit = Market!ScoreUnit \/ (sportKey = "tennis" /\ r.leg.of.unit = "games")

\* The selection is the leg's own text.
Told(r) ==
    /\ r.selection = [who |-> r.leg.side, line |-> r.leg.line, signed |-> r.selection.signed]
    /\ r.selection.signed \in BOOLEAN

\* What a row of a total says, but for those of the first half.
TotalRow(r) ==
    /\ r.market = "totals" /\ OfMarket(r, "total")
    /\ r.detail.space \in {"totals", "over_under_sets"}
    /\ r.leg.of.line = r.detail.line /\ r.leg \in Market!Sides(r.leg.of)
    /\ r.selection.signed = TRUE
    /\ r.leg.of.unit = "games" => r.leg.line > 18

\* A three-way handicap of soccer, by the home side's line.
ThreeWayRow(r) ==
    /\ r.market = "spreads" /\ r.detail.space = "european_handicap" /\ sportKey = "soccer"
    /\ OfMarket(r, "european") /\ r.leg.of.line = r.detail.line
    /\ r.leg \in Market!Teams(r.leg.of) \cup {Market!Draw(r.leg.of)}
    /\ r.selection.signed = TRUE

\* A handicap by the home side's line. A soft book's is of a half line.
InjectedRow(r) ==
    /\ r.market = "spreads"
    /\ r.detail.space \in {"asian_handicap", "asian_handicap_games", "asian_handicap_sets"}
    /\ OfMarket(r, "asian") /\ r.leg.of.line = r.detail.line
    /\ r.leg \in Market!Teams(r.leg.of)
    /\ r.leg.of.unit = "games" => r.detail.space = "asian_handicap_games"
    /\ r.book = "soft" => r.leg.of.line % 4 # 0

\* A handicap by its own line; Betfair files a fractional one by the home side's.
NativeRow(r) ==
    /\ r.market = "spreads" /\ r.detail.space \in {"spreads", "spreads_sets"}
    /\ OfMarket(r, "asian") \/ (OfMarket(r, "european") /\ sportKey # "soccer")
    /\ r.leg.of.product = "european" => r.leg.of.line # 0
    /\ r.leg.of.unit = "games" => r.detail.space = "spreads"
    /\ r.leg \in Market!Teams(r.leg.of) /\ r.selection.signed = TRUE
    /\ \/ r.leg.line = r.detail.line
       \/ sportKey = "soccer" /\ r.detail.line % 4 # 0 /\ r.leg.line = -r.detail.line

\* A row of the first half.
HalfRow(r) == r.detail.space \in {"spreads_1st_half", "totals_1st_half"}

RowOK(r) ==
    /\ Told(r) /\ r.detail.line \in Int /\ r.leg.line \in Int
    /\ TotalRow(r) \/ ThreeWayRow(r) \/ InjectedRow(r) \/ NativeRow(r) \/ HalfRow(r)

\* A row as it is filed, over_under and over_under_games under "totals".
Filed(quoted) == [quoted EXCEPT !.detail = Market!Canonical(quoted.detail)]

\* What a leg of a listed market is of.
LEMMA LegsOfMarket ==
    ASSUME NEW m, Market!Listed(sportKey, m), NEW leg \in Market!Legs(m)
    PROVE  /\ leg.line \in Int /\ m.line \in Int
           /\ leg.of \in [product : {IF m.product = "exact_sets" THEN "total" ELSE m.product},
                          unit : {m.unit}, period : {m.period}, line : {m.line}]
           /\ m.product = "asian" => leg.of = m /\ leg \in Market!Teams(m)
           /\ m.product = "european" => leg.of = m /\ leg \in Market!Teams(m) \cup {Market!Draw(m)}
           /\ m.product \in {"total", "exact_sets"} =>
                leg \in Market!Sides(leg.of) /\ leg.line = m.line
  <1>1. /\ m.line \in Int /\ m.product \in {"asian", "european", "total", "exact_sets"}
        /\ m \in [product : {m.product}, unit : {m.unit}, period : {m.period}, line : {m.line}]
    BY DEF Market!Listed
  <1>2. CASE m.product = "asian"
    BY <1>1, <1>2 DEF Market!Legs, Market!Teams, Market!Leg
  <1>3. CASE m.product = "european"
    BY <1>1, <1>3 DEF Market!Legs, Market!Teams, Market!Draw, Market!Leg
  <1>4. CASE m.product = "total"
    BY <1>1, <1>4 DEF Market!Legs, Market!Sides, Market!Leg
  <1>5. CASE m.product = "exact_sets"
    <2> DEFINE t == [m EXCEPT !.product = "total"]
    <2>1. t \in [product : {"total"}, unit : {m.unit}, period : {m.period}, line : {m.line}]
      BY <1>1
    <2>2. leg \in Market!Sides(t)
      BY <1>5 DEF Market!Legs
    <2> HIDE DEF t
    <2>3. leg.of = t /\ leg.line = t.line
      BY <2>2 DEF Market!Sides, Market!Leg
    <2> QED
      BY <1>1, <1>5, <2>1, <2>2, <2>3
  <1> QED
    BY <1>1, <1>2, <1>3, <1>4, <1>5

\* What a market counts: the unit of the score, or corners, or the games of tennis.
LEMMA UnitOfMarket ==
    ASSUME sportKey \in {"soccer", "tennis", "basketball"}, NEW m, Market!Listed(sportKey, m),
           m.unit # "corners"
    PROVE  /\ m.unit \in {"goals", "sets", "games"} /\ m.unit \in STRING /\ m.line \in Int
           /\ m.unit = Market!ScoreUnit \/ (sportKey = "tennis" /\ m.unit = "games")
  <1>1. m.unit \in STRING /\ m.line \in Int
    BY DEF Market!Listed
  <1>2. CASE sportKey = "soccer"
    BY <1>1, <1>2 DEF Market!Listed, Market!ScoreUnit
  <1>3. CASE sportKey = "tennis"
    BY <1>1, <1>3 DEF Market!Listed, Market!ScoreUnit
  <1>4. CASE sportKey = "basketball"
    BY <1>1, <1>4 DEF Market!Listed, Market!ScoreUnit
  <1> QED
    BY <1>2, <1>3, <1>4

\* A row as a provider makes it, of one of the legs that it quotes.
LEMMA RowFields ==
    ASSUME NEW book, NEW leg, NEW detail
    PROVE  LET r == Market!Row(book, leg, detail)
           IN  /\ r.book = book /\ r.leg = leg /\ r.detail = detail
               /\ r.market = IF Market!IsSpread(leg.of) THEN "spreads" ELSE "totals"
               /\ r.selection = [who |-> leg.side, line |-> leg.line, signed |-> TRUE]
               /\ r = [book |-> r.book, market |-> r.market, detail |-> r.detail,
                       selection |-> r.selection, leg |-> r.leg]
  BY DEF Market!Row

LEMMA FiledFields ==
    ASSUME NEW book, NEW leg, NEW space, NEW line
    PROVE  LET r == Filed(Market!Row(book, leg, Market!Detail(space, line)))
           IN  /\ r.book = book /\ r.leg = leg /\ r.detail.line = line
               /\ r.detail.space = IF space \in {"over_under", "over_under_games"}
                                   THEN "totals" ELSE space
               /\ r.market = IF Market!IsSpread(leg.of) THEN "spreads" ELSE "totals"
               /\ r.selection = [who |-> leg.side, line |-> leg.line, signed |-> TRUE]
  BY DEF Market!Row, Filed, Market!Canonical, Market!Detail

\* parse_market_api_payloads
LEMMA OddsCheckerRows ==
    ASSUME LinesInv, NEW q, QuoteOK(q), q.source = "oddschecker", NEW quoted \in Market!Rows(q)
    PROVE  RowOK(Filed(quoted))
  <1> DEFINE m == q.market
             space == Market!OddsCheckerSpace(m)
  <1>1. quoted \in Market!OddsChecker(q)
    BY DEF Market!Rows
  <1>2. /\ ~Market!IsThreeWay(q) /\ m.unit # "corners"
        /\ m.product = "exact_sets" => q.legs = Market!Legs(m)
    BY <1>1 DEF Market!OddsChecker
  <1>3. PICK leg \in q.legs : quoted = Market!Row(q.book, leg, Market!Detail(space, leg.line))
    BY <1>1, <1>2 DEF Market!OddsChecker
  <1>4. leg \in Market!Legs(m) /\ Market!Listed(sportKey, m) /\ sportKey \in {"soccer", "tennis", "basketball"}
    BY <1>3 DEF QuoteOK, LinesInv
  <1>U. /\ m.unit \in {"goals", "sets", "games"} /\ m.unit \in STRING /\ m.line \in Int
        /\ m.unit = Market!ScoreUnit \/ (sportKey = "tennis" /\ m.unit = "games")
        /\ m.product \in {"asian", "european", "total", "exact_sets"}
    BY <1>2, <1>4, UnitOfMarket DEF Market!Listed
  <1> DEFINE r == Filed(quoted)
  <1>5. space \in {"spreads_1st_half", "totals_1st_half", "totals", "spreads_sets", "spreads"}
    BY DEF Market!OddsCheckerSpace
  <1>6. /\ r.book = q.book /\ r.leg = leg /\ r.detail.line = leg.line /\ r.detail.space = space
        /\ r.market = IF Market!IsSpread(leg.of) THEN "spreads" ELSE "totals"
        /\ r.selection = [who |-> leg.side, line |-> leg.line, signed |-> TRUE]
    <2> HIDE DEF space
    <2> QED
      BY <1>3, <1>5, FiledFields
  <1> HIDE DEF r
  <1>7. leg.line \in Int /\ Told(r)
    <2>1. leg.line \in Int
      BY <1>4, LegsOfMarket
    <2> QED
      BY <1>6, <2>1 DEF Told
  <1>8. CASE m.period # "full"
    <2>1. HalfRow(r)
      BY <1>6, <1>8 DEF HalfRow, Market!OddsCheckerSpace
    <2> QED
      BY <1>6, <1>7, <2>1 DEF RowOK, r
  <1>9. CASE m.period = "full" /\ m.product \in {"total", "exact_sets"}
    <2>1. space = "totals"
      BY <1>9 DEF Market!OddsCheckerSpace, Market!IsSpread
    <2>2. /\ leg.of.product = "total" /\ leg.of.unit = m.unit /\ leg.of.period = "full"
          /\ leg.of.line = leg.line /\ leg \in Market!Sides(leg.of)
          /\ leg.of \in [product : {"total"}, unit : STRING, period : {"full"}, line : Int]
          /\ m.line = leg.line
      BY <1>4, <1>9, <1>U, LegsOfMarket
    <2>3. r.market = "totals"
      BY <1>6, <2>2 DEF Market!IsSpread
    <2>4. OfMarket(r, "total")
      BY <1>6, <1>U, <2>2 DEF OfMarket
    <2>5. leg.of.unit = "games" => leg.line > 18
      <3>1. m.product = "exact_sets" => m.unit = "sets"
        BY <1>4 DEF Market!Listed
      <3>2. m.product = "total" /\ m.unit = "games" => m.line > 18
        BY <1>4 DEF Market!Listed
      <3> QED
        BY <1>9, <2>2, <3>1, <3>2
    <2>6. TotalRow(r)
      BY <1>6, <2>1, <2>2, <2>3, <2>4, <2>5 DEF TotalRow
    <2> QED
      BY <1>6, <1>7, <2>6 DEF RowOK, r
  <1>10. CASE m.period = "full" /\ m.product \in {"asian", "european"}
    <2>1. leg.of = m
      BY <1>4, <1>10, LegsOfMarket
    <2>2. m.product = "european" => sportKey = "basketball" /\ leg # Market!Draw(m) /\ m.line # 0
      BY <1>2, <1>3, <1>4 DEF Market!IsThreeWay, Market!Listed
    <2>3. leg \in Market!Teams(m)
      BY <1>4, <1>10, <2>2, LegsOfMarket
    <2>4. r.market = "spreads"
      BY <1>6, <1>10, <2>1 DEF Market!IsSpread
    <2>5. /\ space \in {"spreads", "spreads_sets"}
          /\ m.unit = "games" => space = "spreads"
      BY <1>10 DEF Market!OddsCheckerSpace, Market!IsSpread
    <2>6. OfMarket(r, m.product)
      <3>1. leg.of \in [product : {m.product}, unit : STRING, period : {"full"}, line : Int]
        BY <1>4, <1>10, <1>U, LegsOfMarket
      <3> QED
        BY <1>6, <1>U, <2>1, <3>1 DEF OfMarket
    <2>7. NativeRow(r)
      <3>1. OfMarket(r, "asian") \/ (OfMarket(r, "european") /\ sportKey # "soccer")
        <4>1. CASE m.product = "asian"
          BY <2>6, <4>1 DEF OfMarket
        <4>2. CASE m.product = "european"
          BY <2>2, <2>6, <4>2 DEF OfMarket
        <4> QED
          BY <1>10, <4>1, <4>2
      <3>2. /\ r.leg.of.product = "european" => r.leg.of.line # 0
            /\ r.leg.of.unit = "games" => r.detail.space = "spreads"
            /\ r.leg \in Market!Teams(r.leg.of)
        BY <1>6, <2>1, <2>2, <2>3, <2>5
      <3> QED
        BY <1>6, <2>4, <2>5, <3>1, <3>2 DEF NativeRow
    <2> QED
      BY <1>6, <1>7, <2>7 DEF RowOK, r
  <1> QED
    BY <1>U, <1>8, <1>9, <1>10 DEF r

\* A total or a handicap that is filed by the market's line, in a space of its product.
LEMMA RowByMarketLine ==
    ASSUME LinesInv, NEW m, Market!Listed(sportKey, m), m.unit # "corners", m.period = "full",
           NEW leg \in Market!Legs(m), NEW r,
           r.leg = leg, r.detail.line = m.line,
           r.market = IF Market!IsSpread(leg.of) THEN "spreads" ELSE "totals",
           r.selection = [who |-> leg.side, line |-> leg.line, signed |-> r.selection.signed],
           r.selection.signed \in BOOLEAN, leg.line # 0 => r.selection.signed = TRUE,
           m.product = "total" => r.detail.space \in {"totals", "over_under_sets"}
    PROVE  /\ Told(r) /\ r.detail.line \in Int /\ r.leg.line \in Int
           /\ m.product \in {"asian", "european"} => OfMarket(r, m.product)
           /\ m.product \in {"asian", "european"} =>
                r.leg.of = m /\ r.leg.of.line = r.detail.line /\ r.market = "spreads"
           /\ m.product = "total" => TotalRow(r)
  <1>1. /\ m.unit \in {"goals", "sets", "games"} /\ m.unit \in STRING /\ m.line \in Int
        /\ m.unit = Market!ScoreUnit \/ (sportKey = "tennis" /\ m.unit = "games")
    BY UnitOfMarket DEF LinesInv
  <1>2. leg.line \in Int /\ Told(r)
    BY LegsOfMarket DEF Told
  <1>3. ASSUME m.product \in {"asian", "european"}
        PROVE  /\ OfMarket(r, m.product) /\ r.leg.of = m /\ r.leg.of.line = r.detail.line
               /\ r.market = "spreads"
    <2>1. leg.of = m
      BY <1>3, LegsOfMarket
    <2>2. leg.of \in [product : {m.product}, unit : STRING, period : {"full"}, line : Int]
      BY <1>1, <1>3, LegsOfMarket
    <2>3. r.market = "spreads"
      BY <1>3, <2>1 DEF Market!IsSpread
    <2> QED
      BY <1>1, <2>1, <2>2, <2>3 DEF OfMarket
  <1>4. ASSUME m.product = "total" PROVE TotalRow(r)
    <2>1. /\ leg.of \in [product : {"total"}, unit : STRING, period : {"full"}, line : Int]
          /\ leg.of.unit = m.unit /\ leg.of.line = m.line
          /\ leg \in Market!Sides(leg.of) /\ leg.line = m.line
      BY <1>1, <1>4, LegsOfMarket
    <2>2. m.line > 0 /\ (m.unit = "games" => m.line > 18)
      BY <1>4 DEF Market!Listed
    <2>3. r.market = "totals"
      BY <2>1 DEF Market!IsSpread
    <2>4. OfMarket(r, "total")
      BY <1>1, <2>1 DEF OfMarket
    <2>5. leg.line # 0
      BY <1>1, <2>1, <2>2
    <2> QED
      BY <1>4, <2>1, <2>2, <2>3, <2>4, <2>5 DEF TotalRow
  <1> QED
    BY <1>1, <1>2, <1>3, <1>4

\* _selections
LEMMA OddsPortalRows ==
    ASSUME LinesInv, NEW q, QuoteOK(q), q.source = "oddsportal", NEW quoted \in Market!Rows(q)
    PROVE  RowOK(Filed(quoted))
  <1> DEFINE m == q.market
             space == Market!OddsPortalSpace(m)
             r == Filed(quoted)
  <1>1. quoted \in Market!OddsPortal(q)
    BY DEF Market!Rows
  <1>2. /\ m.period = "full" /\ m.unit # "corners"
        /\ m.product \in {"asian", "total"} => m.line % 4 = 2
        /\ m.product = "european" => sportKey = "soccer"
        /\ m.product # "exact_sets"
    BY <1>1 DEF Market!OddsPortal, Market!HalfLine
  <1>3. PICK leg \in q.legs : quoted = Market!Row(q.book, leg, Market!Detail(space, m.line))
    BY <1>1, <1>2 DEF Market!OddsPortal
  <1>4. leg \in Market!Legs(m) /\ Market!Listed(sportKey, m)
    BY <1>3 DEF QuoteOK, LinesInv
  <1>5. /\ r.book = q.book /\ r.leg = leg /\ r.detail.line = m.line
        /\ r.detail.space = IF space \in {"over_under", "over_under_games"}
                            THEN "totals" ELSE space
        /\ r.market = IF Market!IsSpread(leg.of) THEN "spreads" ELSE "totals"
        /\ r.selection = [who |-> leg.side, line |-> leg.line, signed |-> TRUE]
    <2> HIDE DEF space
    <2> QED
      BY <1>3, FiledFields
  <1> HIDE DEF r
  <1>6. /\ Told(r) /\ r.detail.line \in Int /\ r.leg.line \in Int
        /\ m.product \in {"asian", "european"} => OfMarket(r, m.product)
        /\ m.product \in {"asian", "european"} =>
             r.leg.of = m /\ r.leg.of.line = r.detail.line /\ r.market = "spreads"
        /\ m.product = "total" => TotalRow(r)
    <2>1. r.selection = [who |-> leg.side, line |-> leg.line, signed |-> r.selection.signed]
          /\ r.selection.signed = TRUE
      BY <1>5
    <2>2. m.product = "total" => r.detail.space \in {"totals", "over_under_sets"}
      BY <1>5 DEF Market!OddsPortalSpace, Market!IsSpread
    <2> QED
      BY <1>2, <1>4, <1>5, <2>1, <2>2, RowByMarketLine
  <1>7. CASE m.product = "total"
    BY <1>6, <1>7 DEF RowOK, r
  <1>8. CASE m.product = "asian"
    <2>1. /\ space \in {"asian_handicap", "asian_handicap_games", "asian_handicap_sets"}
          /\ m.unit = "games" => space = "asian_handicap_games"
      BY <1>4, <1>8 DEF Market!OddsPortalSpace, Market!Listed
    <2>2. r.leg \in Market!Teams(r.leg.of)
      BY <1>4, <1>5, <1>6, <1>8, LegsOfMarket
    <2>3. m.line % 4 # 0
      BY <1>2, <1>8
    <2>4. OfMarket(r, "asian")
      BY <1>6, <1>8 DEF OfMarket
    <2>5. InjectedRow(r)
      BY <1>5, <1>6, <1>8, <2>1, <2>2, <2>3, <2>4 DEF InjectedRow
    <2> QED
      BY <1>6, <2>5 DEF RowOK, r
  <1>9. CASE m.product = "european"
    <2>1. space = "european_handicap" /\ sportKey = "soccer"
      BY <1>2, <1>9 DEF Market!OddsPortalSpace
    <2>2. r.leg \in Market!Teams(r.leg.of) \cup {Market!Draw(r.leg.of)}
      BY <1>4, <1>5, <1>6, <1>9, LegsOfMarket
    <2>3. OfMarket(r, "european")
      BY <1>6, <1>9 DEF OfMarket
    <2>4. r.detail.space = "european_handicap" /\ r.selection.signed = TRUE
      BY <1>5, <2>1
    <2>5. ThreeWayRow(r)
      BY <1>6, <1>9, <2>1, <2>2, <2>3, <2>4 DEF ThreeWayRow
    <2> QED
      BY <1>6, <2>5 DEF RowOK, r
  <1> QED
    BY <1>2, <1>4, <1>7, <1>8, <1>9 DEF Market!Listed

\* extract_total_quotes and extract_spread_quotes
LEMMA ArcadiaRows ==
    ASSUME LinesInv, NEW q, QuoteOK(q), q.source = "arcadia", NEW quoted \in Market!Rows(q)
    PROVE  RowOK(Filed(quoted))
  <1> DEFINE m == q.market
             space == Market!ArcadiaSpace(m)
             r == Filed(quoted)
  <1>1. quoted \in Market!Arcadia(q)
    BY DEF Market!Rows
  <1>2. /\ m.period = "full" /\ m.unit = Market!ScoreUnit
        /\ m.product \in {"asian", "total"}
    BY <1>1 DEF Market!Arcadia
  <1>3. PICK leg \in q.legs :
          quoted = [Market!Row(q.book, leg, Market!Detail(space, m.line))
                   EXCEPT !.selection.signed = (leg.line # 0)]
    BY <1>1, <1>2 DEF Market!Arcadia
  <1>4. leg \in Market!Legs(m) /\ Market!Listed(sportKey, m)
    BY <1>3 DEF QuoteOK, LinesInv
  <1>5. q.book = "pinnacle" /\ m.unit # "corners" /\ m.unit # "games"
    BY <1>2 DEF QuoteOK, Market!BooksOf, Market!ScoreUnit
  <1>6. /\ r.book = q.book /\ r.leg = leg /\ r.detail.line = m.line
        /\ r.detail.space = IF space \in {"over_under", "over_under_games"}
                            THEN "totals" ELSE space
        /\ r.market = IF Market!IsSpread(leg.of) THEN "spreads" ELSE "totals"
        /\ r.selection = [who |-> leg.side, line |-> leg.line, signed |-> (leg.line # 0)]
    <2> HIDE DEF space
    <2> QED
      BY <1>3 DEF Filed, Market!Row, Market!Detail, Market!Canonical
  <1> HIDE DEF r
  <1>7. /\ Told(r) /\ r.detail.line \in Int /\ r.leg.line \in Int
        /\ m.product \in {"asian", "european"} => OfMarket(r, m.product)
        /\ m.product \in {"asian", "european"} =>
             r.leg.of = m /\ r.leg.of.line = r.detail.line /\ r.market = "spreads"
        /\ m.product = "total" => TotalRow(r)
    <2>1. r.selection = [who |-> leg.side, line |-> leg.line, signed |-> r.selection.signed]
          /\ (leg.line # 0 => r.selection.signed = TRUE)
      <3>1. r.selection.signed = (leg.line # 0)
        BY <1>6
      <3>2. leg.line # 0 => r.selection.signed = TRUE
        BY <3>1, Zenon
      <3>3. r.selection = [who |-> leg.side, line |-> leg.line, signed |-> r.selection.signed]
        BY <1>6, <3>1, Zenon
      <3> QED
        BY <3>2, <3>3
    <2>2. m.product = "total" => r.detail.space \in {"totals", "over_under_sets"}
      BY <1>6 DEF Market!ArcadiaSpace, Market!IsSpread
    <2>3. r.selection.signed \in BOOLEAN
      <3>1. r.selection.signed = (leg.line # 0)
        BY <1>6
      <3> QED
        BY <3>1, Zenon
    <2> QED
      BY <1>2, <1>4, <1>5, <1>6, <2>1, <2>2, <2>3, RowByMarketLine
  <1>8. CASE m.product = "total"
    BY <1>7, <1>8 DEF RowOK, r
  <1>9. CASE m.product = "asian"
    <2>1. space \in {"asian_handicap", "asian_handicap_games"}
      BY <1>9 DEF Market!ArcadiaSpace, Market!IsSpread
    <2>2. r.leg \in Market!Teams(r.leg.of)
      BY <1>4, <1>6, <1>7, <1>9, LegsOfMarket
    <2>3. OfMarket(r, "asian")
      BY <1>7, <1>9 DEF OfMarket
    <2>4. r.detail.space = space
      BY <1>6, <2>1
    <2>5. InjectedRow(r)
      <3> HIDE DEF space
      <3> QED
        BY <1>5, <1>6, <1>7, <1>9, <2>1, <2>2, <2>3, <2>4 DEF InjectedRow
    <2> QED
      BY <1>7, <2>5 DEF RowOK, r
  <1> QED
    BY <1>2, <1>8, <1>9

\* join_extended_lines
LEMMA BetfairRows ==
    ASSUME LinesInv, NEW q, QuoteOK(q), q.source = "betfair", NEW quoted \in Market!Rows(q)
    PROVE  RowOK(Filed(quoted))
  <1> DEFINE m == q.market
             space == IF Market!IsSpread(m) THEN "spreads" ELSE "totals"
             r == Filed(quoted)
  <1>1. quoted \in Market!Betfair(q)
    BY DEF Market!Rows
  <1>2. /\ m.period = "full" /\ m.unit # "corners" /\ m.line % 4 # 0
        /\ m.product \in {"asian", "total"} /\ sportKey = "soccer"
    BY <1>1 DEF Market!Betfair, Market!Fractional
  <1>3. PICK leg \in q.legs : quoted = Market!Row(q.book, leg, Market!Detail(space, m.line))
    BY <1>1, <1>2 DEF Market!Betfair
  <1>4. leg \in Market!Legs(m) /\ Market!Listed(sportKey, m)
    BY <1>3 DEF QuoteOK, LinesInv
  <1>5. /\ r.leg = leg /\ r.detail.line = m.line
        /\ r.detail.space = IF space \in {"over_under", "over_under_games"}
                            THEN "totals" ELSE space
        /\ r.market = IF Market!IsSpread(leg.of) THEN "spreads" ELSE "totals"
        /\ r.selection = [who |-> leg.side, line |-> leg.line, signed |-> TRUE]
    <2> HIDE DEF space
    <2> QED
      BY <1>3, FiledFields
  <1> HIDE DEF r
  <1>6. /\ Told(r) /\ r.detail.line \in Int /\ r.leg.line \in Int
        /\ m.product \in {"asian", "european"} => OfMarket(r, m.product)
        /\ m.product \in {"asian", "european"} =>
             r.leg.of = m /\ r.leg.of.line = r.detail.line /\ r.market = "spreads"
        /\ m.product = "total" => TotalRow(r)
    <2>1. r.selection = [who |-> leg.side, line |-> leg.line, signed |-> r.selection.signed]
          /\ r.selection.signed = TRUE
      BY <1>5
    <2>2. m.product = "total" => r.detail.space \in {"totals", "over_under_sets"}
      BY <1>5 DEF Market!IsSpread
    <2> QED
      BY <1>2, <1>4, <1>5, <2>1, <2>2, RowByMarketLine
  <1>7. CASE m.product = "total"
    BY <1>6, <1>7 DEF RowOK, r
  <1>8. CASE m.product = "asian"
    <2>1. r.detail.space = "spreads" /\ r.selection.signed = TRUE
      BY <1>5, <1>8 DEF Market!IsSpread
    <2>2. r.leg \in Market!Teams(r.leg.of)
      BY <1>4, <1>5, <1>6, <1>8, LegsOfMarket
    <2>3. r.leg.line = r.detail.line \/ r.leg.line = -r.detail.line
      BY <1>6, <1>8, <2>2 DEF Market!Teams, Market!Leg
    <2>4. OfMarket(r, "asian") /\ r.leg.of.product = "asian" /\ r.detail.line % 4 # 0
      BY <1>2, <1>5, <1>6, <1>8 DEF OfMarket
    <2>5. NativeRow(r)
      BY <1>2, <1>6, <1>8, <2>1, <2>2, <2>3, <2>4 DEF NativeRow
    <2> QED
      BY <1>6, <2>5 DEF RowOK, r
  <1> QED
    BY <1>2, <1>7, <1>8

LEMMA EveryRowOK ==
    ASSUME LinesInv, NEW q \in board, NEW quoted \in Market!Rows(q)
    PROVE  RowOK(Filed(quoted))
  <1>1. QuoteOK(q) /\ q.source \in {"oddschecker", "oddsportal", "arcadia", "betfair"}
    BY DEF LinesInv, QuoteOK
  <1> QED
    BY <1>1, OddsCheckerRows, OddsPortalRows, ArcadiaRows, BetfairRows

(* Grouping. *)

\* An injected handicap that joins a native group has a selection of that group.
LEMMA FoldedRowOK ==
    ASSUME LinesInv, NEW r \in Market!Folded
    PROVE  RowOK(r)
  <1> DEFINE rows == {Filed(quoted) : quoted \in UNION {Market!Rows(q) : q \in board}}
  <1>1. Market!Folded = {Market!Adopted(rows, quoted) : quoted \in rows}
    BY DEF Market!Folded, Filed
  <1>2. \A quoted \in rows : RowOK(quoted)
    BY EveryRowOK
  <1> HIDE DEF rows
  <1>3. PICK quoted \in rows : r = Market!Adopted(rows, quoted)
    BY <1>1
  <1>4. CASE r = quoted
    BY <1>2, <1>4
  <1>5. CASE r # quoted
    <2> DEFINE natives == Market!Natives(rows, quoted.selection)
               joins == {detail \in natives : Market!SameSize(detail.line, quoted.detail.line)}
               chosen == CHOOSE detail \in joins : TRUE
    <2>1. /\ quoted.detail.space \in {"asian_handicap", "asian_handicap_games"}
          /\ joins # {} /\ r = [quoted EXCEPT !.detail = chosen]
      BY <1>3, <1>5, Zenon DEF Market!Adopted
    <2>2. chosen \in natives
      BY <2>1
    <2> HIDE DEF chosen, joins
    <2>3. PICK native \in rows : /\ native.selection = quoted.selection /\ native.detail = chosen
                                 /\ native.detail.space = "spreads"
                                 /\ Market!Fractional(native.detail.line)
      BY <2>2 DEF Market!Natives
    <2>4. NativeRow(native) /\ Told(native) /\ native.detail.line \in Int
      BY <1>2, <2>3 DEF RowOK, TotalRow, ThreeWayRow, InjectedRow, HalfRow
    <2>5. InjectedRow(quoted) /\ Told(quoted) /\ quoted.leg.line \in Int
      BY <1>2, <2>1 DEF RowOK, TotalRow, ThreeWayRow, NativeRow, HalfRow
    <2>6. /\ r.market = "spreads" /\ r.detail = chosen /\ r.selection = quoted.selection
          /\ r.leg = quoted.leg
      <3>1. quoted.market = "spreads"
        BY <2>5 DEF InjectedRow
      <3> QED
        BY <2>1, <3>1
    <2>7. r.leg.line = native.leg.line /\ r.selection.signed = TRUE
      BY <2>3, <2>4, <2>5, <2>6 DEF Told, NativeRow
    <2>8. NativeRow(r)
      <3>1. OfMarket(r, "asian") /\ r.leg.of.product = "asian"
        BY <2>5, <2>6 DEF InjectedRow, OfMarket
      <3>2. \/ r.leg.line = r.detail.line
            \/ sportKey = "soccer" /\ r.detail.line % 4 # 0 /\ r.leg.line = -r.detail.line
        BY <2>3, <2>4, <2>6, <2>7 DEF NativeRow
      <3>3. r.leg \in Market!Teams(r.leg.of) /\ r.detail.space = "spreads"
        BY <2>3, <2>5, <2>6 DEF InjectedRow
      <3> QED
        BY <2>6, <2>7, <3>1, <3>2, <3>3 DEF NativeRow
    <2> QED
      BY <2>3, <2>4, <2>5, <2>6, <2>8 DEF RowOK, Told
  <1> QED
    BY <1>4, <1>5

\* Sets of two elements.
LEMMA PairOfTwo ==
    ASSUME NEW S, NEW a, NEW b, NEW c, NEW d, S \subseteq {a, b, c, d}, Market!Cardinality(S) = 2
    PROVE  \E x, y \in S : x # y /\ S = {x, y}
  <1>1. IsFiniteSet({a, b, c, d})
    <2>1. IsFiniteSet({a}) /\ {a, b} = {a} \cup {b} /\ {a, b, c} = {a, b} \cup {c}
          /\ {a, b, c, d} = {a, b, c} \cup {d}
      BY FS_Singleton
    <2>2. IsFiniteSet({a, b})
      BY <2>1, FS_AddElement
    <2>3. IsFiniteSet({a, b, c})
      BY <2>1, <2>2, FS_AddElement
    <2> QED
      BY <2>1, <2>3, FS_AddElement
  <1>2. IsFiniteSet(S)
    BY <1>1, FS_Subset
  <1>3. Cardinality(S) = 2
    <2>1. Market!Cardinality(S) = Cardinality(S)
      BY Zenon DEF Market!Cardinality, Cardinality
    <2> QED
      BY <2>1
  <1>4. S # {}
    BY <1>3, FS_EmptySet
  <1>5. PICK x : x \in S
    BY <1>4
  <1>6. IsFiniteSet(S \ {x}) /\ Cardinality(S \ {x}) = 1
    BY <1>2, <1>3, <1>5, FS_RemoveElement
  <1>7. PICK y : S \ {x} = {y}
    BY <1>6, FS_Singleton
  <1> QED
    BY <1>5, <1>7

LEMMA NoTwoInOne ==
    ASSUME NEW S, NEW a, S \subseteq {a}
    PROVE  ~(Market!Cardinality(S) >= 2)
  <1>1. Market!Cardinality(S) = Cardinality(S)
    BY Zenon DEF Market!Cardinality, Cardinality
  <1>2. S = {} \/ S = {a}
    OBVIOUS
  <1>3. Cardinality(S) = 0 \/ Cardinality(S) = 1
    BY <1>2, FS_EmptySet, FS_Singleton
  <1> QED
    BY <1>1, <1>3

LEMMA ToldFields ==
    ASSUME NEW r, Told(r)
    PROVE  r.selection.who = r.leg.side /\ r.selection.line = r.leg.line
  <1>1. r.selection.who = r.leg.side
    BY DEF Told
  <1>2. r.selection.line = r.leg.line
    BY DEF Told
  <1> QED
    BY <1>1, <1>2

\* A group is of one market and one line of the vocabulary it is filed in.
LEMMA GroupRows ==
    ASSUME LinesInv, NEW group \in Market!Candidates
    PROVE  /\ Market!Head(group) \in group
           /\ \A r \in group : /\ RowOK(r) /\ r.market = Market!Head(group).market
                               /\ r.detail = Market!Head(group).detail
                               /\ ~HalfRow(r)
           /\ ~Market!GameLine(group) /\ Market!Fair(group) /\ Market!Offered(group)
  <1>1. /\ group \in Market!GroupsOf(Market!Folded)
        /\ Market!Settleable(group) /\ ~Market!GameLine(group)
        /\ Market!Fair(group) /\ Market!Offered(group)
    BY DEF Market!Candidates
  <1>2. PICK quoted \in Market!Folded :
          group = {r \in Market!Folded : r.market = quoted.market /\ r.detail = quoted.detail}
    BY <1>1 DEF Market!GroupsOf
  <1>3. Market!Head(group) \in group
    BY <1>2 DEF Market!Head
  <1>4. \A r \in group : /\ RowOK(r) /\ r.market = Market!Head(group).market
                         /\ r.detail = Market!Head(group).detail
    BY <1>2, <1>3, FoldedRowOK
  <1>5. \A r \in group : ~HalfRow(r)
    BY <1>1, <1>4 DEF HalfRow, Market!Settleable
  <1> QED
    BY <1>1, <1>3, <1>4, <1>5

\* A group of legs of one market, each under its own selection, is that market.
Coherent(group) ==
    /\ \E m \in {quoted.leg.of : quoted \in group} :
         /\ Market!Exhausts({quoted.leg : quoted \in group}, m)
         /\ m.period = "full" /\ m.unit = Market!ScoreUnit /\ Market!GradedAsQuoted(m)
    /\ \A one, two \in group : one.selection = two.selection <=> one.leg = two.leg

LEMMA GroupOfMarket ==
    ASSUME NEW group, NEW m,
           \A r \in group : /\ r.leg.of = m /\ r.leg \in Market!Legs(m)
                            /\ Told(r) /\ r.selection.signed = TRUE,
           group # {}, Market!Exhausts({quoted.leg : quoted \in group}, m),
           m.product \in {"asian", "european", "total"},
           m.period = "full", m.unit = Market!ScoreUnit, Market!GradedAsQuoted(m)
    PROVE  Coherent(group)
  <1>1. m \in {quoted.leg.of : quoted \in group}
    OBVIOUS
  <1>2. ASSUME NEW one \in group, NEW two \in group
        PROVE  one.selection = two.selection <=> one.leg = two.leg
    <2>1. ASSUME one.leg = two.leg PROVE one.selection = two.selection
      BY <2>1 DEF Told
    <2>2. ASSUME one.selection = two.selection PROVE one.leg = two.leg
      <3>1. one.leg.side = two.leg.side
        <4>1. Told(one) /\ Told(two)
          OBVIOUS
        <4> QED
          BY <2>2, <4>1, ToldFields
      <3>2. one.leg \in Market!Legs(m) /\ two.leg \in Market!Legs(m)
        OBVIOUS
      <3> QED
        BY <3>1, <3>2 DEF Market!Legs, Market!Teams, Market!Draw, Market!Sides, Market!Leg
    <2> QED
      BY <2>1, <2>2
  <1> QED
    BY <1>1, <1>2 DEF Coherent

\* The units of a group that GameLine lets pass are those of the score.
LEMMA TotalsGroup ==
    ASSUME LinesInv, NEW group \in Market!Candidates, Market!Head(group).market = "totals"
    PROVE  Coherent(group)
  <1> DEFINE line == Market!Head(group).detail.line
             m == [product |-> "total", unit |-> Market!ScoreUnit, period |-> "full",
                   line |-> line]
             over == Market!Leg(m, "over", line)
             under == Market!Leg(m, "under", line)
             text(side) == [who |-> side, line |-> line, signed |-> TRUE]
  <1>1. \A r \in group : TotalRow(r) /\ Told(r) /\ r.detail.line = line
    BY GroupRows DEF RowOK, ThreeWayRow, InjectedRow, NativeRow
  <1>2. ASSUME NEW r \in group PROVE r.leg.of.unit # "games"
    <2>1. CASE r.leg.of.unit = "games"
      <3>1. sportKey = "tennis" /\ r.leg.line > 18
        BY <1>1, <2>1 DEF TotalRow, OfMarket, Market!ScoreUnit
      <3>2. r.selection \in Market!Selections(group) /\ r.selection.line > 18
        BY <1>1, <3>1, ToldFields DEF Market!Selections
      <3>3. Market!GameLine(group)
        BY <3>1, <3>2 DEF Market!GameLine
      <3> QED
        BY <3>3, GroupRows
    <2> QED
      BY <2>1
  <1>3. ASSUME NEW r \in group
        PROVE  /\ r.leg.of = m /\ r.leg \in {over, under}
               /\ r.selection = text(r.leg.side)
    <2>1. r.leg.of = m
      BY <1>1, <1>2 DEF TotalRow, OfMarket
    <2>2. r.leg \in {over, under}
      BY <1>1, <2>1 DEF TotalRow, Market!Sides
    <2>3. r.leg.line = line
      BY <2>2 DEF Market!Leg
    <2> QED
      BY <1>1, <2>1, <2>2, <2>3 DEF Told, TotalRow
  <1>4. over.side = "over" /\ under.side = "under"
    BY DEF Market!Leg
  <1> HIDE DEF over, under, text, m
  <1>5. {quoted.leg : quoted \in group} = {over, under}
    <2>1. Market!Cardinality(Market!Selections(group)) >= 2
      BY GroupRows DEF Market!Fair, Market!Anchored
    <2>2. ASSUME NEW leg \in {over, under} PROVE \E r \in group : r.leg = leg
      <3>1. PICK other \in {over, under} : \A x \in {over, under} : x # leg => x = other
        OBVIOUS
      <3>2. CASE \A r \in group : r.leg # leg
        <4>1. \A r \in group : r.selection = text(other.side)
          BY <1>3, <3>1, <3>2
        <4>2. Market!Selections(group) \subseteq {text(other.side)}
          BY <4>1 DEF Market!Selections
        <4> QED
          BY <2>1, <4>2, NoTwoInOne
      <3> QED
        BY <3>2
    <2> QED
      BY <1>3, <2>2
  <1>6. Market!Legs(m) = {over, under}
    BY DEF m, over, under, Market!Legs, Market!Sides
  <1>7. /\ m.product = "total" /\ m.period = "full" /\ m.unit = Market!ScoreUnit
        /\ Market!GradedAsQuoted(m)
    BY DEF m, Market!GradedAsQuoted
  <1>8. Market!Exhausts({quoted.leg : quoted \in group}, m)
    BY <1>5, <1>6 DEF Market!Exhausts
  <1>9. group # {}
    BY GroupRows
  <1> QED
    BY <1>1, <1>3, <1>6, <1>7, <1>8, <1>9, GroupOfMarket DEF TotalRow

AtMostFour(texts) == \E a, b, c, d : texts \subseteq {a, b, c, d}

\* The two teams of a coherent group, of four selections that could be in it.
LEMMA TwoTeams ==
    ASSUME LinesInv, NEW group \in Market!Candidates, Market!Head(group).market = "spreads",
           NEW texts, AtMostFour(texts),
           \A r \in group : r.leg.side # "draw" => r.selection \in texts
    PROVE  \E one, two \in group :
             /\ one.leg.side # two.leg.side
             /\ one.leg.side # "draw" /\ two.leg.side # "draw"
             /\ one.leg.line = -two.leg.line
             /\ one.selection.signed = TRUE /\ two.selection.signed = TRUE
             /\ \A r \in group :
                  r.leg.side = "draw" \/ r.selection \in {one.selection, two.selection}
  <1> DEFINE teams == {s \in Market!Selections(group) : s.who # "draw"}
  <1>1. \A r \in group : /\ Told(r) /\ r.selection.who = r.leg.side
                         /\ r.selection.line = r.leg.line
    BY GroupRows, ToldFields DEF RowOK
  <1>2. Market!SpreadPairCoherent(group)
    BY GroupRows DEF Market!Fair
  <1>3. /\ Market!Cardinality(teams) = 2
        /\ \A x, y \in teams : x # y => /\ x.signed /\ y.signed /\ x.who # y.who
                                        /\ x.line = -y.line
    BY <1>2 DEF Market!SpreadPairCoherent
  <1>4. AtMostFour(teams)
    <2>1. teams \subseteq texts
      BY <1>1 DEF Market!Selections
    <2> HIDE DEF teams
    <2> QED
      BY <2>1 DEF AtMostFour
  <1>5. PICK x, y \in teams : x # y /\ teams = {x, y}
    <2> HIDE DEF teams
    <2> QED
      BY <1>3, <1>4, PairOfTwo DEF AtMostFour
  <1>6. PICK one \in group : one.selection = x
    BY DEF Market!Selections
  <1>7. PICK two \in group : two.selection = y
    BY DEF Market!Selections
  <1>8. x.signed = TRUE /\ y.signed = TRUE
    <2>1. x.signed \in BOOLEAN /\ y.signed \in BOOLEAN
      BY <1>1, <1>6, <1>7 DEF Told
    <2> QED
      BY <1>3, <1>5, <2>1
  <1>9. \A r \in group : r.leg.side = "draw" \/ r.selection \in {x, y}
    BY <1>1, <1>5 DEF Market!Selections
  <1>10. x.who # y.who /\ x.line = -y.line /\ x.who # "draw" /\ y.who # "draw"
    BY <1>3, <1>5
  <1> QED
    BY <1>1, <1>6, <1>7, <1>8, <1>9, <1>10

\* The legs of two teams at one line are the handicap's.
LEMMA TwoLegsOfTeams ==
    ASSUME NEW m, NEW one, NEW two, one \in Market!Teams(m), two \in Market!Teams(m),
           one.side # two.side
    PROVE  {one, two} = Market!Teams(m) /\ {one.side, two.side} = {"home", "away"}
  <1>1. /\ Market!Leg(m, "home", m.line).side = "home"
        /\ Market!Leg(m, "away", -m.line).side = "away"
    BY DEF Market!Leg
  <1> QED
    BY <1>1 DEF Market!Teams

LEMMA ThreeWayGroup ==
    ASSUME LinesInv, NEW group \in Market!Candidates,
           \A r \in group : ThreeWayRow(r) /\ Told(r),
           Market!Head(group).market = "spreads"
    PROVE  Coherent(group)
  <1> DEFINE line == Market!Head(group).detail.line
             m == [product |-> "european", unit |-> Market!ScoreUnit, period |-> "full",
                   line |-> line]
             text(side, l) == [who |-> side, line |-> l, signed |-> TRUE]
  <1>1. \A r \in group : r.detail.line = line
    BY GroupRows
  <1>2. sportKey = "soccer"
    BY GroupRows DEF ThreeWayRow
  <1>3. ASSUME NEW r \in group
        PROVE  /\ r.leg.of = m /\ r.leg \in Market!Teams(m) \cup {Market!Draw(m)}
               /\ r.selection.signed = TRUE
    <2>1. r.leg.of = m
      BY <1>1, <1>2 DEF ThreeWayRow, OfMarket
    <2> QED
      BY <2>1 DEF ThreeWayRow
  <1>4. Market!Draw(m).side = "draw"
    BY DEF Market!Draw, Market!Leg
  <1>5. ASSUME NEW r \in group, r.leg.side # "draw"
        PROVE  /\ r.leg \in Market!Teams(m)
               /\ r.selection \in {text("home", line), text("away", -line)}
    <2>1. r.leg \in Market!Teams(m)
      BY <1>3, <1>4, <1>5
    <2>2. \/ r.leg.side = "home" /\ r.leg.line = line
          \/ r.leg.side = "away" /\ r.leg.line = -line
      BY <2>1 DEF Market!Teams, Market!Leg
    <2>3. r.selection = text(r.leg.side, r.leg.line)
      BY <1>3 DEF Told
    <2> QED
      BY <2>1, <2>2, <2>3
  <1>6. PICK one, two \in group : /\ one.leg.side # two.leg.side
                                 /\ one.leg.side # "draw" /\ two.leg.side # "draw"
    <2> DEFINE texts == {text("home", line), text("away", -line)}
    <2>1. \A r \in group : r.leg.side # "draw" => r.selection \in texts
      BY <1>5
    <2>2. AtMostFour(texts)
      <3> HIDE DEF text
      <3> QED
        BY DEF AtMostFour
    <2> HIDE DEF texts
    <2>3. PICK one, two \in group :
            /\ one.leg.side # two.leg.side
            /\ one.leg.side # "draw" /\ two.leg.side # "draw"
            /\ one.leg.line = -two.leg.line
            /\ one.selection.signed = TRUE /\ two.selection.signed = TRUE
      BY <2>1, <2>2, TwoTeams
    <2> QED
      BY <2>3
  <1>7. {one.leg, two.leg} = Market!Teams(m)
    BY <1>5, <1>6, TwoLegsOfTeams
  <1>8. Market!Legs(m) = Market!Teams(m) \cup {Market!Draw(m)}
    BY DEF Market!Legs
  <1>9. /\ m.product = "european" /\ m.period = "full" /\ m.unit = Market!ScoreUnit
        /\ Market!GradedAsQuoted(m)
    BY DEF Market!GradedAsQuoted
  <1> HIDE DEF m
  <1>10. Market!Exhausts({quoted.leg : quoted \in group}, m)
    <2> DEFINE legs == {quoted.leg : quoted \in group}
    <2>1. Market!Teams(m) \subseteq legs
      BY <1>6, <1>7
    <2>2. legs \subseteq Market!Teams(m) \cup {Market!Draw(m)}
      BY <1>3
    <2>3. legs = Market!Teams(m) \/ legs = Market!Teams(m) \cup {Market!Draw(m)}
      BY <2>1, <2>2
    <2> QED
      BY <1>8, <1>9, <2>3 DEF Market!Exhausts
  <1>11. group # {}
    BY GroupRows
  <1> QED
    BY <1>3, <1>8, <1>9, <1>10, <1>11, GroupOfMarket

LEMMA InjectedGroup ==
    ASSUME LinesInv, NEW group \in Market!Candidates,
           \A r \in group : InjectedRow(r) /\ Told(r),
           Market!Head(group).market = "spreads"
    PROVE  Coherent(group)
  <1> DEFINE line == Market!Head(group).detail.line
             m == [product |-> "asian", unit |-> Market!ScoreUnit, period |-> "full",
                   line |-> line]
             text(side, l, s) == [who |-> side, line |-> l, signed |-> s]
  <1>1. \A r \in group : r.detail = Market!Head(group).detail
    BY GroupRows
  <1>2. ASSUME NEW r \in group PROVE r.leg.of.unit = Market!ScoreUnit
    <2>1. CASE r.leg.of.unit # Market!ScoreUnit
      <3>1. sportKey = "tennis" /\ r.detail.space = "asian_handicap_games"
        BY <2>1 DEF InjectedRow, OfMarket
      <3>2. Market!GameLine(group)
        BY <1>1, <3>1 DEF Market!GameLine
      <3> QED
        BY <3>2, GroupRows
    <2> QED
      BY <2>1
  <1>3. ASSUME NEW r \in group
        PROVE  r.leg.of = m /\ r.leg \in Market!Teams(m)
    <2>1. r.leg.of = m
      BY <1>1, <1>2 DEF InjectedRow, OfMarket
    <2> QED
      BY <2>1 DEF InjectedRow
  <1>4. ASSUME NEW r \in group
        PROVE  /\ r.selection \in {text("home", line, TRUE), text("home", line, FALSE),
                                   text("away", -line, TRUE), text("away", -line, FALSE)}
               /\ r.leg.side # "draw"
    <2>1. \/ r.leg.side = "home" /\ r.leg.line = line
          \/ r.leg.side = "away" /\ r.leg.line = -line
      BY <1>3 DEF Market!Teams, Market!Leg
    <2>2. /\ r.selection = text(r.leg.side, r.leg.line, r.selection.signed)
          /\ r.selection.signed = TRUE \/ r.selection.signed = FALSE
      BY DEF Told
    <2> HIDE DEF text
    <2> QED
      BY <2>1, <2>2
  <1>5. PICK one, two \in group :
          /\ one.leg.side # two.leg.side
          /\ one.selection.signed = TRUE /\ two.selection.signed = TRUE
          /\ \A r \in group :
               r.leg.side = "draw" \/ r.selection \in {one.selection, two.selection}
    <2> DEFINE texts == {text("home", line, TRUE), text("home", line, FALSE),
                         text("away", -line, TRUE), text("away", -line, FALSE)}
    <2>1. \A r \in group : r.leg.side # "draw" => r.selection \in texts
      BY <1>4
    <2>2. AtMostFour(texts)
      <3> HIDE DEF text
      <3> QED
        BY DEF AtMostFour
    <2> HIDE DEF texts
    <2> QED
      BY <2>1, <2>2, TwoTeams
  <1>6. \A r \in group : r.selection.signed = TRUE
    BY <1>4, <1>5
  <1>7. {one.leg, two.leg} = Market!Teams(m)
    BY <1>3, <1>5, TwoLegsOfTeams
  <1>8. Market!Legs(m) = Market!Teams(m)
    BY DEF Market!Legs
  <1>9. m.product = "asian" /\ m.period = "full" /\ m.unit = Market!ScoreUnit
    OBVIOUS
  <1>10. Market!GradedAsQuoted(m)
    <2>1. PICK r \in group : r.book = "soft"
      BY GroupRows DEF Market!Offered
    <2>2. line % 4 # 0
      BY <1>1, <2>1 DEF InjectedRow
    <2> QED
      BY <2>2 DEF Market!GradedAsQuoted, Market!Fractional
  <1> HIDE DEF m
  <1>11. Market!Exhausts({quoted.leg : quoted \in group}, m)
    <2>1. {quoted.leg : quoted \in group} = Market!Teams(m)
      BY <1>3, <1>5, <1>7
    <2> QED
      BY <1>8, <2>1 DEF Market!Exhausts
  <1>12. group # {}
    BY GroupRows
  <1> QED
    BY <1>3, <1>6, <1>8, <1>9, <1>10, <1>11, <1>12, GroupOfMarket

\* Of a group by its own line, two opposite selections are of one market: at level, or in
\* soccer at a fraction, where Betfair's are.
LEMMA NativeGroup ==
    ASSUME LinesInv, NEW group \in Market!Candidates,
           \A r \in group : NativeRow(r) /\ Told(r) /\ r.detail.line \in Int /\ r.leg.line \in Int,
           Market!Head(group).market = "spreads"
    PROVE  Coherent(group)
  <1> DEFINE line == Market!Head(group).detail.line
             text(side, l) == [who |-> side, line |-> l, signed |-> TRUE]
  <1>1. /\ \A r \in group : r.detail = Market!Head(group).detail
        /\ line \in Int
    BY GroupRows
  <1>2. ASSUME NEW r \in group PROVE r.leg.of.unit = Market!ScoreUnit
    <2>1. CASE r.leg.of.unit # Market!ScoreUnit
      <3>1. sportKey = "tennis" /\ r.detail.space = "spreads"
        BY <2>1 DEF NativeRow, OfMarket
      <3>2. Market!GameLine(group)
        BY <1>1, <3>1 DEF Market!GameLine
      <3> QED
        BY <3>2, GroupRows
    <2> QED
      BY <2>1
  <1>3. ASSUME NEW r \in group
        PROVE  /\ r.leg.of \in [product : {"asian", "european"}, unit : {Market!ScoreUnit},
                                period : {"full"}, line : Int]
               /\ r.leg \in Market!Teams(r.leg.of)
               /\ \/ r.leg.side = "home" /\ r.leg.line = r.leg.of.line
                  \/ r.leg.side = "away" /\ r.leg.line = -r.leg.of.line
               /\ r.leg.of.product = "european" => r.leg.of.line # 0 /\ sportKey # "soccer"
    <2>1. r.leg \in Market!Teams(r.leg.of)
      BY DEF NativeRow
    <2>2. \/ r.leg.side = "home" /\ r.leg.line = r.leg.of.line
          \/ r.leg.side = "away" /\ r.leg.line = -r.leg.of.line
      BY <2>1 DEF Market!Teams, Market!Leg
    <2>3. \/ r.leg.of \in [product : {"asian"}, unit : STRING, period : {"full"}, line : Int]
          \/ /\ r.leg.of \in [product : {"european"}, unit : STRING, period : {"full"}, line : Int]
             /\ sportKey # "soccer"
      BY DEF NativeRow, OfMarket
    <2>4. r.leg.of.unit = Market!ScoreUnit
      BY <1>2
    <2>5. r.leg.of.product = "european" => r.leg.of.line # 0
      BY DEF NativeRow
    <2> HIDE DEF Market!ScoreUnit
    <2> QED
      BY <2>1, <2>2, <2>3, <2>4, <2>5
  <1>4. ASSUME NEW r \in group
        PROVE  /\ \/ r.leg.line = line
                  \/ sportKey = "soccer" /\ line % 4 # 0 /\ r.leg.line = -line
               /\ r.selection = text(r.leg.side, r.leg.line) /\ r.selection.signed = TRUE
               /\ r.leg.side \in {"home", "away"}
    <2>1. \/ r.leg.line = line
          \/ sportKey = "soccer" /\ line % 4 # 0 /\ r.leg.line = -line
      BY <1>1 DEF NativeRow
    <2>2. r.selection = text(r.leg.side, r.leg.line) /\ r.selection.signed = TRUE
      BY DEF NativeRow, Told
    <2> QED
      BY <1>3, <2>1, <2>2
  <1>5. PICK one, two \in group :
          /\ one.leg.side # two.leg.side
          /\ one.leg.line = -two.leg.line
          /\ \A r \in group :
               r.leg.side = "draw" \/ r.selection \in {one.selection, two.selection}
    <2> DEFINE texts == {text("home", line), text("home", -line),
                         text("away", line), text("away", -line)}
    <2>1. \A r \in group : r.leg.side # "draw" => r.selection \in texts
      <3> HIDE DEF line, text
      <3> QED
        BY <1>4
    <2>2. AtMostFour(texts)
      <3> HIDE DEF text, line
      <3> QED
        BY DEF AtMostFour
    <2> HIDE DEF texts
    <2> QED
      BY <2>1, <2>2, TwoTeams
  <1> DEFINE m == one.leg.of
  <1> HIDE DEF line
  \* Every row is of one of the two selections, and so of the market of the first.
  <1>6. ASSUME NEW r \in group PROVE r.leg.of.line = m.line
    <2>1. \/ r.leg.side = one.leg.side /\ r.leg.line = one.leg.line
          \/ r.leg.side = two.leg.side /\ r.leg.line = two.leg.line
      <3>1. r.selection = one.selection \/ r.selection = two.selection
        BY <1>4, <1>5
      <3>2. Told(r) /\ Told(one) /\ Told(two)
        OBVIOUS
      <3> QED
        BY <3>1, <3>2, ToldFields
    <2> QED
      BY <1>3, <1>5, <2>1
  <1>7. m.line = 0 \/ (sportKey = "soccer" /\ m.line % 4 # 0)
    <2>1. one.leg.line \in Int /\ two.leg.line \in Int /\ m.line \in Int
      BY <1>3
    <2>2. CASE one.leg.line = line /\ two.leg.line = line
      BY <1>1, <1>3, <1>5, <2>1, <2>2
    <2>3. CASE sportKey = "soccer" /\ line % 4 # 0
      <3>1. m.line = line \/ m.line = -line
        <4>1. one.leg.line = line \/ one.leg.line = -line
          BY <1>4
        <4>2. one.leg.line = m.line \/ one.leg.line = -m.line
          BY <1>3
        <4> HIDE DEF m
        <4> QED
          BY <1>1, <2>1, <4>1, <4>2
      <3>2. (-line) % 4 # 0
        BY <1>1, <2>3, Fractions
      <3> QED
        BY <2>3, <3>1, <3>2
    <2> QED
      BY <1>4, <2>2, <2>3
  <1>8. ASSUME NEW r \in group PROVE r.leg.of = m
    <2>1. r.leg.of.product = "asian" /\ m.product = "asian"
      BY <1>3, <1>6, <1>7
    <2> QED
      BY <1>3, <1>6, <2>1
  <1>9. /\ m.product = "asian" /\ m.period = "full" /\ m.unit = Market!ScoreUnit
        /\ m.line \in Int
    BY <1>3, <1>7
  <1>10. Market!Legs(m) = Market!Teams(m)
    BY <1>9 DEF Market!Legs
  <1>11. Market!GradedAsQuoted(m)
    BY <1>7 DEF Market!GradedAsQuoted, Market!Fractional
  <1> HIDE DEF m
  <1>12. {one.leg, two.leg} = Market!Teams(m)
    BY <1>3, <1>5, <1>8, TwoLegsOfTeams
  <1>13. Market!Exhausts({quoted.leg : quoted \in group}, m)
    <2>1. {quoted.leg : quoted \in group} = Market!Teams(m)
      BY <1>3, <1>5, <1>8, <1>12
    <2> QED
      BY <1>10, <2>1 DEF Market!Exhausts
  <1>14. group # {}
    BY GroupRows
  <1>15. \A r \in group : /\ r.leg.of = m /\ r.leg \in Market!Legs(m)
                          /\ Told(r) /\ r.selection.signed = TRUE
    <2>1. ASSUME NEW r \in group PROVE r.leg.of = m
      BY <1>8
    <2>2. ASSUME NEW r \in group PROVE r.leg \in Market!Legs(m)
      BY <1>3, <1>8, <1>10
    <2>3. ASSUME NEW r \in group PROVE Told(r) /\ r.selection.signed = TRUE
      BY <1>4
    <2> QED
      BY ONLY <2>1, <2>2, <2>3
  <1> QED
    BY <1>9, <1>11, <1>13, <1>14, <1>15, GroupOfMarket

\* The rows of a group are all of one kind, which its market and its space tell.
LEMMA EveryGroupCoherent ==
    ASSUME LinesInv, NEW group \in Market!Candidates
    PROVE  Coherent(group)
  <1> DEFINE head == Market!Head(group)
  <1>1. /\ head \in group
        /\ \A r \in group : RowOK(r) /\ r.market = head.market /\ r.detail = head.detail
                            /\ ~HalfRow(r)
    BY GroupRows
  <1> HIDE DEF head
  <1>2. \A r \in group : /\ Told(r) /\ r.detail.line \in Int /\ r.leg.line \in Int
                         /\ TotalRow(r) \/ ThreeWayRow(r) \/ InjectedRow(r) \/ NativeRow(r)
    BY <1>1 DEF RowOK
  <1>3. CASE TotalRow(head)
    BY <1>3, TotalsGroup DEF TotalRow, head
  <1>4. CASE ThreeWayRow(head)
    <2>1. \A r \in group : ThreeWayRow(r)
      BY <1>1, <1>2, <1>4 DEF TotalRow, ThreeWayRow, InjectedRow, NativeRow
    <2> QED
      BY <1>2, <1>4, <2>1, ThreeWayGroup DEF ThreeWayRow, head
  <1>5. CASE InjectedRow(head)
    <2>1. \A r \in group : InjectedRow(r)
      BY <1>1, <1>2, <1>5 DEF TotalRow, ThreeWayRow, InjectedRow, NativeRow
    <2> QED
      BY <1>2, <1>5, <2>1, InjectedGroup DEF InjectedRow, head
  <1>6. CASE NativeRow(head)
    <2>1. \A r \in group : NativeRow(r)
      BY <1>1, <1>2, <1>6 DEF TotalRow, ThreeWayRow, InjectedRow, NativeRow
    <2> QED
      BY <1>2, <1>6, <2>1, NativeGroup DEF NativeRow, head
  <1> QED
    BY <1>1, <1>2, <1>3, <1>4, <1>5, <1>6

\* Whatever quotes the providers bring, of any markets that books list and in whatever
\* part: a group that gives candidates holds all the outcomes of one market of the whole
\* match, in the unit of the final score, each under one selection (fold_injected_group_details,
\* group_market_prices, spread_pair_coherent, the candidate boundary). The proof is of any
\* menus and any number of quotes.
THEOREM Priced_GroupsAreMarkets == Spec => []PricedGroupsAreMarkets
  <1>1. LinesInv => PricedGroupsAreMarkets
    BY EveryGroupCoherent DEF Coherent, PricedGroupsAreMarkets, Market!PricedGroupsAreMarkets
  <1> QED
    BY <1>1, LinesInvariant, PTL
=============================================================================
