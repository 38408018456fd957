---------------------------- MODULE PricingProofs ----------------------------
(***************************************************************************)
(* Theorems about the components that decide what a pick's price is worth: *)
(* the kickoff a poll cycle believes, the closing line of a pick, and what *)
(* a close proves.  They hold for every value of the constants the         *)
(* platform's assumptions allow, of the platform's specification.          *)
(***************************************************************************)
EXTENDS MCPlatform, TLAPS

----------------------------------------------------------------------------
(* One component moves at a time; the others stand still.                  *)

LEMMA GateSteps == [Next]_vars => Gate!InPlayNext \/ UNCHANGED gateVars
  BY DEF Next, Only, vars

LEMMA CloseSteps == [Next]_vars => Close!CloseNext \/ UNCHANGED closeVars
  BY DEF Next, Only, vars

LEMMA EvidenceSteps == [Next]_vars => Evidence!EvidenceNext \/ UNCHANGED evidenceVars
  BY DEF Next, Only, vars

----------------------------------------------------------------------------
(* InPlayGate: a fixture under way is not priced.                          *)

\* Between refresh and load the row says what the scraper says, if that is a real time;
\* the kickoff a cycle prices by is never later than the one known when it was loaded;
\* only a cycle that has minted has a pick.
GateSound ==
    /\ step = "loading" /\ ~misled /\ directory \in Times
         => startsAt \in {directory, Gate!Unset}
    /\ step = "pricing" /\ ~misled => kickoff <= known
    /\ picked => step = "minted"

GateInv ==
    /\ Gate!InPlayTypeOK /\ clock < Horizon /\ now < Horizon
    /\ GateSound /\ Gate!NoInPlayPick

\* The kickoffs are integers, a bare date is earlier than the real kickoff of its day, and
\* every kickoff is earlier than the horizon.
LEMMA KickoffOrder ==
    /\ Midnight \in Nat /\ Horizon \in Nat /\ Midnight < Horizon
    /\ \A k \in Times : k \in Nat /\ Midnight < k /\ k < Horizon
    /\ Gate!Unset = -1 /\ Gate!Unset \notin Times /\ Midnight \notin Times
    /\ \A k \in Gate!Reports : k \in Int /\ k < Horizon
  BY PlatformAssumption DEF Gate!InPlayAssumption, Gate!Unset, Gate!Reports

\* prefer_kickoff returns one of the two, and a real time over anything.
LEMMA PreferredKickoff ==
    ASSUME NEW old \in Gate!Reports, NEW new \in Gate!Reports
    PROVE  /\ Gate!Preferred(old, new) \in {old, new}
           /\ new \in Times => Gate!Preferred(old, new) = new
  BY KickoffOrder DEF Gate!Preferred, Gate!Reports

\* The directory is empty and no cycle runs.
LEMMA GateInitInv == Gate!InPlayInit => GateInv
  <1> SUFFICES ASSUME Gate!InPlayInit PROVE GateInv
    OBVIOUS
  <1>1. clock \in 0 .. Horizon /\ now \in 0 .. Horizon /\ clock < Horizon /\ now < Horizon
    BY KickoffOrder DEF Gate!InPlayInit
  <1>2. directory \in Gate!Reports /\ startsAt \in Gate!Reports /\ kickoff \in Gate!Reports
    BY DEF Gate!InPlayInit, Gate!Reports
  <1>3. /\ step = "idle" /\ known \in Times \cup {Horizon} /\ misled = FALSE /\ picked = FALSE
    BY DEF Gate!InPlayInit
  <1> QED
    BY <1>1, <1>2, <1>3 DEF GateInv, Gate!InPlayTypeOK, GateSound, Gate!NoInPlayPick

\* A cycle that ends, or dies, leaves nothing behind but the row and the directory.
LEMMA CycleIsOver ==
    ASSUME GateInv, step' = "idle", Gate!Forget, clock' = clock,
           directory' \in Gate!Reports, startsAt' \in Gate!Reports
    PROVE  GateInv'
  <1>1. clock' \in 0 .. Horizon /\ now' \in 0 .. Horizon /\ clock' < Horizon /\ now' < Horizon
    BY KickoffOrder DEF Gate!Forget, GateInv, Gate!InPlayTypeOK
  <1>2. kickoff' \in Gate!Reports
    BY DEF Gate!Forget, Gate!Reports
  <1>3. known' \in Times \cup {Horizon} /\ misled' = FALSE /\ picked' = FALSE
    BY DEF Gate!Forget
  <1> QED
    BY <1>1, <1>2, <1>3 DEF GateInv, Gate!InPlayTypeOK, GateSound, Gate!NoInPlayPick

\* Each step of the cycle, of the clock and of the other sources.
LEMMA GateNextInv ==
    ASSUME GateInv, Gate!InPlayNext PROVE GateInv'
  <1> USE KickoffOrder DEF GateInv, GateSound, Gate!NoInPlayPick
  <1>t. Gate!InPlayTypeOK
    OBVIOUS
  <1>1. CASE Gate!ClockTicks
    BY <1>1 DEF Gate!ClockTicks, Gate!cycleVars, Gate!InPlayTypeOK
  <1>2. CASE Gate!FetchReturns
    BY <1>2 DEF Gate!FetchReturns, Gate!Turn, Gate!InPlayTypeOK
  <1>3. CASE Gate!Withheld
    <2>1. startsAt' \in Gate!Reports
      BY <1>3, PreferredKickoff DEF Gate!Withheld, Gate!InPlayTypeOK
    <2> QED
      BY <1>3, <2>1, CycleIsOver DEF Gate!Withheld, Gate!Turn, Gate!InPlayTypeOK
  <1>4. CASE Gate!Refresh
    <2>1. /\ startsAt' \in Gate!Reports
          /\ directory \in Times => startsAt' \in {directory, Gate!Unset}
      BY <1>4, PreferredKickoff DEF Gate!Refresh, Gate!InPlayTypeOK
    <2> QED
      BY <1>4, <2>1 DEF Gate!Refresh, Gate!Turn, Gate!cycleVars, Gate!InPlayTypeOK
  <1>5. CASE Gate!RefreshFails
    BY <1>5 DEF Gate!RefreshFails, Gate!Turn, Gate!InPlayTypeOK
  <1>6. CASE Gate!Mint
    <2>1. startsAt' \in Gate!Reports
      BY <1>6, PreferredKickoff DEF Gate!Mint, Gate!InPlayTypeOK
    <2>2. /\ step = "pricing" /\ step' = "minted" /\ picked' = Gate!Actionable
          /\ UNCHANGED <<clock, directory, now, kickoff, known, misled>>
      BY <1>6 DEF Gate!Mint, Gate!Turn
    <2>3. now \in Int /\ kickoff \in Int /\ known \in Int
      BY DEF Gate!InPlayTypeOK
    <2>4. picked' => kickoff > now
      BY <2>2 DEF Gate!Actionable
    <2>5. picked' /\ ~misled' => now' < known'
      BY <2>2, <2>3, <2>4
    <2>6. Gate!InPlayTypeOK'
      BY <2>1, <2>2 DEF Gate!InPlayTypeOK, Gate!Actionable
    <2> QED
      BY <2>2, <2>5, <2>6
  <1>7. CASE Gate!EndCycle
    BY <1>7, CycleIsOver DEF Gate!EndCycle, Gate!Turn, Gate!InPlayTypeOK
  <1>8. CASE Gate!CycleDies
    BY <1>8, CycleIsOver DEF Gate!CycleDies, Gate!InPlayTypeOK, Gate!Reports
  <1>9. ASSUME NEW k \in Gate!Reports, Gate!OtherSourceWrites(k) PROVE GateInv'
    <2>1. startsAt' \in Gate!Reports
      BY <1>9, PreferredKickoff DEF Gate!OtherSourceWrites, Gate!InPlayTypeOK
    <2> QED
      BY <1>9, <2>1 DEF Gate!OtherSourceWrites, Gate!InPlayTypeOK
  <1>10. ASSUME NEW k \in Gate!Reports, Gate!Fetch(k) PROVE GateInv'
    <2>1. directory' \in Gate!Reports
      BY <1>10, PreferredKickoff DEF Gate!Fetch, Gate!InPlayTypeOK
    <2> QED
      BY <1>10, <2>1 DEF Gate!Fetch, Gate!Turn, Gate!cycleVars, Gate!InPlayTypeOK
  <1>11. ASSUME NEW readable \in BOOLEAN, Gate!Load(readable) PROVE GateInv'
    <2>1. /\ step = "loading" /\ step' = "pricing" /\ known' = Gate!RealKickoff
          /\ kickoff' = IF readable /\ startsAt # Gate!Unset THEN startsAt ELSE directory
          /\ UNCHANGED <<clock, directory, startsAt, now, misled, picked>>
      BY <1>11 DEF Gate!Load, Gate!Turn
    <2>2. /\ directory \in Gate!Reports /\ startsAt \in Gate!Reports
          /\ directory \notin Times => directory < Horizon /\ directory <= Midnight
      BY DEF Gate!InPlayTypeOK, Gate!Reports
    <2>3. known' \in Times \cup {Horizon} /\ kickoff' \in Gate!Reports
      BY <2>1, <2>2 DEF Gate!RealKickoff
    <2>4. ~misled => kickoff' <= known'
      BY <2>1, <2>2 DEF Gate!RealKickoff, Gate!Reports
    <2>5. Gate!InPlayTypeOK'
      BY <2>1, <2>3 DEF Gate!InPlayTypeOK
    <2> QED
      BY <2>1, <2>4, <2>5
  <1> QED
    BY <1>1, <1>2, <1>3, <1>4, <1>5, <1>6, <1>7, <1>8, <1>9, <1>10, <1>11 DEF Gate!InPlayNext

LEMMA GateStutters == GateInv /\ UNCHANGED gateVars => GateInv'
  BY DEF gateVars, GateInv, Gate!InPlayTypeOK, GateSound, Gate!NoInPlayPick

LEMMA GateInvariant == Spec => []GateInv
  <1>1. Init => GateInv
    BY GateInitInv DEF Init
  <1>2. GateInv /\ [Next]_vars => GateInv'
    BY GateSteps, GateNextInv, GateStutters
  <1> QED
    BY <1>1, <1>2, PTL DEF Spec

\* run_value_pipeline and prefer_kickoff: no pick is minted from prices fetched at or after
\* the kickoff that scraper or row knew of, for any set of kickoffs, in whatever order cycle,
\* capture jobs and restarts write.
THEOREM No_InPlayPick == Spec => []NoInPlayPick
  <1>1. GateInv => NoInPlayPick
    BY DEF GateInv, NoInPlayPick
  <1> QED
    BY GateInvariant, <1>1, PTL

----------------------------------------------------------------------------
(* CloseLine: the close of a pick is of the price it is held at.           *)

\* The poll cycle, as a record, and where it stands in time: a cycle that prices or
\* re-prices anything began before kickoff, and is over before settlement is due.
CycleTimely ==
    /\ cycle = [step |-> cycle.step, early |-> cycle.early, seen |-> cycle.seen,
                tier |-> cycle.tier, verdict |-> cycle.verdict, unsent |-> cycle.unsent]
    /\ time = "before" /\ cycle.step # "idle" => cycle.early
    /\ cycle.early => time # "due"
    /\ cycle.step = "minting" => cycle.early
    /\ cycle.step = "repricing" /\ DOMAIN cycle.verdict # {} => cycle.early

\* What the cycle has read of a row is still true of its price and its tier, as only the
\* cycle writes those; its status has changed only if a request settled the pick.
CycleHolds ==
    /\ cycle.step = "minting" =>
         /\ cycle.seen[version].tier = row[version].tier
         /\ cycle.seen[version].status = "alerted"
              => row[version].status = "alerted" \/ version \in byHand
    /\ cycle.step = "repricing" =>
         \A p \in DOMAIN cycle.verdict :
            p \in Versions /\ cycle.seen[p].price = row[p].price

\* The job reads picks once settlement is due and no cycle prices any more; whatever a
\* request has read counts as settled by hand.
TxHolds ==
    /\ \A w \in Close!Settlers : tx[w] = [kind |-> tx[w].kind, seen |-> tx[w].seen]
    /\ tx = [w \in Close!Settlers |-> tx[w]]
    /\ tx["job"].kind \in {"none", "auto"}
    /\ tx["job"].kind = "auto" => time = "due"
    /\ tx["job"].kind = "auto" => \A p \in DOMAIN tx["job"].seen :
         /\ p \in Versions /\ tx["job"].seen[p].price = row[p].price
         /\ p \notin byHand => row[p].status = "alerted"
    /\ tx["request"].kind # "none" => DOMAIN tx["request"].seen \subseteq byHand

\* Results and the status "settled" go together, and before settlement is due only a
\* request writes them.
ResultsHold ==
    /\ row = [p \in Versions |-> row[p]]
    /\ \A p \in Versions :
         /\ row[p] = [status |-> row[p].status, tier |-> row[p].tier, price |-> row[p].price,
                      close |-> row[p].close, snap |-> row[p].snap, gaveUp |-> row[p].gaveUp,
                      lost |-> row[p].lost]
         /\ row[p].status = "settled" <=> p \in result
         /\ row[p].status = "settled" /\ p \notin byHand => time = "due"
    /\ result \subseteq Versions /\ byHand \subseteq Versions

\* A premium pick that is open or was settled.
ActivePremium(p) == row[p].status \in {"alerted", "settled"} /\ row[p].tier = "premium"

OneActivePremium ==
    \A p, q \in Versions \ byHand : ActivePremium(p) /\ ActivePremium(q) => p = q

CountsAreNumbers ==
    /\ \A n \in {mentioned, missed, losses} : n \in [Versions -> Nat]
    /\ cycle.step # "mentioning" => cycle.unsent = {}

CloseInv ==
    /\ CycleTimely /\ CycleHolds /\ TxHolds /\ ResultsHold /\ OneActivePremium
    /\ version \in Versions
    /\ CountsAreNumbers /\ Close!CloseIsOfThePrice /\ Close!MentionsMatchLosses

\* The process runs a strategy version.
LEMMA FirstVersion == 1 \in Versions
  BY PlatformAssumption DEF Close!CloseAssumption

\* No pick, no cycle, no transaction.
LEMMA CloseInitInv == Close!CloseInit => CloseInv
  <1> SUFFICES ASSUME Close!CloseInit PROVE CloseInv
    OBVIOUS
  <1>1. /\ cycle = Close!Idle /\ time = "before" /\ version \in Versions
    BY FirstVersion DEF Close!CloseInit
  <1>2. CycleTimely /\ CycleHolds
    BY <1>1 DEF CycleTimely, CycleHolds, Close!Idle
  <1>3. \A w \in Close!Settlers : tx[w] = Close!NoTx
    BY DEF Close!CloseInit
  <1>4. TxHolds
    BY <1>3 DEF TxHolds, Close!NoTx, Close!Settlers, Close!CloseInit
  <1>5. \A p \in Versions : row[p] = Close!Absent
    BY DEF Close!CloseInit
  <1>6. ResultsHold /\ OneActivePremium /\ Close!CloseIsOfThePrice
    BY <1>5 DEF ResultsHold, OneActivePremium, ActivePremium, Close!CloseIsOfThePrice,
                Close!Absent, Close!NoClose, Close!CloseInit
  <1>7. CountsAreNumbers /\ Close!MentionsMatchLosses
    BY <1>1 DEF CountsAreNumbers, Close!MentionsMatchLosses, Close!Idle, Close!CloseInit
  <1> QED
    BY <1>2, <1>4, <1>6, <1>7, <1>1 DEF CloseInv

\* A step that leaves rows, results and history alone owes only what it says of the cycle
\* and of the transactions.
LEMMA RowsStand ==
    ASSUME CloseInv, UNCHANGED <<row, result, byHand>>, time' = time \/ time' = "due"
    PROVE  ResultsHold' /\ OneActivePremium' /\ Close!CloseIsOfThePrice'
  BY DEF CloseInv, ResultsHold, OneActivePremium, ActivePremium, Close!CloseIsOfThePrice

\* A step of the cycle leaves the transactions as they are, and the other way round.
LEMMA TransactionsStand ==
    ASSUME CloseInv, UNCHANGED <<tx, row, byHand>>, time' = time \/ time' = "due"
    PROVE  TxHolds'
  BY DEF CloseInv, TxHolds

LEMMA CycleStands ==
    ASSUME CloseInv, UNCHANGED <<cycle, time, version, losses, mentioned, missed>>
    PROVE  CycleTimely' /\ CountsAreNumbers' /\ Close!MentionsMatchLosses'
  BY DEF CloseInv, CycleTimely, CountsAreNumbers, Close!MentionsMatchLosses

\* Settlement is due only when no cycle from before kickoff runs any more.
LEMMA TimePassesInv ==
    ASSUME CloseInv, Close!TimePasses PROVE CloseInv'
  <1>1. /\ UNCHANGED <<row, result, version, cycle, tx, mentioned, missed, losses, byHand>>
        /\ \/ time = "before" /\ time' = "playing"
           \/ time = "playing" /\ ~cycle.early /\ time' = "due"
    BY DEF Close!TimePasses, Close!histories
  <1>2. CycleTimely'
    BY <1>1 DEF CloseInv, CycleTimely
  <1>3. CycleHolds' /\ CountsAreNumbers' /\ Close!MentionsMatchLosses'
    BY <1>1 DEF CloseInv, CycleHolds, CountsAreNumbers, Close!MentionsMatchLosses
  <1>4. TxHolds'
    BY <1>1 DEF CloseInv, TxHolds
  <1>5. ResultsHold' /\ OneActivePremium' /\ Close!CloseIsOfThePrice'
    BY <1>1 DEF CloseInv, ResultsHold, OneActivePremium, ActivePremium,
                Close!CloseIsOfThePrice
  <1> QED
    BY <1>1, <1>2, <1>3, <1>4, <1>5 DEF CloseInv

\* The steps of a cycle that price nothing.
LEMMA CycleMovesInv ==
    ASSUME CloseInv,
           \/ Close!BeginCycle
           \/ Close!NothingDetected
           \/ \E tier \in {"volume", "premium"} : Close!Detect(tier)
           \/ Close!RevalidationFails
           \/ Close!EndCycle
    PROVE  CloseInv'
  <1>1. /\ UNCHANGED <<time, row, result, version, tx, mentioned, missed, losses, byHand>>
        /\ cycle.unsent = {}
    BY DEF CloseInv, CountsAreNumbers, Close!histories, Close!BeginCycle,
           Close!NothingDetected, Close!Detect, Close!RevalidationFails, Close!EndCycle
  <1>2. ResultsHold' /\ OneActivePremium' /\ Close!CloseIsOfThePrice' /\ TxHolds'
    BY <1>1, RowsStand, TransactionsStand
  <1>3. CycleTimely' /\ CycleHolds' /\ cycle'.unsent = {}
    <2>1. CASE Close!BeginCycle
      BY <1>1, <2>1 DEF Close!BeginCycle, Close!Idle, CloseInv, CycleTimely, CycleHolds
    <2>2. CASE Close!NothingDetected
      BY <1>1, <2>2 DEF Close!NothingDetected, CloseInv, CycleTimely, CycleHolds
    <2>3. ASSUME NEW tier \in {"volume", "premium"}, Close!Detect(tier)
          PROVE  CycleTimely' /\ CycleHolds' /\ cycle'.unsent = {}
      <3>1. /\ cycle'.step = "minting" /\ cycle'.early = cycle.early
            /\ cycle'.unsent = cycle.unsent /\ cycle.early
            /\ cycle'.seen[version] = row[version]
        BY <2>3 DEF Close!Detect, CloseInv, CycleTimely
      <3>2. CycleTimely'
        BY <1>1, <2>3 DEF Close!Detect, CloseInv, CycleTimely
      <3>3. CycleHolds'
        BY <1>1, <3>1 DEF CycleHolds
      <3> QED
        BY <1>1, <3>1, <3>2, <3>3
    <2>4. CASE Close!RevalidationFails
      BY <1>1, <2>4 DEF Close!RevalidationFails, Close!Idle, CloseInv, CycleTimely, CycleHolds
    <2>5. CASE Close!EndCycle
      BY <1>1, <2>5 DEF Close!EndCycle, Close!Idle, CloseInv, CycleTimely, CycleHolds
    <2> QED
      BY <2>1, <2>2, <2>3, <2>4, <2>5
  <1>4. CountsAreNumbers' /\ Close!MentionsMatchLosses'
    BY <1>1, <1>3 DEF CloseInv, CountsAreNumbers, Close!MentionsMatchLosses
  <1> QED
    BY <1>1, <1>2, <1>3, <1>4 DEF CloseInv

\* The picks are read and judged at once.
LEMMA RevalidateInv ==
    ASSUME CloseInv,
           NEW close \in [Close!Revalidated -> {"unpriced", "implausible", "below", "above"}],
           Close!Revalidate(close)
    PROVE  CloseInv'
  <1>1. /\ UNCHANGED <<time, row, result, version, tx, mentioned, missed, losses, byHand>>
        /\ cycle.step = "minted" /\ cycle'.step = "repricing"
        /\ cycle'.early = cycle.early /\ cycle'.unsent = cycle.unsent
        /\ DOMAIN cycle'.verdict = Close!Revalidated
        /\ \A p \in Close!Revalidated : cycle'.seen[p] = row[p]
    BY DEF Close!Revalidate, Close!histories, CloseInv, CycleTimely
  <1>2. Close!Revalidated \subseteq Versions
        /\ (Close!Revalidated # {} => time = "before")
    BY DEF Close!Revalidated, Close!Open
  <1>3. cycle' = [step |-> cycle'.step, early |-> cycle'.early, seen |-> cycle'.seen,
                  tier |-> cycle'.tier, verdict |-> cycle'.verdict,
                  unsent |-> cycle'.unsent]
    BY DEF Close!Revalidate, CloseInv, CycleTimely
  <1>4. CycleTimely'
    BY <1>1, <1>2, <1>3 DEF CloseInv, CycleTimely
  <1>5. CycleHolds'
    BY <1>1, <1>2 DEF CycleHolds
  <1>6. ResultsHold' /\ OneActivePremium' /\ Close!CloseIsOfThePrice' /\ TxHolds'
    BY <1>1, RowsStand, TransactionsStand
  <1>7. CountsAreNumbers' /\ Close!MentionsMatchLosses'
    BY <1>1 DEF CloseInv, CountsAreNumbers, Close!MentionsMatchLosses
  <1> QED
    BY <1>1, <1>4, <1>5, <1>6, <1>7 DEF CloseInv

\* The row of a pick after the mint.  Only the cycle's own version is priced, and a new
\* price leaves no close; other picks are displaced, or left alone.
LEMMA MintedRow ==
    ASSUME CloseInv, NEW moved \in BOOLEAN, Close!Mint(moved), NEW p \in Versions
    PROVE  /\ row'[p] = [status |-> row'[p].status, tier |-> row'[p].tier,
                         price |-> row'[p].price, close |-> row'[p].close,
                         snap |-> row'[p].snap, gaveUp |-> row'[p].gaveUp,
                         lost |-> row'[p].lost]
           /\ row'[p].status = "settled" <=> row[p].status = "settled"
           /\ \/ row'[p].close = row[p].close /\ row'[p].price = row[p].price
              \/ row'[p].close = Close!NoClose /\ p = version
           /\ row'[p].snap = row[p].snap \/ row'[p].status # "settled" \/ p \in byHand
  <1>1. cycle.step = "minting" /\ version \in Versions
    BY DEF Close!Mint, CloseInv
  <1>2. cycle.seen[version].status = "alerted"
          => row[version].status = "alerted" \/ version \in byHand
    BY <1>1 DEF CloseInv, CycleHolds
  <1>3. row[p] = [status |-> row[p].status, tier |-> row[p].tier, price |-> row[p].price,
                  close |-> row[p].close, snap |-> row[p].snap, gaveUp |-> row[p].gaveUp,
                  lost |-> row[p].lost]
    BY DEF CloseInv, ResultsHold
  <1>4. \/ /\ p = version /\ row[version].status = "none"
           /\ row'[p] = [Close!Absent EXCEPT !.status = "alerted", !.tier = cycle.tier,
                                             !.price = polls]
        \/ /\ p = version /\ cycle.seen[version].status = "alerted"
           /\ row'[p] = Close!Repriced(p)
        \/ /\ row[p].status = "alerted"
           /\ row'[p] = [row[p] EXCEPT !.status = "superseded"]
        \/ row'[p] = row[p]
    BY DEF Close!Mint, Close!Displaced
  <1>5. row'[p] = [status |-> row'[p].status, tier |-> row'[p].tier, price |-> row'[p].price,
                  close |-> row'[p].close, snap |-> row'[p].snap,
                  gaveUp |-> row'[p].gaveUp, lost |-> row'[p].lost]
    BY <1>3, <1>4 DEF Close!Absent, Close!Repriced
  <1>6. row'[p].status = "settled" <=> row[p].status = "settled"
    BY <1>3, <1>4 DEF Close!Absent, Close!Repriced
  <1>7. \/ row'[p].close = row[p].close /\ row'[p].price = row[p].price
        \/ row'[p].close = Close!NoClose /\ p = version
    BY <1>3, <1>4 DEF Close!Absent, Close!Repriced
  <1>8. row'[p].snap = row[p].snap \/ row'[p].status # "settled" \/ p \in byHand
    BY <1>2, <1>3, <1>4 DEF Close!Absent, Close!Repriced
  <1> QED
    BY <1>5, <1>6, <1>7, <1>8

\* A cycle that mints began before kickoff, so what is settled was settled by hand: of two
\* premium picks, the one the cycle mints or promotes has displaced the other.
LEMMA MintKeepsOnePremium ==
    ASSUME CloseInv, NEW moved \in BOOLEAN, Close!Mint(moved) PROVE OneActivePremium'
  <1> SUFFICES ASSUME NEW p \in Versions \ byHand, NEW q \in Versions \ byHand, p # q,
                      ActivePremium(p)', ActivePremium(q)'
               PROVE  FALSE
    BY DEF Close!Mint, OneActivePremium
  <1>1. /\ cycle.step = "minting" /\ version \in Versions /\ time # "due"
        /\ cycle.seen[version].tier = row[version].tier
        /\ cycle.seen[version].status = "alerted"
             => row[version].status = "alerted" \/ version \in byHand
    BY DEF Close!Mint, CloseInv, CycleTimely, CycleHolds
  <1> DEFINE inserts == row[version].status = "none"
             promotes == /\ ~inserts /\ cycle.seen[version].status = "alerted"
                         /\ cycle.tier = "premium" /\ row[version].tier = "volume"
             prices == inserts \/ promotes
  <1>2. ASSUME NEW r \in Versions \ byHand, ActivePremium(r)', r # version
        PROVE  /\ ActivePremium(r)
               /\ prices => cycle.tier # "premium"
    <2>1. row[r].status # "settled"
      BY <1>1 DEF CloseInv, ResultsHold
    <2>2. row[r] = [status |-> row[r].status, tier |-> row[r].tier,
                    price |-> row[r].price, close |-> row[r].close, snap |-> row[r].snap,
                    gaveUp |-> row[r].gaveUp, lost |-> row[r].lost]
      BY DEF CloseInv, ResultsHold
    <2>3. row'[r] = IF prices /\ Close!Displaced(r)
                      THEN [row[r] EXCEPT !.status = "superseded"] ELSE row[r]
      BY <1>1, <1>2 DEF Close!Mint
    <2>4. ~(prices /\ Close!Displaced(r)) /\ row'[r] = row[r]
      BY <1>2, <2>2, <2>3 DEF ActivePremium
    <2> QED
      BY <1>2, <2>1, <2>4 DEF ActivePremium, Close!Displaced
  <1>3. version = p \/ version = q
    BY <1>2 DEF CloseInv, OneActivePremium
  <1>4. PICK r \in {p, q} : r # version /\ ActivePremium(r) /\ ActivePremium(r)'
                            /\ (prices => cycle.tier # "premium")
    BY <1>2, <1>3
  <1>5. version \notin byHand /\ ~ActivePremium(version)
    BY <1>3, <1>4 DEF CloseInv, OneActivePremium
  <1>6. row'[version].status \in {"alerted", "settled"} /\ row'[version].tier = "premium"
    BY <1>3 DEF ActivePremium
  <1>7. row[version] = [status |-> row[version].status, tier |-> row[version].tier,
                  price |-> row[version].price, close |-> row[version].close,
                  snap |-> row[version].snap, gaveUp |-> row[version].gaveUp,
                  lost |-> row[version].lost]
    BY <1>1 DEF CloseInv, ResultsHold
  <1>8. CASE inserts
    <2>1. row'[version].tier = cycle.tier
      BY <1>1, <1>8 DEF Close!Mint, Close!Absent
    <2> QED
      BY <1>4, <1>6, <1>8, <2>1 DEF ActivePremium
  <1>9. CASE promotes
    BY <1>4, <1>9
  <1>10. CASE ~inserts /\ cycle.seen[version].status = "alerted"
              /\ cycle.seen[version].tier = "premium"
    BY <1>1, <1>5, <1>10 DEF ActivePremium
  <1>11. CASE row'[version] = row[version]
    BY <1>5, <1>6, <1>11 DEF ActivePremium
  <1>12. \/ inserts \/ promotes \/ row'[version] = row[version]
         \/ ~inserts /\ cycle.seen[version].status = "alerted"
              /\ cycle.seen[version].tier = "premium"
    BY <1>1 DEF Close!Mint, Close!Displaced
  <1> QED
    BY <1>8, <1>9, <1>10, <1>11, <1>12

\* No settlement reads while a cycle mints, and a new price leaves no close.
LEMMA MintInv ==
    ASSUME CloseInv, NEW moved \in BOOLEAN, Close!Mint(moved) PROVE CloseInv'
  <1>1. /\ cycle.step = "minting" /\ cycle.early /\ time # "due"
        /\ UNCHANGED <<time, result, version, tx, mentioned, missed, losses, byHand>>
    BY DEF Close!Mint, Close!histories, CloseInv, CycleTimely
  <1>2. /\ cycle' = [step |-> "minted", early |-> cycle.early, seen |-> <<>>,
                     tier |-> cycle.tier, verdict |-> cycle.verdict,
                     unsent |-> cycle.unsent]
    BY DEF Close!Mint, CloseInv, CycleTimely
  <1>3. CycleTimely' /\ CycleHolds'
    BY <1>1, <1>2 DEF CloseInv, CycleTimely, CycleHolds
  <1>4. tx["job"].kind = "none"
    BY <1>1 DEF CloseInv, TxHolds
  <1>5. TxHolds'
    BY <1>1, <1>4 DEF CloseInv, TxHolds
  <1>6. row' = [p \in Versions |-> row'[p]]
    BY DEF Close!Mint
  <1>7. ResultsHold'
    BY <1>1, <1>6, MintedRow DEF CloseInv, ResultsHold
  <1>8. Close!CloseIsOfThePrice'
    <2> SUFFICES ASSUME NEW p \in Versions \ byHand, row'[p].close # Close!NoClose
                 PROVE  row'[p].close.price = row'[p].price
      BY <1>1 DEF Close!CloseIsOfThePrice
    <2>1. row'[p].close = row[p].close /\ row'[p].price = row[p].price
      BY MintedRow
    <2> QED
      BY <2>1 DEF CloseInv, Close!CloseIsOfThePrice
  <1>9. CountsAreNumbers' /\ Close!MentionsMatchLosses'
    BY <1>1, <1>2 DEF CloseInv, CountsAreNumbers, Close!MentionsMatchLosses
  <1> QED
    BY <1>1, <1>3, <1>5, <1>7, <1>8, <1>9, MintKeepsOnePremium DEF CloseInv

\* The row of a pick after a revalidation.
LEMMA RevalidatedRow ==
    ASSUME CloseInv, Close!VerdictsCommit, NEW p \in Versions
    PROVE  /\ row'[p] = [status |-> row'[p].status, tier |-> row'[p].tier,
                         price |-> row'[p].price, close |-> row'[p].close,
                         snap |-> row'[p].snap, gaveUp |-> row'[p].gaveUp,
                         lost |-> row'[p].lost]
           /\ row'[p].status = row[p].status /\ row'[p].tier = row[p].tier
           /\ row'[p].price = row[p].price /\ row'[p].snap = row[p].snap
           /\ row'[p].close = row[p].close \/ row'[p].close.price = row[p].price
           /\ row'[p].close = row[p].close \/ time # "due"
  <1>1. cycle.step = "repricing"
    BY DEF Close!VerdictsCommit
  <1>2. row[p] = [status |-> row[p].status, tier |-> row[p].tier, price |-> row[p].price,
                  close |-> row[p].close, snap |-> row[p].snap, gaveUp |-> row[p].gaveUp,
                  lost |-> row[p].lost]
    BY DEF CloseInv, ResultsHold
  <1>3. p \in DOMAIN cycle.verdict => time # "due" /\ cycle.seen[p].price = row[p].price
    BY <1>1 DEF CloseInv, CycleTimely, CycleHolds
  <1>4. row'[p] = IF p \in DOMAIN cycle.verdict /\ cycle.verdict[p] # "skip"
                    THEN Close!Verdict(p) ELSE row[p]
    BY DEF Close!VerdictsCommit
  <1>5. CASE row'[p] = row[p]
    BY <1>2, <1>5
  <1>6. ASSUME row'[p] # row[p]
        PROVE  /\ time # "due" /\ cycle.seen[p].price = row[p].price
               /\ row'[p] = Close!Verdict(p)
    BY <1>3, <1>4, <1>6
  <1>7. CASE row'[p] # row[p] /\ cycle.verdict[p] = "giveUp"
    <2>1. row'[p] = [row[p] EXCEPT !.gaveUp = TRUE]
      BY <1>6, <1>7 DEF Close!Verdict
    <2> QED
      BY <1>2, <2>1
  <1>8. CASE row'[p] # row[p] /\ cycle.verdict[p] # "giveUp"
    <2> DEFINE lost == IF cycle.seen[p].tier = "premium"
                         THEN cycle.verdict[p] = "below" ELSE row[p].lost
    <2>1. row'[p] = [status |-> row[p].status, tier |-> row[p].tier,
                     price |-> row[p].price,
                     close |-> [by |-> "poll", price |-> cycle.seen[p].price],
                     snap |-> row[p].snap, gaveUp |-> FALSE, lost |-> lost]
      BY <1>2, <1>6, <1>8 DEF Close!Verdict
    <2> HIDE DEF lost
    <2> QED
      BY <1>6, <1>8, <2>1
  <1> QED
    BY <1>5, <1>7, <1>8

\* Counting a set of picks counts each of them once.
LEMMA Counted ==
    ASSUME NEW count \in [Versions -> Nat], NEW picks
    PROVE  /\ Close!Plus(count, picks) \in [Versions -> Nat]
           /\ \A p \in Versions :
                Close!Plus(count, picks)[p] = count[p] + (IF p \in picks THEN 1 ELSE 0)
  BY DEF Close!Plus

\* Whether its answer comes or not, the commit leaves the close of the price read, which is
\* the row's.
LEMMA VerdictsRows ==
    ASSUME CloseInv, Close!VerdictsCommit, UNCHANGED <<time, result, tx, byHand>>
    PROVE  TxHolds' /\ ResultsHold' /\ OneActivePremium' /\ Close!CloseIsOfThePrice'
  <1>1. TxHolds'
    <2>1. \A p \in Versions : row'[p].price = row[p].price /\ row'[p].status = row[p].status
      BY RevalidatedRow
    <2>2. TxHolds
      BY DEF CloseInv
    <2> QED
      BY <2>1, <2>2 DEF TxHolds
  <1>2. row' = [p \in Versions |-> row'[p]]
    BY DEF Close!VerdictsCommit
  <1>3. ResultsHold'
    <2>1. ASSUME NEW p \in Versions
          PROVE  (/\ row[p] = [status |-> row[p].status, tier |-> row[p].tier,
                               price |-> row[p].price, close |-> row[p].close,
                               snap |-> row[p].snap, gaveUp |-> row[p].gaveUp,
                               lost |-> row[p].lost]
                  /\ row[p].status = "settled" <=> p \in result
                  /\ row[p].status = "settled" /\ p \notin byHand => time = "due")'
      <3>1. /\ row[p].status = "settled" <=> p \in result
            /\ row[p].status = "settled" /\ p \notin byHand => time = "due"
        BY DEF CloseInv, ResultsHold
      <3> QED
        BY <3>1, RevalidatedRow
    <2>2. result \subseteq Versions /\ byHand \subseteq Versions
      BY DEF CloseInv, ResultsHold
    <2> QED
      BY <1>2, <2>1, <2>2 DEF ResultsHold
  <1>4. OneActivePremium'
    <2>1. \A p \in Versions : ActivePremium(p)' => ActivePremium(p)
      BY RevalidatedRow DEF ActivePremium
    <2> QED
      BY <2>1 DEF CloseInv, OneActivePremium
  <1>5. Close!CloseIsOfThePrice'
    <2> SUFFICES ASSUME NEW p \in Versions \ byHand
                 PROVE  row'[p].close # Close!NoClose => row'[p].close.price = row'[p].price
      BY DEF Close!CloseIsOfThePrice
    <2>1. row[p].close # Close!NoClose => row[p].close.price = row[p].price
      BY DEF CloseInv, Close!CloseIsOfThePrice
    <2> QED
      BY <2>1, RevalidatedRow
  <1> QED
    BY <1>1, <1>3, <1>4, <1>5

\* What crosses awaits its mention.
LEMMA RevalidationInv ==
    ASSUME CloseInv, Close!Revalidation PROVE CloseInv'
  <1> DEFINE crossed == Close!Crossed
  <1>1. /\ Close!VerdictsCommit /\ cycle.step = "repricing"
        /\ losses' = Close!Plus(losses, crossed)
        /\ UNCHANGED <<time, result, version, tx, mentioned, missed, byHand>>
    BY DEF Close!Revalidation, Close!VerdictsCommit
  <1>2. cycle' = [step |-> "mentioning", early |-> cycle.early, seen |-> <<>>,
                  tier |-> "volume", verdict |-> <<>>, unsent |-> crossed]
    BY DEF Close!Revalidation, Close!Idle
  <1> HIDE DEF crossed
  <1>3. CycleTimely' /\ CycleHolds'
    BY <1>1, <1>2 DEF CloseInv, CycleTimely, CycleHolds
  <1>4. /\ mentioned \in [Versions -> Nat] /\ missed \in [Versions -> Nat]
        /\ losses \in [Versions -> Nat] /\ cycle.unsent = {}
    BY <1>1 DEF CloseInv, CountsAreNumbers
  <1>5. CountsAreNumbers'
    BY <1>1, <1>2, <1>4, Counted DEF CountsAreNumbers
  <1>6. Close!MentionsMatchLosses'
    <2> SUFFICES ASSUME NEW p \in Versions
                 PROVE  losses'[p] = mentioned[p] + missed[p]
                                       + (IF p \in crossed THEN 1 ELSE 0)
      BY <1>1, <1>2 DEF Close!MentionsMatchLosses
    <2>1. losses[p] = mentioned[p] + missed[p]
      BY <1>4 DEF CloseInv, Close!MentionsMatchLosses
    <2> QED
      BY <1>1, <1>4, <2>1, Counted
  <1> QED
    BY <1>1, <1>3, <1>5, <1>6, VerdictsRows DEF CloseInv

\* What crossed in a commit whose answer is lost counts as missed at once.
LEMMA RevalidationUnheardInv ==
    ASSUME CloseInv, Close!RevalidationUnheard PROVE CloseInv'
  <1> DEFINE crossed == Close!Crossed
  <1>1. /\ Close!VerdictsCommit /\ cycle.step = "repricing"
        /\ losses' = Close!Plus(losses, crossed) /\ missed' = Close!Plus(missed, crossed)
        /\ UNCHANGED <<time, result, version, tx, mentioned, byHand>>
    BY DEF Close!RevalidationUnheard, Close!VerdictsCommit
  <1>2. cycle' = [step |-> "idle", early |-> FALSE, seen |-> <<>>, tier |-> "volume",
                  verdict |-> <<>>, unsent |-> {}]
    BY DEF Close!RevalidationUnheard, Close!Idle
  <1> HIDE DEF crossed
  <1>3. CycleTimely' /\ CycleHolds'
    BY <1>1, <1>2 DEF CloseInv, CycleTimely, CycleHolds
  <1>4. /\ mentioned \in [Versions -> Nat] /\ missed \in [Versions -> Nat]
        /\ losses \in [Versions -> Nat] /\ cycle.unsent = {}
    BY <1>1 DEF CloseInv, CountsAreNumbers
  <1>5. CountsAreNumbers'
    BY <1>1, <1>2, <1>4, Counted DEF CountsAreNumbers
  <1>6. Close!MentionsMatchLosses'
    <2> SUFFICES ASSUME NEW p \in Versions
                 PROVE  losses'[p] = mentioned[p] + missed'[p]
                                       + (IF p \in cycle'.unsent THEN 1 ELSE 0)
      BY <1>1, <1>2 DEF Close!MentionsMatchLosses
    <2>1. losses[p] = mentioned[p] + missed[p]
      BY <1>4 DEF CloseInv, Close!MentionsMatchLosses
    <2>2. /\ losses'[p] = losses[p] + (IF p \in crossed THEN 1 ELSE 0)
          /\ missed'[p] = missed[p] + (IF p \in crossed THEN 1 ELSE 0)
      BY <1>1, <1>4, Counted
    <2>3. p \notin cycle'.unsent
      BY <1>2
    <2>4. mentioned[p] \in Nat /\ missed[p] \in Nat /\ losses[p] \in Nat
      BY <1>4
    <2> QED
      BY <2>1, <2>2, <2>3, <2>4
  <1> QED
    BY <1>1, <1>3, <1>5, <1>6, VerdictsRows DEF CloseInv

\* A mention goes out, or is given up on.
LEMMA MentionInv ==
    ASSUME CloseInv, NEW p \in Versions, Close!Mention(p) PROVE CloseInv'
  <1>1. /\ p \in cycle.unsent /\ losses' = losses
        /\ \/ mentioned' = Close!Plus(mentioned, {p}) /\ missed' = missed
           \/ missed' = Close!Plus(missed, {p}) /\ mentioned' = mentioned
        /\ UNCHANGED <<time, row, result, version, tx, byHand>>
    BY DEF Close!Mention
  <1>2. cycle' = [step |-> cycle.step, early |-> cycle.early, seen |-> cycle.seen,
                  tier |-> cycle.tier, verdict |-> cycle.verdict,
                  unsent |-> cycle.unsent \ {p}]
    BY DEF Close!Mention, CloseInv, CycleTimely
  <1>3. CycleTimely' /\ CycleHolds'
    BY <1>1, <1>2 DEF CloseInv, CycleTimely, CycleHolds
  <1>4. ResultsHold' /\ OneActivePremium' /\ Close!CloseIsOfThePrice' /\ TxHolds'
    BY <1>1, RowsStand, TransactionsStand
  <1>5. /\ mentioned \in [Versions -> Nat] /\ missed \in [Versions -> Nat]
        /\ losses \in [Versions -> Nat] /\ cycle.step = "mentioning"
    BY <1>1 DEF CloseInv, CountsAreNumbers
  <1>6. CountsAreNumbers'
    BY <1>1, <1>2, <1>5, Counted DEF CountsAreNumbers
  <1>7. Close!MentionsMatchLosses'
    <2> SUFFICES ASSUME NEW q \in Versions
                 PROVE  losses[q] = mentioned'[q] + missed'[q]
                                      + (IF q \in cycle.unsent \ {p} THEN 1 ELSE 0)
      BY <1>1, <1>2 DEF Close!MentionsMatchLosses
    <2>1. losses[q] = mentioned[q] + missed[q] + (IF q \in cycle.unsent THEN 1 ELSE 0)
      BY DEF CloseInv, Close!MentionsMatchLosses
    <2>2. \/ /\ mentioned'[q] = mentioned[q] + (IF q = p THEN 1 ELSE 0)
             /\ missed'[q] = missed[q]
          \/ /\ missed'[q] = missed[q] + (IF q = p THEN 1 ELSE 0)
             /\ mentioned'[q] = mentioned[q]
      BY <1>1, <1>5, Counted
    <2> QED
      BY <1>1, <1>5, <2>1, <2>2
  <1> QED
    BY <1>1, <1>3, <1>4, <1>6, <1>7 DEF CloseInv

\* A restart drops the cycle and the transactions; what was not sent is missed.
LEMMA RestartInv ==
    ASSUME CloseInv, NEW v \in Versions, Close!Restart(v) PROVE CloseInv'
  <1>1. /\ cycle' = Close!Idle /\ version' \in Versions
        /\ missed' = Close!Plus(missed, cycle.unsent)
        /\ tx' = [w \in Close!Settlers |-> Close!NoTx]
        /\ UNCHANGED <<time, row, result, mentioned, losses, byHand>>
    BY DEF Close!Restart
  <1>2. CycleTimely' /\ CycleHolds'
    BY <1>1 DEF CloseInv, CycleTimely, CycleHolds, Close!Idle
  <1>3. TxHolds'
    BY <1>1 DEF TxHolds, Close!NoTx, Close!Settlers
  <1>4. ResultsHold' /\ OneActivePremium' /\ Close!CloseIsOfThePrice'
    BY <1>1, RowsStand
  <1>5. CountsAreNumbers' /\ Close!MentionsMatchLosses'
    <2>1. /\ mentioned \in [Versions -> Nat] /\ missed \in [Versions -> Nat]
          /\ losses \in [Versions -> Nat] /\ cycle'.unsent = {}
      BY <1>1 DEF CloseInv, CountsAreNumbers, Close!Idle
    <2> QED
      BY <1>1, <2>1, Counted DEF CloseInv, CountsAreNumbers, Close!MentionsMatchLosses
  <1> QED
    BY <1>1, <1>2, <1>3, <1>4, <1>5 DEF CloseInv

\* A transaction of the job reads open picks once settlement is due.
LEMMA JobReadsInv ==
    ASSUME CloseInv, Close!JobReads PROVE CloseInv'
  <1>1. /\ time = "due" /\ tx' = [tx EXCEPT !["job"] = [kind |-> "auto", seen |-> Close!Open]]
        /\ UNCHANGED <<time, row, result, version, cycle, mentioned, missed, losses, byHand>>
    BY DEF Close!JobReads, Close!Reads, Close!histories
  <1>2. \A p \in DOMAIN Close!Open :
           p \in Versions /\ row[p].status = "alerted" /\ Close!Open[p] = row[p]
    BY DEF Close!Open
  <1>3. /\ tx'["job"] = [kind |-> "auto", seen |-> Close!Open]
        /\ tx'["request"] = tx["request"]
        /\ tx' = [w \in Close!Settlers |-> tx'[w]]
    BY <1>1 DEF CloseInv, TxHolds, Close!Settlers
  <1> HIDE DEF Close!Open
  <1>4. TxHolds'
    BY <1>1, <1>2, <1>3 DEF CloseInv, TxHolds, Close!Settlers
  <1>5. CycleTimely' /\ CountsAreNumbers' /\ Close!MentionsMatchLosses' /\ CycleHolds'
    BY <1>1, CycleStands DEF CloseInv, CycleHolds
  <1> QED
    BY <1>1, <1>4, <1>5, RowsStand DEF CloseInv

\* What a request reads counts as settled by hand from then on.
LEMMA RequestReadsInv ==
    ASSUME CloseInv, Close!RequestReads PROVE CloseInv'
  <1>1. PICK kind, read :
           /\ tx' = [tx EXCEPT !["request"] = [kind |-> kind, seen |-> read]]
           /\ byHand' = byHand \cup DOMAIN read /\ DOMAIN read \subseteq Versions
           /\ UNCHANGED <<time, row, result, version, cycle, mentioned, missed, losses>>
    <2>1. DOMAIN Close!Open \subseteq Versions
      BY DEF Close!Open
    <2>2. CASE Close!Reads("request", "event", Close!Open)
                 /\ byHand' = byHand \cup DOMAIN Close!Open
      BY <2>1, <2>2 DEF Close!Reads, Close!histories
    <2>3. ASSUME NEW p \in Versions,
                 Close!Reads("request", "record", [q \in {p} |-> row[q]]),
                 byHand' = byHand \cup {p}
          PROVE  \E kind, read :
                   /\ tx' = [tx EXCEPT !["request"] = [kind |-> kind, seen |-> read]]
                   /\ byHand' = byHand \cup DOMAIN read /\ DOMAIN read \subseteq Versions
                   /\ UNCHANGED <<time, row, result, version, cycle, mentioned, missed,
                                  losses>>
      <3> DEFINE one == [q \in {p} |-> row[q]]
      <3>1. DOMAIN one = {p}
        OBVIOUS
      <3> HIDE DEF one
      <3>2. Close!Reads("request", "record", one)
        BY <2>3 DEF one
      <3> QED
        BY <2>3, <3>1, <3>2 DEF Close!Reads, Close!histories
    <2> QED
      BY <2>2, <2>3 DEF Close!RequestReads
  <1>2. /\ tx'["request"] = [kind |-> kind, seen |-> read] /\ tx'["job"] = tx["job"]
        /\ tx' = [w \in Close!Settlers |-> tx'[w]]
    BY <1>1 DEF CloseInv, TxHolds, Close!Settlers
  <1>3. TxHolds'
    BY <1>1, <1>2 DEF CloseInv, TxHolds, Close!Settlers
  <1>4. CycleTimely' /\ CountsAreNumbers' /\ Close!MentionsMatchLosses'
    BY <1>1, CycleStands
  <1>5. CycleHolds'
    BY <1>1 DEF CloseInv, CycleHolds
  <1>6. ResultsHold'
    BY <1>1 DEF CloseInv, ResultsHold
  <1>7. OneActivePremium' /\ Close!CloseIsOfThePrice'
    BY <1>1 DEF CloseInv, OneActivePremium, ActivePremium, Close!CloseIsOfThePrice
  <1> QED
    BY <1>1, <1>3, <1>4, <1>5, <1>6, <1>7 DEF CloseInv

\* A transaction that settles the picks settled, all of which it has read, and writes at
\* most their closes.
SettlesRows(w, graded) ==
    /\ graded \subseteq DOMAIN tx[w].seen \cap Versions
    /\ row' = [p \in Versions |-> row'[p]]
    /\ \A p \in Versions :
         /\ row'[p] = [status |-> row'[p].status, tier |-> row'[p].tier,
                       price |-> row'[p].price, close |-> row'[p].close,
                       snap |-> row'[p].snap, gaveUp |-> row'[p].gaveUp,
                       lost |-> row'[p].lost]
         /\ row'[p].status = (IF p \in graded THEN "settled" ELSE row[p].status)
         /\ row'[p].tier = row[p].tier /\ row'[p].price = row[p].price
         /\ \/ row'[p].close = row[p].close /\ row'[p].snap = row[p].snap
            \/ p \in DOMAIN tx[w].seen /\ row'[p].close.price = tx[w].seen[p].price
    /\ result' = result \cup graded
    /\ UNCHANGED <<time, version, cycle, mentioned, missed, losses, byHand>>

\* What the job has read is open and at the price of its row, unless it was settled by hand.
LEMMA SettlesRowsInv ==
    ASSUME CloseInv, NEW w \in Close!Settlers, tx[w].kind # "none", NEW graded,
           SettlesRows(w, graded), TxHolds'
    PROVE  CloseInv'
  <1> USE DEF SettlesRows
  <1>1. ASSUME NEW p \in Versions \ byHand, p \in DOMAIN tx[w].seen
        PROVE  time = "due" /\ tx[w].seen[p].price = row[p].price
               /\ row[p].status = "alerted"
    BY <1>1 DEF CloseInv, TxHolds, Close!Settlers
  <1>2. CycleTimely' /\ CountsAreNumbers' /\ Close!MentionsMatchLosses'
    BY CycleStands
  <1>3. CycleHolds'
    <2>1. CASE cycle.step = "minting"
      <3>1. time # "due" /\ version \in Versions
        BY <2>1 DEF CloseInv, CycleTimely
      <3> QED
        BY <1>1, <2>1, <3>1 DEF CloseInv, CycleHolds
    <2>2. CASE cycle.step # "minting"
      BY <2>2 DEF CloseInv, CycleHolds
    <2> QED
      BY <2>1, <2>2
  <1>4. ResultsHold'
    BY <1>1 DEF CloseInv, ResultsHold
  <1>5. OneActivePremium'
    <2>1. \A p \in Versions \ byHand : ActivePremium(p)' => ActivePremium(p)
      BY <1>1 DEF ActivePremium
    <2> QED
      BY <2>1 DEF CloseInv, OneActivePremium
  <1>6. Close!CloseIsOfThePrice'
    BY <1>1 DEF CloseInv, Close!CloseIsOfThePrice
  <1> QED
    BY <1>2, <1>3, <1>4, <1>5, <1>6 DEF CloseInv

\* The row that finalize_closing_from_snapshots leaves, of a transaction's read.
LEMMA ClosedRow ==
    ASSUME CloseInv, NEW w, NEW p \in Versions
    PROVE  Close!Closed(w, p) =
             [status |-> row[p].status, tier |-> row[p].tier, price |-> row[p].price,
              close |-> [by |-> "snapshot", price |-> tx[w].seen[p].price],
              snap |-> TRUE, gaveUp |-> FALSE, lost |-> row[p].lost]
  <1> DEFINE old == row[p]
             close == [by |-> "snapshot", price |-> tx[w].seen[p].price]
             new == [old EXCEPT !.close = close, !.snap = TRUE, !.gaveUp = FALSE]
             Columns == {"status", "tier", "price", "close", "snap", "gaveUp", "lost"}
  <1>1. DOMAIN old = Columns
    BY DEF CloseInv, ResultsHold
  <1> HIDE DEF old, close
  <1>2. /\ new = [c \in Columns |-> new[c]]
        /\ new.status = old.status /\ new.tier = old.tier /\ new.price = old.price
        /\ new.close = close /\ new.snap = TRUE /\ new.gaveUp = FALSE /\ new.lost = old.lost
    BY <1>1
  <1> HIDE DEF new
  <1>3. new = [status |-> old.status, tier |-> old.tier, price |-> old.price,
               close |-> close, snap |-> TRUE, gaveUp |-> FALSE, lost |-> old.lost]
    BY <1>2
  <1> QED
    BY <1>3 DEF Close!Closed, old, new, close

\* The job, or a request, settles picks and takes the closes the snapshots cover.
LEMMA SettlesInv ==
    ASSUME CloseInv, NEW w \in Close!Settlers, NEW graded \in SUBSET Versions,
           NEW covered \in SUBSET Versions, Close!Settles(w, graded, covered)
    PROVE  CloseInv'
  <1>1. /\ tx[w].kind # "none" /\ graded \subseteq DOMAIN tx[w].seen \ result
        /\ covered \subseteq graded
        /\ result' = result \cup graded /\ tx' = [tx EXCEPT ![w] = Close!NoTx]
        /\ UNCHANGED <<time, version, cycle, mentioned, missed, losses, byHand>>
    BY DEF Close!Settles, Close!histories
  <1>2. SettlesRows(w, graded)
    <2>1. row' = [p \in Versions |-> row'[p]]
      BY DEF Close!Settles
    <2>2. ASSUME NEW p \in Versions
          PROVE  /\ row'[p] = [status |-> row'[p].status, tier |-> row'[p].tier,
                               price |-> row'[p].price, close |-> row'[p].close,
                               snap |-> row'[p].snap, gaveUp |-> row'[p].gaveUp,
                               lost |-> row'[p].lost]
                 /\ row'[p].status = (IF p \in graded THEN "settled" ELSE row[p].status)
                 /\ row'[p].tier = row[p].tier /\ row'[p].price = row[p].price
                 /\ \/ row'[p].close = row[p].close /\ row'[p].snap = row[p].snap
                    \/ /\ p \in DOMAIN tx[w].seen
                       /\ row'[p].close.price = tx[w].seen[p].price
      <3>1. row[p] = [status |-> row[p].status, tier |-> row[p].tier,
                      price |-> row[p].price, close |-> row[p].close,
                      snap |-> row[p].snap, gaveUp |-> row[p].gaveUp,
                      lost |-> row[p].lost]
        BY DEF CloseInv, ResultsHold
      <3>2. CASE p \in covered
        <4>1. row'[p] = [Close!Closed(w, p) EXCEPT !.status = "settled"]
          BY <1>1, <3>2 DEF Close!Settles
        <4> QED
          BY <1>1, <3>2, <4>1, ClosedRow
      <3>3. CASE p \in graded \ covered
        <4>1. row'[p] = [row[p] EXCEPT !.status = "settled"]
          BY <3>3 DEF Close!Settles
        <4> QED
          BY <3>1, <3>3, <4>1
      <3>4. CASE p \notin graded
        <4>1. row'[p] = row[p]
          BY <1>1, <3>4 DEF Close!Settles
        <4> QED
          BY <3>1, <3>4, <4>1
      <3> QED
        BY <3>2, <3>3, <3>4
    <2> QED
      BY <1>1, <2>1, <2>2 DEF SettlesRows
  <1>3. TxHolds'
    <2>1. tx' = [v \in Close!Settlers |-> tx'[v]]
      BY <1>1 DEF CloseInv, TxHolds
    <2>2. tx'[w] = [kind |-> "none", seen |-> <<>>]
          /\ \A v \in Close!Settlers : v # w => tx'[v] = tx[v]
      BY <1>1 DEF CloseInv, TxHolds, Close!NoTx
    <2>3. \A p \in Versions : row'[p].price = row[p].price
      BY <1>2 DEF SettlesRows
    <2>4. CASE w = "job"
      BY <1>1, <2>1, <2>2, <2>4 DEF CloseInv, TxHolds, Close!Settlers
    <2>5. CASE w = "request"
      <3>1. graded \subseteq byHand
        BY <1>1, <2>5 DEF CloseInv, TxHolds
      <3>2. \A p \in Versions \ byHand : row'[p].status = row[p].status
        BY <1>2, <3>1 DEF SettlesRows
      <3> QED
        BY <1>1, <2>1, <2>2, <2>3, <2>5, <3>2 DEF CloseInv, TxHolds, Close!Settlers
    <2> QED
      BY <2>4, <2>5 DEF Close!Settlers
  <1> QED
    BY <1>1, <1>2, <1>3, SettlesRowsInv

\* What a request settles and what it finalizes are among the picks it has read.
LEMMA RequestWritesInv ==
    ASSUME CloseInv, tx["request"].kind # "none",
           NEW graded \in SUBSET DOMAIN tx["request"].seen,
           NEW covered \in SUBSET DOMAIN tx["request"].seen,
           graded = {} \/ covered = {}, result' = result \cup graded,
           row' = [p \in Versions |->
                IF p \in covered THEN Close!Closed("request", p)
                ELSE IF p \in graded THEN [row[p] EXCEPT !.status = "settled"] ELSE row[p]],
           \/ tx' = [tx EXCEPT !["request"].kind = "finalize"]
           \/ tx' = [tx EXCEPT !["request"] = Close!NoTx],
           UNCHANGED <<time, version, cycle, mentioned, missed, losses, byHand>>
    PROVE  CloseInv'
  <1>2. DOMAIN tx["request"].seen \subseteq byHand /\ byHand \subseteq Versions
    BY DEF CloseInv, TxHolds, ResultsHold
  <1>3. SettlesRows("request", graded)
    <2>1. row' = [p \in Versions |-> row'[p]]
      OBVIOUS
    <2>2. ASSUME NEW p \in Versions
          PROVE  /\ row'[p] = [status |-> row'[p].status, tier |-> row'[p].tier,
                               price |-> row'[p].price, close |-> row'[p].close,
                               snap |-> row'[p].snap, gaveUp |-> row'[p].gaveUp,
                               lost |-> row'[p].lost]
                 /\ row'[p].status = (IF p \in graded THEN "settled" ELSE row[p].status)
                 /\ row'[p].tier = row[p].tier /\ row'[p].price = row[p].price
                 /\ \/ row'[p].close = row[p].close /\ row'[p].snap = row[p].snap
                    \/ /\ p \in DOMAIN tx["request"].seen
                       /\ row'[p].close.price = tx["request"].seen[p].price
      <3>1. row[p] = [status |-> row[p].status, tier |-> row[p].tier,
                      price |-> row[p].price, close |-> row[p].close,
                      snap |-> row[p].snap, gaveUp |-> row[p].gaveUp,
                      lost |-> row[p].lost]
        BY DEF CloseInv, ResultsHold
      <3>2. CASE p \in covered
        <4>1. row'[p] = Close!Closed("request", p) /\ p \notin graded
          BY <3>2
        <4> QED
          BY <3>2, <4>1, ClosedRow
      <3>3. CASE p \in graded \ covered
        <4>1. row'[p] = [row[p] EXCEPT !.status = "settled"]
          BY <3>3
        <4> QED
          BY <3>1, <3>3, <4>1
      <3>4. CASE p \notin graded /\ p \notin covered
        <4>1. row'[p] = row[p]
          BY <3>4
        <4> QED
          BY <3>1, <3>4, <4>1
      <3> QED
        BY <3>2, <3>3, <3>4
    <2> QED
      BY <1>2, <2>1, <2>2 DEF SettlesRows
  <1>4. TxHolds'
    <2>1. tx' = [v \in Close!Settlers |-> tx'[v]]
      BY DEF CloseInv, TxHolds
    <2>2. /\ tx'["request"] = [kind |-> tx'["request"].kind, seen |-> tx'["request"].seen]
          /\ tx'["request"].kind # "none" => tx'["request"].seen = tx["request"].seen
          /\ tx'["job"] = tx["job"]
      BY DEF CloseInv, TxHolds, Close!NoTx, Close!Settlers
    <2>3. \A p \in Versions : row'[p].price = row[p].price
      BY <1>3 DEF SettlesRows
    <2>4. \A p \in Versions \ byHand : row'[p].status = row[p].status
      BY <1>2, <1>3 DEF SettlesRows
    <2> QED
      BY <2>1, <2>2, <2>3, <2>4 DEF CloseInv, TxHolds, Close!Settlers
  <1> QED
    BY <1>3, <1>4, SettlesRowsInv DEF Close!Settlers

\* record_result commits the result, then the close.
LEMMA RecordsInv ==
    ASSUME CloseInv, Close!Records PROVE CloseInv'
  <1> DEFINE graded == DOMAIN tx["request"].seen
             covered == {}
  <1>1. row' = [p \in Versions |->
                IF p \in covered THEN Close!Closed("request", p)
                ELSE IF p \in graded THEN [row[p] EXCEPT !.status = "settled"] ELSE row[p]]
    BY DEF Close!Records
  <1>2. /\ tx["request"].kind # "none" /\ result' = result \cup graded
        /\ tx' = [tx EXCEPT !["request"].kind = "finalize"]
        /\ UNCHANGED <<time, version, cycle, mentioned, missed, losses, byHand>>
    BY DEF Close!Records, Close!histories
  <1>3. /\ graded \in SUBSET DOMAIN tx["request"].seen
        /\ covered \in SUBSET DOMAIN tx["request"].seen /\ covered = {}
    OBVIOUS
  <1> HIDE DEF graded, covered
  <1> QED
    BY <1>1, <1>2, <1>3, RequestWritesInv

LEMMA FinalizesInv ==
    ASSUME CloseInv, NEW covered \in SUBSET Versions, Close!Finalizes(covered)
    PROVE  CloseInv'
  <1> DEFINE graded == {}
  <1>1. row' = [p \in Versions |->
                IF p \in covered THEN Close!Closed("request", p)
                ELSE IF p \in graded THEN [row[p] EXCEPT !.status = "settled"] ELSE row[p]]
    BY DEF Close!Finalizes
  <1>2. /\ tx["request"].kind # "none" /\ result' = result \cup graded
        /\ tx' = [tx EXCEPT !["request"] = Close!NoTx]
        /\ UNCHANGED <<time, version, cycle, mentioned, missed, losses, byHand>>
    BY DEF Close!Finalizes, Close!histories
  <1>3. /\ graded \in SUBSET DOMAIN tx["request"].seen /\ graded = {}
        /\ covered \in SUBSET DOMAIN tx["request"].seen
    BY DEF Close!Finalizes
  <1> HIDE DEF graded
  <1> QED
    BY <1>1, <1>2, <1>3, RequestWritesInv

LEMMA CloseNextInv ==
    ASSUME CloseInv, Close!CloseNext PROVE CloseInv'
  BY TimePassesInv, CycleMovesInv, MintInv, RevalidateInv, RevalidationInv, RevalidationUnheardInv,
     MentionInv, RestartInv, JobReadsInv, RequestReadsInv, SettlesInv, RecordsInv, FinalizesInv
     DEF Close!CloseNext

LEMMA CloseStutters == CloseInv /\ UNCHANGED closeVars => CloseInv'
  <1> SUFFICES ASSUME CloseInv, UNCHANGED closeVars PROVE CloseInv'
    OBVIOUS
  <1> USE DEF closeVars
  <1>1. CycleTimely' /\ CountsAreNumbers' /\ Close!MentionsMatchLosses'
    BY CycleStands
  <1>2. ResultsHold' /\ OneActivePremium' /\ Close!CloseIsOfThePrice' /\ TxHolds'
    BY RowsStand, TransactionsStand
  <1> QED
    BY <1>1, <1>2 DEF CloseInv, CycleHolds

LEMMA CloseInvariance == Spec => []CloseInv
  <1>1. Init => CloseInv
    BY CloseInitInv DEF Init
  <1>2. CloseInv /\ [Next]_vars => CloseInv'
    BY CloseSteps, CloseNextInv, CloseStutters
  <1> QED
    BY <1>1, <1>2, PTL DEF Spec

\* revalidate_open_picks and the mentions after its commit: each committed loss of value is
\* mentioned once or counted as missed, for any number of picks, commits that fail and
\* restarts.
THEOREM Mentions_MatchLosses == Spec => []MentionsMatchLosses
  <1>1. CloseInv => MentionsMatchLosses
    BY DEF CloseInv, MentionsMatchLosses
  <1> QED
    BY <1>1, CloseInvariance, PTL

\* persist_pick, revalidate_open_picks, finalize_closing_from_snapshots: the close on a row
\* is the close of the price the row holds, whoever flushes last.
THEOREM Close_IsOfThePrice == Spec => []CloseIsOfThePrice
  <1>1. CloseInv => CloseIsOfThePrice
    BY DEF CloseInv, CloseIsOfThePrice
  <1> QED
    BY <1>1, CloseInvariance, PTL

\* _supersede_older_versions and settlement: however the strategy's version moves on, at most
\* one of an opportunity's picks is settled as premium.
THEOREM One_PremiumCounted == Spec => []OnePremiumCounted
  <1>1. CloseInv => OnePremiumCounted
    <2> SUFFICES ASSUME CloseInv, NEW p \in result \ byHand, NEW q \in result \ byHand,
                        row[p].tier = "premium", row[q].tier = "premium"
                 PROVE  p = q
      BY DEF OnePremiumCounted, Close!OnePremiumCounted
    <2>1. p \in Versions \ byHand /\ q \in Versions \ byHand
          /\ row[p].status = "settled" /\ row[q].status = "settled"
      BY DEF CloseInv, ResultsHold
    <2> QED
      BY <2>1 DEF CloseInv, OneActivePremium, ActivePremium
  <1> QED
    BY <1>1, CloseInvariance, PTL

\* Each step leaves the close of a pick alone that was settled from the snapshots.
LEMMA FinalCloseStep ==
    ASSUME CloseInv, Close!CloseNext, NEW p \in Versions, p \notin byHand',
           row[p].snap, row[p].status = "settled"
    PROVE  row'[p].close = row[p].close /\ row'[p].snap
  <1>1. byHand \subseteq byHand'
    BY DEF Close!CloseNext, Close!TimePasses, Close!BeginCycle, Close!NothingDetected,
           Close!Detect, Close!Mint, Close!Revalidate, Close!Revalidation,
           Close!RevalidationUnheard, Close!RevalidationFails, Close!EndCycle, Close!Mention, Close!Restart,
           Close!JobReads, Close!RequestReads, Close!Records, Close!Settles, Close!Finalizes
  <1>2. p \notin byHand /\ time = "due" /\ p \in result
    BY <1>1 DEF CloseInv, ResultsHold
  <1>3. CASE \E moved \in BOOLEAN : Close!Mint(moved)
    <2>1. time # "due"
      BY <1>3 DEF Close!Mint, CloseInv, CycleTimely
    <2> QED
      BY <1>2, <2>1
  <1>4. CASE Close!Revalidation \/ Close!RevalidationUnheard
    <2>1. row'[p].close = row[p].close /\ row'[p].snap = row[p].snap
      BY <1>2, <1>4, RevalidatedRow DEF Close!Revalidation, Close!RevalidationUnheard
    <2> QED
      BY <2>1
  <1>5. ASSUME NEW w \in Close!Settlers, NEW graded \in SUBSET Versions,
               NEW covered \in SUBSET Versions, Close!Settles(w, graded, covered)
        PROVE  row'[p].close = row[p].close /\ row'[p].snap
    <2>1. p \notin graded /\ p \notin covered
      BY <1>2, <1>5 DEF Close!Settles
    <2> QED
      BY <1>5, <2>1 DEF Close!Settles
  <1>6. CASE Close!Records \/ \E covered \in SUBSET Versions : Close!Finalizes(covered)
    <2>1. p \notin DOMAIN tx["request"].seen
      BY <1>2, <1>6 DEF CloseInv, TxHolds, Close!Records, Close!Finalizes
    <2> QED
      BY <1>6, <2>1 DEF Close!Records, Close!Finalizes
  <1>7. CASE row' = row
    BY <1>7
  <1> QED
    BY <1>3, <1>4, <1>5, <1>6, <1>7
       DEF Close!CloseNext, Close!TimePasses, Close!BeginCycle, Close!NothingDetected,
           Close!Detect, Close!Revalidate, Close!RevalidationFails, Close!EndCycle,
           Close!Mention, Close!Restart, Close!JobReads, Close!RequestReads, Close!Reads

\* finalize_closing_from_snapshots: no later cycle, job or restart touches the close a pick
\* was settled with; only a request may.
THEOREM Final_CloseStands == Spec => FinalCloseStands
  <1> DEFINE Stands == \A p \in Versions \ byHand' :
                          row[p].snap /\ row[p].status = "settled" =>
                             row'[p].close = row[p].close /\ row'[p].snap
  <1>1. CloseInv /\ [Next]_vars => [Stands]_Close!closeVars
    <2> SUFFICES ASSUME CloseInv, [Next]_vars PROVE [Stands]_Close!closeVars
      OBVIOUS
    <2>1. CASE Close!CloseNext
      BY <2>1, FinalCloseStep
    <2>2. CASE UNCHANGED closeVars
      BY <2>2 DEF closeVars, Close!closeVars
    <2> QED
      BY <2>1, <2>2, CloseSteps
  <1> QED
    BY <1>1, CloseInvariance, PTL DEF Spec, FinalCloseStands, Close!FinalCloseStands

----------------------------------------------------------------------------
(* CloseEvidence: a close that is counted proves something, and all who    *)
(* judge it agree.                                                         *)

\* Only a premium row is re-priced, and until then one price is held; a snapshot close is
\* there and belongs to a settled pick; the verdict stamped beside a close is the verdict
\* on the row as it stands.
EvidenceInv ==
    /\ Evidence!EvidenceTypeOK
    /\ bet.repriced => bet.staked
    /\ bet.status # "none" /\ ~bet.repriced
         => priced = {[at |-> bet.created, anchor |-> bet.anchor]}
    /\ bet.snap => bet.status = "settled" /\ bet.close # <<>>
    /\ bet.close # <<>> =>
         /\ Evidence!Close.independent
              <=> Evidence!Independent(Evidence!Close.anchor, Evidence!Close.at,
                                       Evidence!Close.fair)
         /\ Evidence!Close.reason = Evidence!Reason(Evidence!Close.anchor, Evidence!Close.at,
                                                    Evidence!Close.fair, bet.snap)

LEMMA EvidenceNumbers ==
    /\ KickoffAt \in Nat /\ CloseGap \in Nat /\ Evidence!Never = -1
    /\ \A at \in Evidence!Instants : at \in Nat
  BY PlatformAssumption DEF Evidence!EvidenceAssumption, Evidence!Never, Evidence!Instants

\* A group of sources with rows has a newest row.
LEMMA NewestRow ==
    ASSUME Evidence!EvidenceTypeOK, NEW group, group \subseteq Evidence!Seen(Evidence!Sources),
           NEW anchor \in group
    PROVE  Evidence!CaptureTime(anchor, group) \in Evidence!Instants
  <1>1. \A s \in group : sighted[s] \in Evidence!Instants /\ s \in Evidence!Sources
    BY DEF Evidence!EvidenceTypeOK, Evidence!Seen, Evidence!Never, Evidence!Sources
  <1>2. Evidence!Sources = {"pinnacle", "exchange", "consensus"}
    BY DEF Evidence!Sources, Evidence!Archived, Evidence!Scraped
  <1>3. \E at \in { sighted[s] : s \in group } : \A s \in group : at >= sighted[s]
    <2>1. \A s \in group : sighted[s] \in Nat
      BY <1>1, EvidenceNumbers
    <2>2. \A s, t \in group : sighted[s] >= sighted[t] \/ sighted[t] >= sighted[s]
      BY <2>1
    <2>3. PICK m \in group : "pinnacle" \in group => sighted[m] >= sighted["pinnacle"]
      BY <2>1
    <2>4. PICK n \in group : /\ "pinnacle" \in group => sighted[n] >= sighted["pinnacle"]
                             /\ "exchange" \in group => sighted[n] >= sighted["exchange"]
      BY <2>1, <2>2, <2>3
    <2>5. PICK o \in group : /\ "pinnacle" \in group => sighted[o] >= sighted["pinnacle"]
                             /\ "exchange" \in group => sighted[o] >= sighted["exchange"]
                             /\ "consensus" \in group => sighted[o] >= sighted["consensus"]
      BY <2>1, <2>2, <2>4
    <2>6. \A s \in group : sighted[o] >= sighted[s]
      BY <1>1, <1>2, <2>5
    <2> QED
      BY <2>6
  <1>4. (CHOOSE at \in { sighted[s] : s \in group } : \A s \in group : at >= sighted[s])
          \in { sighted[s] : s \in group }
    BY <1>3
  <1> QED
    BY <1>1, <1>4 DEF Evidence!CaptureTime

\* A verdict is yes or no, its reason one of those the code lists.
LEMMA VerdictTypes ==
    ASSUME NEW anchor, NEW at, NEW fair, NEW isSnapshot
    PROVE  /\ Evidence!Independent(anchor, at, fair) \in BOOLEAN
           /\ Evidence!Reason(anchor, at, fair, isSnapshot) \in Evidence!Reasons
  <1>1. Evidence!Independent(anchor, at, fair) \in BOOLEAN
    BY DEF Evidence!Independent
  <1>2. Evidence!Reason(anchor, at, fair, isSnapshot) \in Evidence!Reasons
    BY DEF Evidence!Reason, Evidence!Reasons
  <1> QED
    BY <1>1, <1>2

\* What the writers stamp: an anchor with a row, the time of it, and the verdict on both.
LEMMA StampedClose ==
    ASSUME Evidence!EvidenceTypeOK, NEW rows \in SUBSET Evidence!Seen(Evidence!Sources),
           NEW isSnapshot \in BOOLEAN, NEW close \in Evidence!Stamped(rows, isSnapshot)
    PROVE  \E a \in Evidence!Sources, at \in Evidence!Instants, fair \in Evidence!Fairs :
             close = <<[anchor |-> a, at |-> at, fair |-> fair,
                        independent |-> Evidence!Independent(a, at, fair),
                        reason |-> Evidence!Reason(a, at, fair, isSnapshot)]>>
  <1>0. PICK c \in UNION { { <<a, Evidence!CaptureTime(a, group)>> : a \in group } :
                              group \in SUBSET rows }, fair \in Evidence!Fairs :
           close = <<[anchor |-> c[1], at |-> c[2], fair |-> fair,
                      independent |-> Evidence!Independent(c[1], c[2], fair),
                      reason |-> Evidence!Reason(c[1], c[2], fair, isSnapshot)]>>
    BY DEF Evidence!Stamped
  <1>1. PICK group \in SUBSET rows : \E a \in group : c = <<a, Evidence!CaptureTime(a, group)>>
    OBVIOUS
  <1>2. PICK a \in group : c = <<a, Evidence!CaptureTime(a, group)>>
    BY <1>1
  <1>3. Evidence!CaptureTime(a, group) \in Evidence!Instants
    BY NewestRow
  <1>4. a \in Evidence!Sources
    BY DEF Evidence!Seen
  <1> QED
    BY <1>0, <1>2, <1>3, <1>4

LEMMA StampedIsClose ==
    ASSUME Evidence!EvidenceTypeOK, NEW rows \in SUBSET Evidence!Seen(Evidence!Sources),
           NEW isSnapshot \in BOOLEAN, NEW close \in Evidence!Stamped(rows, isSnapshot)
    PROVE  close \in [1 .. 1 -> Evidence!Closes]
  <1>1. PICK a \in Evidence!Sources, at \in Evidence!Instants, fair \in Evidence!Fairs :
           close = <<[anchor |-> a, at |-> at, fair |-> fair,
                      independent |-> Evidence!Independent(a, at, fair),
                      reason |-> Evidence!Reason(a, at, fair, isSnapshot)]>>
    BY StampedClose
  <1> DEFINE c == [anchor |-> a, at |-> at, fair |-> fair,
                   independent |-> Evidence!Independent(a, at, fair),
                   reason |-> Evidence!Reason(a, at, fair, isSnapshot)]
  <1>2. c \in Evidence!Closes
    BY VerdictTypes DEF Evidence!Closes
  <1>3. close = <<c>>
    BY <1>1
  <1> HIDE DEF c
  <1> QED
    BY <1>2, <1>3

\* Nothing is priced yet.
LEMMA EvidenceInitInv == Evidence!EvidenceInit => EvidenceInv
  <1> SUFFICES ASSUME Evidence!EvidenceInit PROVE EvidenceInv
    OBVIOUS
  <1>1. /\ instant \in Evidence!Instants
        /\ sighted \in [Evidence!Sources -> Evidence!Instants \cup {Evidence!Never}]
        /\ detections \in 0 .. MaxDetections /\ priced = {}
    BY PlatformAssumption, EvidenceNumbers
       DEF Evidence!EvidenceInit, Evidence!Instants, Evidence!EvidenceAssumption
  <1>2. bet \in Evidence!Bets
    BY <1>1 DEF Evidence!EvidenceInit, Evidence!Bets, Evidence!Sources, Evidence!Scraped,
                Evidence!Instants
  <1>3. bet.status = "none" /\ bet.repriced = FALSE /\ bet.snap = FALSE /\ bet.close = <<>>
    BY DEF Evidence!EvidenceInit
  <1> QED
    BY <1>1, <1>2, <1>3 DEF EvidenceInv, Evidence!EvidenceTypeOK

\* Time passes over the row.
LEMMA ObserveInv ==
    ASSUME EvidenceInv, NEW sources \in SUBSET Evidence!Sources, Evidence!Observe(sources)
    PROVE  EvidenceInv'
  <1>1. instant' \in Evidence!Instants /\ UNCHANGED <<bet, detections, priced>>
    BY EvidenceNumbers
       DEF Evidence!Observe, Evidence!Instants, EvidenceInv, Evidence!EvidenceTypeOK
  <1>2. Evidence!EvidenceTypeOK'
    BY <1>1 DEF Evidence!Observe, EvidenceInv, Evidence!EvidenceTypeOK
  <1> QED
    BY <1>1, <1>2 DEF EvidenceInv, Evidence!Close, Evidence!Independent, Evidence!Reason,
                      Evidence!Mixed, Evidence!MintEcho

\* A price taken now is the only one held, or joins those of a premium row; either way it
\* leaves no close.
LEMMA PriceInv ==
    ASSUME EvidenceInv, NEW anchor \in Evidence!Sources,
           \/ Evidence!Reprice(anchor)
           \/ \E granted \in BOOLEAN : Evidence!Insert(anchor, granted)
    PROVE  EvidenceInv'
  <1>0. Evidence!Detects(anchor)
    BY DEF Evidence!Reprice, Evidence!Insert
  <1>1. /\ instant' = instant /\ sighted' = sighted /\ detections' \in 0 .. MaxDetections
        /\ instant \in Evidence!Instants /\ bet \in Evidence!Bets
        /\ priced \subseteq [at : Evidence!Instants, anchor : Evidence!Sources]
    BY <1>0, PlatformAssumption
       DEF Evidence!Detects, EvidenceInv, Evidence!EvidenceTypeOK, Evidence!EvidenceAssumption
  <1>2. bet' \in Evidence!Bets
    BY <1>1 DEF Evidence!Reprice, Evidence!Insert, Evidence!Priced, Evidence!Bets
  <1>3. priced' \subseteq [at : Evidence!Instants, anchor : Evidence!Sources]
    <2>1. priced' \subseteq priced \cup {[at |-> instant, anchor |-> anchor]}
      BY DEF Evidence!Reprice, Evidence!Insert
    <2>2. [at |-> instant, anchor |-> anchor] \in [at : Evidence!Instants,
                                                 anchor : Evidence!Sources]
      BY <1>1
    <2> QED
      BY <1>1, <2>1, <2>2
  <1>4. bet'.close = <<>> /\ bet'.snap = FALSE
    BY <1>1 DEF Evidence!Reprice, Evidence!Insert, Evidence!Priced, Evidence!Bets
  <1>5. CASE Evidence!Reprice(anchor)
    <2>1. bet'.repriced = TRUE /\ bet'.staked = bet.staked /\ bet.staked
      BY <1>1, <1>5 DEF Evidence!Reprice, Evidence!Priced, Evidence!Bets
    <2> QED
      BY <1>1, <1>2, <1>3, <1>4, <2>1 DEF EvidenceInv, Evidence!EvidenceTypeOK
  <1>6. ASSUME NEW granted \in BOOLEAN, Evidence!Insert(anchor, granted) PROVE EvidenceInv'
    <2>1. /\ bet'.repriced = FALSE /\ bet'.created = instant /\ bet'.anchor = anchor
          /\ priced' = {[at |-> instant, anchor |-> anchor]}
      BY <1>1, <1>6 DEF Evidence!Insert, Evidence!Priced, Evidence!Bets
    <2> QED
      BY <1>1, <1>2, <1>3, <1>4, <2>1 DEF EvidenceInv, Evidence!EvidenceTypeOK
  <1> QED
    BY <1>5, <1>6

\* A close is written beside its verdict: on an open pick by the cycle, on a settled one
\* from the snapshots.
LEMMA StampInv ==
    ASSUME EvidenceInv, UNCHANGED <<instant, sighted, detections, priced>>,
           NEW rows \in SUBSET Evidence!Seen(Evidence!Sources), NEW isSnapshot \in BOOLEAN,
           NEW close \in Evidence!Stamped(rows, isSnapshot),
           bet.status # "none", bet' \in Evidence!Bets, bet'.close = close,
           bet'.snap <=> isSnapshot, bet'.snap => bet'.status = "settled",
           bet'.created = bet.created, bet'.anchor = bet.anchor, bet'.staked = bet.staked,
           bet'.repriced = bet.repriced
    PROVE  EvidenceInv'
  <1>1. PICK a \in Evidence!Sources, at \in Evidence!Instants, fair \in Evidence!Fairs :
           close = <<[anchor |-> a, at |-> at, fair |-> fair,
                      independent |-> Evidence!Independent(a, at, fair),
                      reason |-> Evidence!Reason(a, at, fair, isSnapshot)]>>
    BY StampedClose DEF EvidenceInv
  <1>2. Evidence!EvidenceTypeOK'
    BY DEF EvidenceInv, Evidence!EvidenceTypeOK
  <1>3. /\ Evidence!Close'.anchor = a /\ Evidence!Close'.at = at /\ Evidence!Close'.fair = fair
        /\ Evidence!Close'.reason = Evidence!Reason(a, at, fair, isSnapshot)
        /\ Evidence!Close'.independent <=> Evidence!Independent(a, at, fair)
        /\ bet'.close # <<>>
    BY <1>1 DEF Evidence!Close
  <1>4. /\ Evidence!Mixed' <=> Evidence!Mixed
        /\ Evidence!MintEcho(a, at)' <=> Evidence!MintEcho(a, at)
    BY DEF Evidence!Mixed, Evidence!MintEcho
  <1>6. Evidence!Independent(a, at, fair)' <=> Evidence!Independent(a, at, fair)
    BY <1>4 DEF Evidence!Independent
  <1>7. Evidence!Reason(a, at, fair, bet.snap)' = Evidence!Reason(a, at, fair, isSnapshot)
    BY <1>4 DEF Evidence!Reason
  <1>5. /\ bet'.repriced => bet'.staked
        /\ bet'.status # "none" /\ ~bet'.repriced
             => priced' = {[at |-> bet'.created, anchor |-> bet'.anchor]}
    BY DEF EvidenceInv
  <1> QED
    BY <1>2, <1>3, <1>5, <1>6, <1>7 DEF EvidenceInv

\* The cycle's close of an open pick.
LEMMA RevalidateCloseInv ==
    ASSUME EvidenceInv, Evidence!Revalidate PROVE EvidenceInv'
  <1> DEFINE rows == { s \in Evidence!Scraped : sighted[s] = instant }
                       \cup Evidence!Seen(Evidence!Archived)
  <1>1. rows \subseteq Evidence!Seen(Evidence!Sources)
    BY EvidenceNumbers DEF EvidenceInv, Evidence!EvidenceTypeOK, Evidence!Seen,
       Evidence!Sources
  <1>2. PICK close \in Evidence!Stamped(rows, FALSE) : bet' = [bet EXCEPT !.close = close]
    BY DEF Evidence!Revalidate
  <1>3. bet.status = "open" /\ UNCHANGED <<instant, sighted, detections, priced>>
    BY DEF Evidence!Revalidate
  <1> HIDE DEF rows
  <1>4. Evidence!EvidenceTypeOK /\ rows \in SUBSET Evidence!Seen(Evidence!Sources)
    BY <1>1 DEF EvidenceInv
  <1>5. close \in [1 .. 1 -> Evidence!Closes]
    BY <1>4, StampedIsClose
  <1>6. bet \in Evidence!Bets /\ bet.snap = FALSE
    BY <1>3 DEF EvidenceInv, Evidence!EvidenceTypeOK, Evidence!Bets
  <1>7. /\ bet' \in Evidence!Bets /\ bet'.close = close /\ bet'.snap = FALSE
        /\ bet'.created = bet.created /\ bet'.anchor = bet.anchor /\ bet'.staked = bet.staked
        /\ bet'.repriced = bet.repriced
    BY <1>2, <1>5, <1>6 DEF Evidence!Bets
  <1> QED
    BY <1>1, <1>3, <1>7, StampInv

\* Settlement's close of a settled pick, the first time or again.
LEMMA FinalizedInv ==
    ASSUME EvidenceInv, UNCHANGED <<instant, sighted, detections, priced>>,
           bet.status # "none", NEW taken \in Evidence!Finalized,
           bet' = [taken EXCEPT !.status = "settled"]
    PROVE  EvidenceInv'
  <1> DEFINE rows == (IF Evidence!Fresh(Evidence!Scraped) THEN Evidence!Seen(Evidence!Scraped)
                        ELSE {}) \cup (Evidence!Seen(Evidence!Archived) \ Evidence!StaleEchoes)
  <1>1. rows \subseteq Evidence!Seen(Evidence!Sources)
    BY DEF Evidence!Seen, Evidence!Sources
  <1>2. PICK close \in Evidence!Stamped(rows, TRUE) :
           taken = [bet EXCEPT !.close = close, !.snap = TRUE]
    BY DEF Evidence!Finalized
  <1> HIDE DEF rows
  <1>3. Evidence!EvidenceTypeOK /\ rows \in SUBSET Evidence!Seen(Evidence!Sources)
    BY <1>1 DEF EvidenceInv
  <1>4. close \in [1 .. 1 -> Evidence!Closes]
    BY <1>3, StampedIsClose
  <1>5. bet \in Evidence!Bets
    BY DEF EvidenceInv, Evidence!EvidenceTypeOK
  <1>6. /\ taken \in Evidence!Bets /\ taken.close = close /\ taken.snap = TRUE
        /\ taken.created = bet.created /\ taken.anchor = bet.anchor
        /\ taken.staked = bet.staked /\ taken.repriced = bet.repriced
    BY <1>2, <1>4, <1>5 DEF Evidence!Bets
  <1>7. /\ bet'.close = close /\ bet'.snap = TRUE /\ bet'.status = "settled"
        /\ bet'.created = bet.created /\ bet'.anchor = bet.anchor /\ bet'.staked = bet.staked
        /\ bet'.repriced = bet.repriced
    BY <1>6 DEF Evidence!Bets
  <1>8. bet' \in Evidence!Bets
    BY <1>6 DEF Evidence!Bets
  <1> QED
    BY <1>1, <1>7, <1>8, StampInv

\* A pick settled without a snapshot close keeps the close it has, and its verdict.
LEMMA SettleInv ==
    ASSUME EvidenceInv, Evidence!Settle PROVE EvidenceInv'
  <1>1. bet.status = "open" /\ UNCHANGED <<instant, sighted, detections, priced>>
    BY DEF Evidence!Settle
  <1>2. PICK taken \in {bet} \cup Evidence!Finalized :
           bet' = [taken EXCEPT !.status = "settled"]
    BY DEF Evidence!Settle
  <1>3. CASE taken \in Evidence!Finalized
    BY <1>1, <1>2, <1>3, FinalizedInv
  <1>4. CASE taken = bet
    <2>1. bet \in Evidence!Bets
      BY DEF EvidenceInv, Evidence!EvidenceTypeOK
    <2>2. /\ bet' \in Evidence!Bets /\ bet'.status = "settled" /\ bet'.close = bet.close
          /\ bet'.snap = bet.snap /\ bet'.created = bet.created /\ bet'.anchor = bet.anchor
          /\ bet'.staked = bet.staked /\ bet'.repriced = bet.repriced
      BY <1>2, <1>4, <2>1 DEF Evidence!Bets
    <2>3. Evidence!EvidenceTypeOK'
      BY <1>1, <2>2 DEF EvidenceInv, Evidence!EvidenceTypeOK
    <2>4. /\ Evidence!Close' = Evidence!Close
          /\ Evidence!Mixed' <=> Evidence!Mixed
          /\ \A a, at : Evidence!MintEcho(a, at)' <=> Evidence!MintEcho(a, at)
      BY <2>2 DEF Evidence!Close, Evidence!Mixed, Evidence!MintEcho
    <2>5. \A a, at, f : /\ Evidence!Independent(a, at, f)' <=> Evidence!Independent(a, at, f)
                        /\ Evidence!Reason(a, at, f, bet.snap)'
                             = Evidence!Reason(a, at, f, bet.snap)
      BY <2>2, <2>4 DEF Evidence!Independent, Evidence!Reason
    <2> QED
      BY <1>1, <2>2, <2>3, <2>4, <2>5 DEF EvidenceInv
  <1> QED
    BY <1>2, <1>3, <1>4

LEMMA RefinalizeInv ==
    ASSUME EvidenceInv, Evidence!Refinalize PROVE EvidenceInv'
  <1>1. /\ bet.status = "settled" /\ bet' \in Evidence!Finalized
        /\ UNCHANGED <<instant, sighted, detections, priced>>
    BY DEF Evidence!Refinalize
  <1>2. /\ bet' = [column \in DOMAIN bet |-> bet'[column]]
        /\ "status" \in DOMAIN bet /\ bet'["status"] = "settled"
    <2>1. PICK rows : \E close \in Evidence!Stamped(rows, TRUE) :
             bet' = [bet EXCEPT !.close = close, !.snap = TRUE]
      BY <1>1 DEF Evidence!Finalized
    <2>2. bet \in Evidence!Bets
      BY DEF EvidenceInv, Evidence!EvidenceTypeOK
    <2> QED
      BY <1>1, <2>1, <2>2 DEF Evidence!Bets
  <1>3. bet' = [bet' EXCEPT !.status = "settled"]
    BY <1>2
  <1> QED
    BY <1>1, <1>3, FinalizedInv

LEMMA EvidenceNextInv ==
    ASSUME EvidenceInv, Evidence!EvidenceNext PROVE EvidenceInv'
  BY ObserveInv, PriceInv, RevalidateCloseInv, SettleInv, RefinalizeInv
     DEF Evidence!EvidenceNext

LEMMA EvidenceStutters == EvidenceInv /\ UNCHANGED evidenceVars => EvidenceInv'
  BY DEF evidenceVars, EvidenceInv, Evidence!EvidenceTypeOK, Evidence!Close,
         Evidence!Independent, Evidence!Reason, Evidence!Mixed, Evidence!MintEcho

LEMMA EvidenceInvariance == Spec => []EvidenceInv
  <1>1. Init => EvidenceInv
    BY EvidenceInitInv DEF Init
  <1>2. EvidenceInv /\ [Next]_vars => EvidenceInv'
    BY EvidenceSteps, EvidenceNextInv, EvidenceStutters
  <1> QED
    BY <1>1, <1>2, PTL DEF Spec

\* _aggregate_settled and close_is_mint_echo: a close in the headline was observed after, or
\* at another source than, every price the pick was taken at, for every kickoff and gap.
THEOREM Trusted_IsEvidence == Spec => []TrustedIsEvidence
  <1>1. EvidenceInv => TrustedIsEvidence
    <2> SUFFICES ASSUME EvidenceInv, bet.status = "settled", Evidence!CountsInHeadline,
                        NEW p \in priced
                 PROVE  Evidence!Close.at > p.at \/ Evidence!Close.anchor # p.anchor
      BY DEF TrustedIsEvidence, Evidence!TrustedIsEvidence
    <2>1. bet.close # <<>> /\ ~bet.repriced /\ Evidence!Close.independent
      BY DEF Evidence!CountsInHeadline, Evidence!ReadIndependent
    <2>2. p = [at |-> bet.created, anchor |-> bet.anchor]
      BY <2>1 DEF EvidenceInv
    <2>3. ~Evidence!MintEcho(Evidence!Close.anchor, Evidence!Close.at)
      BY <2>1 DEF EvidenceInv, Evidence!Independent
    <2>4. Evidence!Close.at \in Nat /\ bet.created \in Nat
      BY <2>1, EvidenceNumbers DEF EvidenceInv, Evidence!EvidenceTypeOK, Evidence!Bets,
         Evidence!Closes, Evidence!Close
    <2> QED
      BY <2>2, <2>3, <2>4 DEF Evidence!MintEcho
  <1> QED
    BY <1>1, EvidenceInvariance, PTL

\* close_exclusion_reason, _aggregate_settled, _settled_close_is_trusted and sharp_close: the
\* stored reason and the three readers' conditions are one verdict on every settled pick.
THEOREM One_Verdict == Spec => []OneVerdict
  <1>1. EvidenceInv => OneVerdict
    <2> SUFFICES ASSUME EvidenceInv, bet.status = "settled"
                 PROVE  /\ Evidence!CountsInHeadline = Evidence!CountsInCells
                        /\ Evidence!CountsInCells = Evidence!CountsInReport
                        /\ Evidence!CountsInHeadline =>
                             Evidence!Close.reason =
                               (IF Evidence!Close.fair.extreme THEN "fabricated"
                                                               ELSE "trusted")
                        /\ /\ bet.close # <<>> /\ Evidence!Close.reason = "trusted"
                           /\ Evidence!Close.anchor \in Evidence!Sharps
                           => Evidence!CountsInHeadline
      BY DEF OneVerdict, Evidence!OneVerdict
    <2>1. Evidence!CountsInHeadline <=> Evidence!CountsInCells
      BY DEF Evidence!CountsInHeadline, Evidence!CountsInCells
    <2>2. Evidence!CountsInCells <=> Evidence!CountsInReport
      BY DEF EvidenceInv, Evidence!CountsInCells, Evidence!CountsInReport
    <2>3. ASSUME Evidence!CountsInHeadline
          PROVE  Evidence!Close.reason =
                   (IF Evidence!Close.fair.extreme THEN "fabricated" ELSE "trusted")
      BY <2>3 DEF EvidenceInv, Evidence!CountsInHeadline, Evidence!ReadIndependent,
         Evidence!Tautological, Evidence!Asymmetric, Evidence!Independent, Evidence!Reason
    <2>4. ASSUME bet.close # <<>>, Evidence!Close.reason = "trusted",
                 Evidence!Close.anchor \in Evidence!Sharps
          PROVE  Evidence!CountsInHeadline
      <3>1. /\ ~Evidence!Mixed /\ Evidence!Close.fair.moved
            /\ ~Evidence!MintEcho(Evidence!Close.anchor, Evidence!Close.at)
            /\ Evidence!Close.fair.sameMethod /\ bet.snap
        BY <2>4 DEF EvidenceInv, Evidence!Reason
      <3>2. Evidence!Close.independent /\ ~bet.repriced
        BY <2>4, <3>1 DEF EvidenceInv, Evidence!Independent, Evidence!Mixed
      <3> QED
        BY <2>4, <3>1, <3>2 DEF Evidence!CountsInHeadline, Evidence!ReadIndependent,
           Evidence!Tautological, Evidence!Asymmetric
    <2> QED
      BY <2>1, <2>2, <2>3, <2>4
  <1> QED
    BY <1>1, EvidenceInvariance, PTL
=============================================================================
