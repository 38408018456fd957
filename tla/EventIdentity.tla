---------------------------- MODULE EventIdentity ----------------------------
(***************************************************************************)
(* Which event row a provider's reference belongs to.  References of two   *)
(* providers, or of a fork of one, may name the same fixture; references   *)
(* under the same club names may name two (a double-header).  A row is     *)
(* known by the reference that minted it, ids ascend in the order of       *)
(* minting.  Every resolution reads, decides and then writes, on its own   *)
(* connection; a kickoff is written over whatever is committed by then.    *)
(*                                                                         *)
(*   app/storage/repositories.py  _get_or_create_event, _redate_allowed,   *)
(*                                _resolve_canonical_event(_by_pair),      *)
(*                                upsert_event_source_links,               *)
(*                                refresh_event_kickoffs                   *)
(*   app/ingestion/base.py        prefer_kickoff                           *)
(*                                                                         *)
(* One sport.  The poll cycle meets new references; the exchange capture   *)
(* resolves references the store knows.                                    *)
(***************************************************************************)
EXTENDS Integers, SequencesExt

CONSTANTS
    Refs,            \* provider references
    TeamsOf,         \* the oriented team rows of a reference
    PairOf,          \* fixture_pair_key of its names
    MarkersOf,       \* _league_marker_set of its league
    Kickoffs,        \* the kickoffs a provider may report, in hours
    TBD,             \* no kickoff
    Nowhere,         \* no event
    Tolerance,       \* _RESOLVER_TOLERANCE and _dedup_tolerance, in hours
    RedateWindow     \* _EVENT_REDATE_GUARD_WINDOW, in hours

IdentityAssumption ==
    /\ Nowhere \notin Refs /\ TBD \notin Kickoffs
    /\ Kickoffs \subseteq Int /\ Tolerance \in Nat /\ RedateWindow \in Nat

VARIABLES
    minted,          \* the references that have an event row of their own, by id
    starts,          \* events.starts_at of each row
    link,            \* the active event_source_links target of a reference
    settled,         \* events with a settled pick
    queue,           \* match_review_queue: events whose move was refused
    session,         \* what each session has decided and not yet committed
    resolved         \* history: the event a reference was last resolved to

identityVars == <<minted, starts, link, settled, queue, session, resolved>>

Sessions == {"poll", "capture"}

Minted == ToSet(minted)

IdOf(e) == CHOOSE i \in DOMAIN minted : minted[i] = e

Lowest(events) == CHOOSE e \in events : \A f \in events : IdOf(e) <= IdOf(f)

----------------------------------------------------------------------------
(* Kickoffs.                                                               *)

\* is_date_only_midnight: a date without a time.
DateOnly(k) == k # TBD /\ k % 24 = 0

Real(k) == k # TBD /\ ~DateOnly(k)

\* prefer_kickoff: a date does not replace a time, and nothing replaces neither.
Prefer(old, new) ==
    IF new = TBD \/ (DateOnly(new) /\ Real(old)) THEN old ELSE new

Gap(k, l) == IF k < l THEN l - k ELSE k - l

Near(k, l) == k # TBD /\ l # TBD /\ Gap(k, l) <= Tolerance

\* A move the guard leaves to a human once money is settled on the event.
FarMove(old, new) == old # TBD /\ new # TBD /\ Gap(old, new) > RedateWindow

RedateAllowed(e, new) == ~(FarMove(starts[e], new) /\ e \in settled)

----------------------------------------------------------------------------
(* Resolution.                                                             *)

\* Fault: leagues are not compared.
TwinsOfAnyLeague(r, k) == { e \in Minted : Near(starts[e], k) }

\* Rows near in time whose league agrees on women, youth and reserves.
Twins(r, k) == { e \in Minted : Near(starts[e], k) /\ MarkersOf[e] = MarkersOf[r] }

\* Tier 1: the same teams in the same order, nearest in time, then lowest id.
SameTeams(r, k) == { e \in Twins(r, k) : TeamsOf[e] = TeamsOf[r] }

Nearest(events, k) ==
    Lowest({ e \in events : \A f \in events : Gap(starts[e], k) <= Gap(starts[f], k) })

\* Tier 2: the same pair of names, lowest id; a date is no time to match on.
SamePair(r, k) ==
    { e \in Twins(r, k) : PairOf[e] = PairOf[r] /\ e # r /\ ~DateOnly(starts[e]) }

Decision == [event : Refs \cup {Nowhere}, kickoff : Kickoffs \cup {TBD},
             does : {"idle", "keep", "refuse", "move", "link", "mint"},
             ref : Refs \cup {Nowhere}]

Idle == [event |-> Nowhere, kickoff |-> TBD, does |-> "idle", ref |-> Nowhere]

\* A row is written only where its kickoff changes.
Onto(e, r, k) ==
    [event |-> e, kickoff |-> Prefer(starts[e], k), ref |-> r,
     does |-> IF Prefer(starts[e], k) = starts[e] THEN "keep" ELSE "move"]

\* A reference that has a row of its own, where no link leads elsewhere.
OntoOwn(r, k) ==
    IF Prefer(starts[r], k) # starts[r] /\ ~RedateAllowed(r, Prefer(starts[r], k))
    THEN [Onto(r, r, k) EXCEPT !.does = "refuse"]
    ELSE Onto(r, r, k)

\* The tiers run for a real kickoff only; what they miss is a new event.
FromTiers(r, k) ==
    IF Real(k) /\ SameTeams(r, k) # {}
    THEN [Onto(Nearest(SameTeams(r, k), k), r, k) EXCEPT !.does = "link"]
    ELSE IF Real(k) /\ SamePair(r, k) # {}
    THEN [Onto(Lowest(SamePair(r, k)), r, k) EXCEPT !.does = "link"]
    ELSE [event |-> r, kickoff |-> k, does |-> "mint", ref |-> r]

\* Fault: the tiers are asked before the reference's own row and link.
ResolutionTiersFirst(r, k) ==
    IF FromTiers(r, k).does = "link" THEN FromTiers(r, k)
    ELSE IF link[r] # Nowhere THEN Onto(link[r], r, k)
    ELSE IF r \in Minted THEN OntoOwn(r, k)
    ELSE FromTiers(r, k)

\* _get_or_create_event: link, own row, tiers, mint.
Resolution(r, k) ==
    IF link[r] # Nowhere THEN Onto(link[r], r, k)
    ELSE IF r \in Minted THEN OntoOwn(r, k)
    ELSE FromTiers(r, k)

----------------------------------------------------------------------------

IdentityTypeOK ==
    /\ Minted \subseteq Refs /\ IsInjective(minted)
    /\ starts \in [Refs -> Kickoffs \cup {TBD}]
    /\ link \in [Refs -> Refs \cup {Nowhere}]
    /\ settled \subseteq Minted /\ queue \subseteq Minted
    /\ session \in [Sessions -> Decision]
    /\ resolved \in [Refs -> Refs \cup {Nowhere}]

IdentityInit ==
    /\ minted = <<>>
    /\ starts = [r \in Refs |-> TBD] /\ link = [r \in Refs |-> Nowhere]
    /\ settled = {} /\ queue = {}
    /\ session = [s \in Sessions |-> Idle]
    /\ resolved = [r \in Refs |-> Nowhere]

Decides(s, decision) ==
    /\ session[s] = Idle
    /\ session' = [session EXCEPT ![s] = decision]
    /\ UNCHANGED <<minted, starts, link, settled, queue, resolved>>

\* A session resolves a reference, with the kickoff its provider reports.
Resolve(s, r, k) ==
    /\ s = "poll" \/ link[r] # Nowhere \/ r \in Minted
    /\ Decides(s, Resolution(r, k))

\* refresh_event_kickoffs: the poll cycle first moves the rows its scrape names.
Refresh(r, k) ==
    /\ r \in Minted
    /\ Prefer(starts[r], k) # starts[r]
    /\ Decides("poll", Onto(r, r, k))

\* What was decided is written and committed; ON CONFLICT leaves a minted row alone.
Commit(s) ==
    LET d == session[s] IN
    /\ d.does # "idle"
    /\ session' = [session EXCEPT ![s] = Idle]
    /\ resolved' = [resolved EXCEPT ![d.ref] = d.event]
    /\ minted' = IF d.does = "mint" /\ d.event \notin Minted
                   THEN Append(minted, d.event) ELSE minted
    /\ starts' = IF d.does \in {"move", "link", "mint"}
                   THEN [starts EXCEPT ![d.event] = d.kickoff] ELSE starts
    /\ link' = IF d.does = "link" THEN [link EXCEPT ![d.ref] = d.event] ELSE link
    /\ queue' = IF d.does = "refuse" THEN queue \cup {d.event} ELSE queue
    /\ UNCHANGED settled

\* Settlement writes the result of a pick on an event with a kickoff.
Settle(e) ==
    /\ e \in Minted \ settled /\ starts[e] # TBD
    /\ settled' = settled \cup {e}
    /\ UNCHANGED <<minted, starts, link, queue, session, resolved>>

IdentityNext ==
    \/ \E s \in Sessions, r \in Refs, k \in Kickoffs \cup {TBD} : Resolve(s, r, k)
    \/ \E r \in Refs, k \in Kickoffs : Refresh(r, k)
    \/ \E s \in Sessions : Commit(s)
    \/ \E e \in Refs : Settle(e)

IdentitySpec == IdentityInit /\ [][IdentityNext]_identityVars

----------------------------------------------------------------------------
(* Properties.                                                             *)

\* Picks, snapshots and results of one reference gather on one event: whatever other
\* references, kickoffs and moves come in between, it resolves to the same row again.
ResolutionIsStable ==
    [][ \A r \in Refs : resolved[r] # Nowhere => resolved'[r] = resolved[r] ]_identityVars

\* The two games of a double-header never share an event.
DoubleHeadersStayApart ==
    \A r, s \in Refs :
        resolved[r] = resolved[s] /\ resolved[r] # Nowhere => MarkersOf[r] = MarkersOf[s]

\* "A starts_at move beyond this window on an event that already has settled picks is
\* never a postponement we should absorb silently" (repositories.py:436): no session
\* decides on such a move.
SettledEventsAreNotMoved ==
    [][ \A s \in Sessions :
          LET d == session'[s]
          IN  session[s] = Idle /\ d.does = "move" /\ d.event \in settled =>
                  ~FarMove(starts[d.event], d.kickoff) ]_identityVars
=============================================================================
