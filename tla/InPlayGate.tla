------------------------------ MODULE InPlayGate ------------------------------
(***************************************************************************)
(* Which kickoff a poll cycle believes.  A fixture's kickoff is known in   *)
(* two places, the in-memory EventDirectory the loaders write and the      *)
(* events row every source writes.  The cycle brings the row up to date,   *)
(* reads it back and prices the fixture only if that kickoff lies ahead;   *)
(* each of the two is a transaction of its own, and the capture jobs of    *)
(* other sources run in between.                                           *)
(*                                                                         *)
(*   app/pipeline.py              run_value_pipeline, _refresh_kickoffs,   *)
(*                                _load_kickoffs, started_event_ids        *)
(*   app/ingestion/base.py        prefer_kickoff, EventDirectory           *)
(*   app/storage/repositories.py  refresh_event_kickoffs,                  *)
(*                                load_event_kickoffs                      *)
(***************************************************************************)
EXTENDS Integers

CONSTANTS
    Times,        \* real kickoffs the sources report
    Midnight,     \* a date without a time: 00:00 of that day
    Horizon       \* bound: the clock stops before; later than every kickoff

InPlayAssumption ==
    /\ Times \subseteq Nat /\ Midnight \in Nat /\ Horizon \in Nat /\ Midnight < Horizon
    /\ \A k \in Times : Midnight < k /\ k < Horizon

Unset == -1
Reports == {Unset, Midnight} \cup Times

VARIABLES
    clock,
    directory,    \* what the loaders registered, Unset when nothing
    startsAt,     \* starts_at of the fixture's row, Unset when NULL or without a row
    step,         \* where the poll cycle is
    now,          \* the time the cycle read after the fetch
    kickoff,      \* the kickoff it loaded
    known,        \* history: the real kickoff known when it did
    misled,       \* history: the refresh failed, or another source wrote after it
    picked        \* history: this cycle minted a pick

inPlayVars == <<clock, directory, startsAt, step, now, kickoff, known, misled, picked>>


\* prefer_kickoff: nothing never replaces a time, a bare date never a real time.
Preferred(old, new) ==
    IF new = Unset \/ (new = Midnight /\ old \in Times) THEN old ELSE new

InPlayInit ==
    /\ clock = 0 /\ directory = Unset /\ startsAt = Unset
    /\ step = "idle" /\ now = 0 /\ kickoff = Unset /\ known = Horizon
    /\ misled = FALSE /\ picked = FALSE

Turn(from, to) == step = from /\ step' = to

cycleVars == <<now, kickoff, known, misled, picked>>

ClockTicks ==
    /\ clock + 1 < Horizon /\ clock' = clock + 1
    /\ UNCHANGED <<directory, startsAt, step, cycleVars>>

\* A capture job or another scraper resolves its reference to this row.
OtherSourceWrites(k) ==
    /\ startsAt' = Preferred(startsAt, k)
    /\ misled' = (misled \/ step = "loading")
    /\ UNCHANGED <<clock, directory, step, now, kickoff, known, picked>>

----------------------------------------------------------------------------
(* The poll cycle.                                                         *)

\* The fetch registers what the listing and the pages say of the fixture.
Fetch(k) ==
    /\ Turn("idle", "fetching")
    /\ directory' = Preferred(directory, k)
    /\ UNCHANGED <<clock, startsAt, cycleVars>>

FetchReturns ==
    /\ Turn("fetching", "fetched")
    /\ now' = clock
    /\ UNCHANGED <<clock, directory, startsAt, kickoff, known, misled, picked>>

Forget ==
    now' = 0 /\ kickoff' = Unset /\ known' = Horizon /\ misled' = FALSE /\ picked' = FALSE

\* A sport that is only shown, or a fetch that missed too much: at most the odds are
\* stored, and with them the kickoff.
Withheld ==
    /\ Turn("fetched", "idle")
    /\ startsAt' \in {startsAt, Preferred(startsAt, directory)}
    /\ Forget
    /\ UNCHANGED <<clock, directory>>

\* refresh_event_kickoffs, which has nothing to update without a row.
Refresh ==
    /\ Turn("fetched", "loading")
    /\ \/ startsAt' = Preferred(startsAt, directory)
       \/ startsAt = Unset /\ UNCHANGED startsAt
    /\ UNCHANGED <<clock, directory, cycleVars>>

\* "kickoff hygiene must never break picking": the error is logged.
RefreshFails ==
    /\ Turn("fetched", "loading")
    /\ misled' = TRUE
    /\ UNCHANGED <<clock, directory, startsAt, now, kickoff, known, picked>>

RealKickoff ==
    IF directory \in Times THEN directory
    ELSE IF startsAt \in Times THEN startsAt ELSE Horizon

\* Fault: the kickoffs are read before the row is brought up to date.
LoadFirst(readable) ==
    /\ step \in {"fetched", "loading"} /\ step' = "pricing"
    /\ kickoff' = IF readable /\ startsAt # Unset THEN startsAt ELSE directory
    /\ known' = RealKickoff
    /\ UNCHANGED <<clock, directory, startsAt, now, misled, picked>>

\* _load_kickoffs: the row's kickoff, or the directory's when there is none or the row
\* cannot be read.
Load(readable) ==
    /\ Turn("loading", "pricing")
    /\ kickoff' = IF readable /\ startsAt # Unset THEN startsAt ELSE directory
    /\ known' = RealKickoff
    /\ UNCHANGED <<clock, directory, startsAt, now, misled, picked>>

\* Neither started nor without a kickoff.
Actionable == kickoff # Unset /\ kickoff > now

\* The odds are stored, if the write succeeds, and candidates are minted.
Mint ==
    /\ Turn("pricing", "minted")
    /\ startsAt' \in {startsAt, Preferred(startsAt, directory)}
    /\ picked' = Actionable
    /\ UNCHANGED <<clock, directory, now, kickoff, known, misled>>

EndCycle ==
    /\ Turn("minted", "idle") /\ Forget
    /\ UNCHANGED <<clock, directory, startsAt>>

\* The watchdog cancels the cycle, or the process restarts and its directory is empty.
CycleDies ==
    /\ step # "idle" /\ step' = "idle" /\ Forget
    /\ directory' \in {directory, Unset}
    /\ UNCHANGED <<clock, startsAt>>

InPlayNext ==
    \/ ClockTicks \/ FetchReturns \/ Withheld \/ Refresh \/ RefreshFails
    \/ Mint \/ EndCycle \/ CycleDies
    \/ \E k \in Reports : OtherSourceWrites(k) \/ Fetch(k)
    \/ \E readable \in BOOLEAN : Load(readable)

InPlaySpec == InPlayInit /\ [][InPlayNext]_inPlayVars

----------------------------------------------------------------------------
(* Properties.                                                             *)

\* Kickoffs are unknown, a bare date or a reported time; a cycle is at one of its steps.
InPlayTypeOK ==
    /\ clock \in 0 .. Horizon /\ now \in 0 .. Horizon
    /\ directory \in Reports /\ startsAt \in Reports /\ kickoff \in Reports
    /\ step \in {"idle", "fetching", "fetched", "loading", "pricing", "minted"}
    /\ known \in Times \cup {Horizon} /\ misled \in BOOLEAN /\ picked \in BOOLEAN

(* No pick is minted from prices fetched at or after the kickoff that the      *)
(* scraper, or failing it the row, knows of: not when a match is moved         *)
(* forward, when the source falls back to a bare date or to nothing, when the  *)
(* row cannot be read, or after a restart that lost the directory.  A refresh  *)
(* that fails, and another source's kickoff written between refresh and load,  *)
(* are what the code leaves open.                                              *)
NoInPlayPick == picked /\ ~misled => now < known
=============================================================================
