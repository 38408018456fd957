---------------------------- MODULE ProxySessions ----------------------------
(***************************************************************************)
(* One fetch cycle after another of the OddsChecker loader over a pool of  *)
(* persistent sessions, one per proxy.  The match pages of a batch are     *)
(* fetched concurrently and share sessions by leases; a page that is       *)
(* challenged evicts its session, on which siblings may still be fetching, *)
(* and retries through another proxy.  A cycle can be cancelled anywhere.  *)
(*                                                                         *)
(*   app/ingestion/oddschecker.py   _ProxySessionPool, _run_with_session,  *)
(*                                  _gather_snapshots                      *)
(*                                                                         *)
(* Which proxy a lease takes is the health registry's choice (ProxyHealth) *)
(* and any proxy here.                                                     *)
(***************************************************************************)
EXTENDS Naturals, FiniteSets

CONSTANTS
    Proxies,         \* the pool
    Pages,           \* listed match pages, one batch
    MaxFetches       \* bound: fetch cycles

SessionsAssumption == IsFiniteSet(Pages) /\ MaxFetches \in Nat

VARIABLES
    cycles,          \* fetch cycles so far
    fetching,        \* a cycle runs
    cancelled,       \* and was cancelled
    page,            \* where each page's task is
    lease,           \* the session each page's task has borrowed
    avoid,           \* the proxy each page's retry excludes
    built,           \* sessions built per proxy in this cycle
    current,         \* _sessions
    leases,          \* _lease_counts
    retired,         \* _retired_sessions
    closed,          \* sessions that were closed
    complete         \* last_fetch_complete

sessionVars == <<cycles, fetching, cancelled, page, lease, avoid, built, current,
                 leases, retired, closed, complete>>

\* A page evicts up to two sessions; a session is the proxy's n-th of the cycle.
MaxBuilt == 2 * Cardinality(Pages) + 1

Sessions == Proxies \X (1 .. MaxBuilt)

NoSession == <<>>

Stages == {"queued", "fetching", "pausing", "rotating", "retrying", "done",
           "failed"}

Over(pg) == page[pg] \in {"done", "failed"}

SessionsTypeOK ==
    /\ cycles \in 0 .. MaxFetches
    /\ fetching \in BOOLEAN /\ cancelled \in BOOLEAN /\ complete \in BOOLEAN
    /\ page \in [Pages -> Stages]
    /\ lease \in [Pages -> Sessions \cup {NoSession}]
    /\ avoid \in [Pages -> SUBSET Proxies]
    /\ built \in [Proxies -> 0 .. MaxBuilt]
    /\ current \subseteq Sessions /\ retired \subseteq Sessions /\ closed \subseteq Sessions
    /\ leases \in [Sessions -> 0 .. Cardinality(Pages)]

SessionsInit ==
    /\ cycles = 0
    /\ fetching = FALSE /\ cancelled = FALSE
    /\ page = [pg \in Pages |-> "done"]
    /\ lease = [pg \in Pages |-> NoSession]
    /\ avoid = [pg \in Pages |-> {}]
    /\ built = [x \in Proxies |-> 0]
    /\ current = {} /\ retired = {} /\ closed = {}
    /\ leases = [s \in Sessions |-> 0]
    /\ complete = TRUE

Turn(pg, from, to) == page[pg] = from /\ page' = [page EXCEPT ![pg] = to]

----------------------------------------------------------------------------
(* The session pool.                                                       *)

\* acquire_lease: the proxy's session, built on first use.
Borrow(pg, x) ==
    LET cached == { s \in current : s[1] = x }
        s == IF cached = {} THEN <<x, built[x] + 1>> ELSE CHOOSE c \in cached : TRUE
    IN  /\ current' = current \cup {s}
        /\ built' = [built EXCEPT ![x] = IF cached = {} THEN @ + 1 ELSE @]
        /\ leases' = [leases EXCEPT ![s] = @ + 1]
        /\ lease' = [lease EXCEPT ![pg] = s]

\* release: at the last borrower a retired session is closed.
Released(s, gone) ==
    /\ leases' = [leases EXCEPT ![s] = IF @ = 0 THEN 0 ELSE @ - 1]
    /\ retired' = IF leases[s] <= 1 THEN gone \ {s} ELSE gone
    /\ closed' = IF leases[s] <= 1 /\ s \in gone THEN closed \cup {s} ELSE closed

Return(pg) ==
    /\ Released(lease[pg], retired)
    /\ lease' = [lease EXCEPT ![pg] = NoSession]

\* evict, by a borrower: unless a sibling did, the session leaves the pool and is
\* retired.  Then the borrower releases it.
EvictAndReturn(pg) ==
    /\ Released(lease[pg], retired \cup (current \cap {lease[pg]}))
    /\ current' = current \ {lease[pg]}
    /\ lease' = [lease EXCEPT ![pg] = NoSession]
    /\ avoid' = [avoid EXCEPT ![pg] = {lease[pg][1]}]

----------------------------------------------------------------------------
(* A cycle.                                                                *)

\* Fault: the verdict of the previous cycle stands until the next one.
BeginKeepsVerdict ==
    /\ ~fetching /\ cycles < MaxFetches
    /\ cycles' = cycles + 1 /\ fetching' = TRUE /\ cancelled' = FALSE
    /\ page' = [pg \in Pages |-> "queued"]
    /\ built' = [x \in Proxies |-> 0] /\ closed' = {}
    /\ avoid' = [pg \in Pages |-> {}]
    /\ UNCHANGED <<lease, current, leases, retired, complete>>

\* A new pool; "cycle did not complete" until it has.
Begin ==
    /\ ~fetching /\ cycles < MaxFetches
    /\ cycles' = cycles + 1 /\ fetching' = TRUE /\ cancelled' = FALSE
    /\ page' = [pg \in Pages |-> "queued"]
    /\ built' = [x \in Proxies |-> 0] /\ closed' = {}
    /\ complete' = FALSE
    /\ avoid' = [pg \in Pages |-> {}]
    /\ UNCHANGED <<lease, current, leases, retired>>

Fetch(pg) ==
    /\ fetching /\ ~cancelled
    /\ Turn(pg, "queued", "fetching")
    /\ \E x \in Proxies : Borrow(pg, x)
    /\ UNCHANGED <<cycles, fetching, cancelled, avoid, retired, closed, complete>>

Fetched(pg) ==
    /\ ~cancelled
    /\ \E stage \in {"fetching", "retrying"} : Turn(pg, stage, "done")
    /\ Return(pg)
    /\ UNCHANGED <<cycles, fetching, cancelled, avoid, built, current, complete>>

\* A challenge, a timeout: the page pauses with its lease.
FailsOnce(pg) ==
    /\ ~cancelled
    /\ Turn(pg, "fetching", "pausing")
    /\ UNCHANGED <<cycles, fetching, cancelled, lease, avoid, built, current, leases, retired,
                   closed, complete>>

\* Fault: eviction closes the session under its other borrowers.
EvictNow(pg) ==
    /\ ~cancelled
    /\ Turn(pg, "pausing", "rotating")
    /\ leases' = [leases EXCEPT ![lease[pg]] = @ - 1]
    /\ closed' = closed \cup {lease[pg]}
    /\ current' = current \ {lease[pg]}
    /\ lease' = [lease EXCEPT ![pg] = NoSession]
    /\ avoid' = [avoid EXCEPT ![pg] = {lease[pg][1]}]
    /\ UNCHANGED <<cycles, fetching, cancelled, built, retired, complete>>

Evict(pg) ==
    /\ ~cancelled
    /\ Turn(pg, "pausing", "rotating")
    /\ EvictAndReturn(pg)
    /\ UNCHANGED <<cycles, fetching, cancelled, built, complete>>

\* The retry's lease excludes the failed proxy, unless it is the only one.
Retry(pg) ==
    LET others == Proxies \ avoid[pg]
    IN  /\ ~cancelled
        /\ Turn(pg, "rotating", "retrying")
        /\ \E x \in IF others = {} THEN Proxies ELSE others : Borrow(pg, x)
        /\ UNCHANGED <<cycles, fetching, cancelled, avoid, retired, closed, complete>>

FailsAgain(pg) ==
    /\ ~cancelled
    /\ Turn(pg, "retrying", "failed")
    /\ EvictAndReturn(pg)
    /\ UNCHANGED <<cycles, fetching, cancelled, built, complete>>

\* An error no other proxy would cure.
FailsForGood(pg) ==
    /\ ~cancelled
    /\ \E stage \in {"fetching", "retrying"} : Turn(pg, stage, "failed")
    /\ Return(pg)
    /\ UNCHANGED <<cycles, fetching, cancelled, avoid, built, current, complete>>

\* wait_for cancels the cycle, at whatever await each page is.
Cancel ==
    /\ fetching /\ ~cancelled
    /\ cancelled' = TRUE
    /\ UNCHANGED <<cycles, fetching, page, lease, avoid, built, current, leases, retired,
                   closed, complete>>

\* The page's finally gives its lease back.
Unwind(pg) ==
    /\ cancelled /\ ~Over(pg)
    /\ page' = [page EXCEPT ![pg] = "failed"]
    /\ IF lease[pg] = NoSession THEN UNCHANGED <<lease, leases, retired, closed>>
       ELSE Return(pg)
    /\ UNCHANGED <<cycles, fetching, cancelled, avoid, built, current, complete>>

\* gather has every page's outcome: the verdict, which a cancellation may prevent, and
\* aclose.
End ==
    /\ fetching /\ \A pg \in Pages : Over(pg)
    /\ fetching' = FALSE
    /\ \E written \in IF cancelled THEN BOOLEAN ELSE {TRUE} :
           complete' = (written /\ \A pg \in Pages : page[pg] = "done")
    /\ closed' = closed \cup current \cup retired
    /\ current' = {} /\ retired' = {}
    /\ leases' = [s \in Sessions |-> 0]
    /\ UNCHANGED <<cycles, cancelled, page, lease, avoid, built>>

SessionsNext ==
    \/ Begin \/ Cancel \/ End
    \/ \E pg \in Pages :
        \/ Fetch(pg) \/ Fetched(pg) \/ FailsOnce(pg) \/ Evict(pg) \/ Retry(pg)
        \/ FailsAgain(pg) \/ FailsForGood(pg) \/ Unwind(pg)

SessionsSpec == SessionsInit /\ [][SessionsNext]_sessionVars

----------------------------------------------------------------------------
(* Properties.                                                             *)

\* Every session is closed, and not before its last borrower is done: a challenged page
\* never closes the session a sibling is fetching on, the pool never lends a closed one;
\* one that was built is in the pool, or retired with a borrower that will close it, or
\* closed, and after the cycle, cancelled or not, all are closed.
SessionsCloseInTime ==
    /\ \A pg \in Pages : lease[pg] # NoSession => lease[pg] \notin closed
    /\ \A x \in Proxies : \A n \in 1 .. built[x] :
        \/ <<x, n>> \in closed
        \/ fetching /\ <<x, n>> \in current
        \/ fetching /\ <<x, n>> \in retired /\ \E pg \in Pages : lease[pg] = <<x, n>>

\* A cycle is called complete only if it fetched every page itself: neither a cancelled
\* cycle nor a running one inherits its predecessor's verdict, on which the pipeline
\* mints.
CompleteIsOfThisCycle ==
    complete /\ cycles > 0 => ~fetching /\ \A pg \in Pages : page[pg] = "done"

\* Neither a session nor a verdict outlives or precedes its cycle.
CyclesKeepTheirSessions == SessionsCloseInTime /\ CompleteIsOfThisCycle
=============================================================================
