--------------------------- MODULE BankrollLedger ---------------------------
(***************************************************************************)
(* The hypothetical bankroll: a starting balance and, behind it, one entry *)
(* per settled pick with the running balance.  Two jobs append to it, the  *)
(* end of each settlement run and a daily catch-up, while the engine and   *)
(* the dashboard write results and correct them.                           *)
(*                                                                         *)
(*   app/maintenance/bankroll_ledger.py  sync_bankroll_ledger              *)
(*   app/scheduler.py                    settle_results, snapshot_bankroll *)
(*   app/api/routes.py                   record_result                     *)
(*   app/storage/models.py               BankrollLedgerEntry               *)
(*                                                                         *)
(* A job is one transaction whose statements read what is committed when   *)
(* they run.  Balances count from the starting one; picks enter in any     *)
(* order, as the time a user settles a pick at may be any.                 *)
(***************************************************************************)
EXTENDS Integers, Sequences, SequencesExt

CONSTANTS
    Wagers,          \* picks
    Gains,           \* P&L of a settled pick
    MaxCorrections   \* bound: results recorded again

\* The first entry of the ledger, which is of no pick.
Opening == "starting_balance"

BankrollAssumption ==
    Gains \subseteq Int /\ MaxCorrections \in Nat /\ Opening \notin Wagers

Syncs == {"settle_results", "snapshot_bankroll"}

VARIABLES
    pnl,             \* result_tracking: the P&L of each settled pick
    entries,         \* bankroll_ledger, in the order of the ids
    sync,            \* the transaction of each job
    corrections      \* history: the picks whose results were recorded again

bankrollVars == <<pnl, entries, sync, corrections>>

Entries == [of : Wagers \cup {Opening}, amount : Gains \cup {0}, after : Int]

Idle == [at |-> "idle", balance |-> 0, todo |-> {}, written |-> <<>>]

BankrollTypeOK ==
    /\ DOMAIN pnl \subseteq Wagers /\ \A w \in DOMAIN pnl : pnl[w] \in Gains
    /\ entries \in Seq(Entries)
    /\ \A s \in Syncs :
          /\ sync[s].at \in {"idle", "waiting", "locked", "read", "appending"}
          /\ sync[s].balance \in Int
          /\ sync[s].todo \subseteq [of : Wagers, amount : Gains]
          /\ sync[s].written \in Seq(Entries)
    /\ corrections \in Seq(Wagers)

BankrollInit ==
    /\ pnl = <<>> /\ entries = <<>> /\ corrections = <<>>
    /\ sync = [s \in Syncs |-> Idle]

Of(rows) == { row.of : row \in ToSet(rows) }

----------------------------------------------------------------------------
(* Results: the first of a pick, and one written over it.                  *)

Record(w, gain) ==
    /\ w \in DOMAIN pnl => Len(corrections) < MaxCorrections
    /\ pnl' = [v \in DOMAIN pnl \cup {w} |-> IF v = w THEN gain ELSE pnl[v]]
    /\ corrections' = IF w \in DOMAIN pnl THEN corrections \o <<w>> ELSE corrections
    /\ UNCHANGED <<entries, sync>>

----------------------------------------------------------------------------
(* sync_bankroll_ledger                                                    *)

Begin(s) ==
    /\ sync[s].at = "idle"
    /\ sync' = [sync EXCEPT ![s].at = "waiting"]
    /\ UNCHANGED <<pnl, entries, corrections>>

\* Fault: only the unique key keeps two jobs apart.
LockNone(s) ==
    /\ sync[s].at = "waiting"
    /\ sync' = [sync EXCEPT ![s].at = "locked"]
    /\ UNCHANGED <<pnl, entries, corrections>>

\* The advisory lock, held to the end of the transaction.
Lock(s) ==
    /\ sync[s].at = "waiting"
    /\ \A t \in Syncs : sync[t].at \in {"idle", "waiting"}
    /\ sync' = [sync EXCEPT ![s].at = "locked"]
    /\ UNCHANGED <<pnl, entries, corrections>>

\* The last balance; an empty ledger is opened.
ReadBalance(s) ==
    /\ sync[s].at = "locked"
    /\ sync' = [sync EXCEPT ![s] =
         [at |-> "read", todo |-> {},
          balance |-> IF entries = <<>> THEN 0 ELSE Last(entries).after,
          written |-> IF entries = <<>> THEN <<[of |-> Opening, amount |-> 0, after |-> 0]>>
                      ELSE <<>>]]
    /\ UNCHANGED <<pnl, entries, corrections>>

\* The results that have no entry.
ReadResults(s) ==
    /\ sync[s].at = "read"
    /\ sync' = [sync EXCEPT
         ![s].at = "appending",
         ![s].todo = { [of |-> w, amount |-> pnl[w]] : w \in DOMAIN pnl \ Of(entries) }]
    /\ UNCHANGED <<pnl, entries, corrections>>

\* The insert waits for another transaction's entry of the pick, and for a committed one it
\* does nothing.
Enter(s, row) ==
    LET left == [sync[s] EXCEPT !.todo = @ \ {row}]
        balance == left.balance + row.amount
    IN  /\ sync[s].at = "appending" /\ row \in sync[s].todo
        /\ \A t \in Syncs \ {s} : row.of \notin Of(sync[t].written)
        /\ sync' = [sync EXCEPT ![s] =
             IF row.of \in Of(entries) THEN left
             ELSE [left EXCEPT !.balance = balance,
                     !.written = @ \o <<[of |-> row.of, amount |-> row.amount,
                                         after |-> balance]>>]]
        /\ UNCHANGED <<pnl, entries, corrections>>

Commit(s) ==
    /\ sync[s].at = "appending" /\ sync[s].todo = {}
    /\ entries' = entries \o sync[s].written
    /\ sync' = [sync EXCEPT ![s] = Idle]
    /\ UNCHANGED <<pnl, corrections>>

\* An error, logged, or the end of the process: the transaction leaves nothing.
Fail(s) ==
    /\ sync[s].at # "idle"
    /\ sync' = [sync EXCEPT ![s] = Idle]
    /\ UNCHANGED <<pnl, entries, corrections>>

----------------------------------------------------------------------------

BankrollNext ==
    \/ \E w \in Wagers, gain \in Gains : Record(w, gain)
    \/ \E s \in Syncs :
          \/ Begin(s) \/ Lock(s) \/ ReadBalance(s) \/ ReadResults(s) \/ Commit(s) \/ Fail(s)
          \/ \E row \in sync[s].todo : Enter(s, row)

BankrollSpec == BankrollInit /\ [][BankrollNext]_bankrollVars

----------------------------------------------------------------------------
(* Properties.                                                             *)

\* However the two jobs, the results and failures interleave, the ledger opens once, takes
\* each pick once with the P&L it had (the one it has, unless it was corrected), and every
\* balance is the one before it and the amount.
LedgerAddsUp ==
    /\ \A i \in DOMAIN entries :
          /\ (entries[i].of = Opening) <=> i = 1
          /\ entries[i].after = (IF i = 1 THEN 0 ELSE entries[i - 1].after) + entries[i].amount
          /\ i > 1 /\ entries[i].of \notin ToSet(corrections)
               => entries[i].amount = pnl[entries[i].of]
          /\ \A j \in DOMAIN entries : entries[i].of = entries[j].of => i = j
=============================================================================
