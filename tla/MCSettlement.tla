---------------------------- MODULE MCSettlement -----------------------------
(* One fixture forked over two events.  The home bet has a pick on each, the *)
(* total has one on the first only.                                          *)
EXTENDS Settlement, TLC

CONSTANTS home1, home2, over1, e1, e2, home, over

TwoForks == (home1 :> e1) @@ (home2 :> e2) @@ (over1 :> e1)
Markets == (home1 :> home) @@ (home2 :> home) @@ (over1 :> over)
=============================================================================
