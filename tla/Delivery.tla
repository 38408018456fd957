------------------------------ MODULE Delivery ------------------------------
(***************************************************************************)
(* What alerting promises for an alert on a channel, the abstract          *)
(* specification that AlertDispatch implements (the head of                *)
(* app/notifications/dispatcher.py): a channel takes an alert again only   *)
(* while no delivery is on record, and the record lasts until the claim's  *)
(* time to live has passed.                                                *)
(***************************************************************************)
EXTENDS Naturals

CONSTANT Keys        \* an alert on a channel

VARIABLES
    accepted,        \* how often the channel has taken the alert
    confirmed        \* keys with a delivery on record

vars == <<accepted, confirmed>>

Init ==
    /\ accepted = [k \in Keys |-> 0]
    /\ confirmed = {}

\* The channel takes the alert; the dispatcher may learn of it later, or never.
Accept(k) ==
    /\ k \notin confirmed
    /\ accepted' = [accepted EXCEPT ![k] = @ + 1]
    /\ UNCHANGED confirmed

Confirm(k) ==
    /\ accepted[k] > 0
    /\ confirmed' = confirmed \cup {k}
    /\ UNCHANGED accepted

Forget(k) ==
    /\ confirmed' = confirmed \ {k}
    /\ UNCHANGED accepted

Next == \E k \in Keys : Accept(k) \/ Confirm(k) \/ Forget(k)

Spec == Init /\ [][Next]_vars
=============================================================================
