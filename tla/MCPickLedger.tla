---------------------------- MODULE MCPickLedger ----------------------------
(* Instances of PickLedger for TLC.                                        *)
EXTENDS PickLedger, FiniteSetsExt, TLC

CONSTANTS e1, e2, over, under, l1, l2

\* SUM by its definition.
SumOverRows(f) == MapThenSumSet(LAMBDA r : f[r], DOMAIN f)

SameRef == [e \in Refs |-> e]

\* Both references resolve to the event row of e1.
BothToFirst == [e \in Refs |-> e1]

OneEvent == {<<e1, over>>, <<e1, under>>}
TwoRefs == {<<e1, over>>, <<e2, under>>}
ThreeBets == {<<e1, over>>, <<e1, under>>, <<e2, over>>}
OneInstrument == {<<e1, over>>}

\* Offers are only compared for equality.
OffersAlike == Permutations(Lines)
=============================================================================
