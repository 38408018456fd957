--------------------------- MODULE MCAlertDispatch ---------------------------
(* Instances of AlertDispatch for TLC.                                      *)
EXTENDS AlertDispatch

CONSTANTS a1, a2, telegram, webhook

TwoSinks == <<telegram, webhook>>
OneSink == <<telegram>>
=============================================================================
