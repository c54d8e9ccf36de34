------------------------------- MODULE MCMain -------------------------------
(* Instances of Main for TLC.                                              *)
EXTENDS Main

CONSTANTS kept, hand, a, b, k1, k2

TwoConfigs == {a, b}
TwoCalls == {k1, k2}
=============================================================================
