----------------------------- MODULE MCCapture -----------------------------
(* Instances of Capture for TLC. *)
EXTENDS Capture, TLC

CONSTANTS p1, p2

OneRoot  == <<{p1}>>
TwoRoots == <<{p1}, {p2}>>
SameRoot == <<{p1, p2}>>

SlotSymmetry == Permutations(Slots)
=============================================================================
