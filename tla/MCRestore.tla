------------------------------ MODULE MCRestore ------------------------------
(* Instances of Restore for TLC.                                             *)
EXTENDS Restore

CONSTANTS r1, r2, r3

ThreeRows == {r1, r2, r3}
OneRow == {r1}

=============================================================================
