------------------------------ MODULE MCStore ------------------------------
(* Rows for Store. *)
EXTENDS Store

CONSTANTS a, b, p1, p2

TwoRows == [i \in Ids |-> IF i = 1 THEN a ELSE IF i = 2 THEN b ELSE None]
=============================================================================
