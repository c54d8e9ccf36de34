------------------------------ MODULE TailLog ------------------------------
(***************************************************************************)
(* What the capture side promises, whatever threads, timers, crashes and   *)
(* restarts do: the store holds the records of every file without a gap,   *)
(* each at least once before the durable mark passes it, and a record can  *)
(* be delivered again only while the mark has not passed it.               *)
(***************************************************************************)
EXTENDS Integers

CONSTANTS Paths, Oversized, MaxRecords

VARIABLES
  written,   \* [Paths -> Nat]: records appended to each file
  copies,    \* [Paths -> [record number -> rows holding it]]
  mark       \* [Paths -> Nat]: what survives a restart

vars == <<written, copies, mark>>

Records == 1..MaxRecords

\* Every record of p up to n that can be stored is stored.
Covered(p, n) == \A i \in 1..n : i \in Oversized \/ copies[p][i] >= 1

Init ==
  /\ written = [p \in Paths |-> 0]
  /\ copies = [p \in Paths |-> [i \in Records |-> 0]]
  /\ mark = [p \in Paths |-> 0]

Write(p) ==
  /\ written[p] < MaxRecords
  /\ written' = [written EXCEPT ![p] = @ + 1]
  /\ UNCHANGED <<copies, mark>>

\* Deliver records a+1..b, with nothing missing before them.
Deliver(p) ==
  /\ \E a \in mark[p]..written[p] : \E b \in a..written[p] :
       /\ Covered(p, a)
       /\ copies' = [copies EXCEPT ![p] =
                       [i \in Records |-> IF i \in ((a + 1)..b) \ Oversized
                                            THEN @[i] + 1 ELSE @[i]]]
  /\ UNCHANGED <<written, mark>>

\* The mark moves forward, over stored records only.
Checkpoint ==
  /\ \A p \in Paths : mark'[p] >= mark[p] /\ Covered(p, mark'[p])
  /\ UNCHANGED <<written, copies>>

Next == (\E p \in Paths : Write(p) \/ Deliver(p)) \/ Checkpoint

Spec == Init /\ [][Next]_vars
=============================================================================
