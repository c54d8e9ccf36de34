----------------------------- MODULE MCClients -----------------------------
(* Instances of Clients for TLC.                                           *)
EXTENDS Clients, TLC

CONSTANTS a, b, x, y, z, q1, q2

\* A caller of POST /engrams may give a time before 1970.
TwoTimes == {-1, 1}

\* Days of both surfaces, none of them kept for ever; and a policy that also
\* names the empty surface.
Days(S) == [Surfaces -> S] \cup {[s \in {t, NoName} |-> 2] : t \in Surfaces}
ShortPolicies == Days(0..2)
LongPolicies  == Days({0, 4})

Symmetric == Permutations(Surfaces) \cup Permutations(Asks)
=============================================================================
