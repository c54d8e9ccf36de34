------------------------------ MODULE MCBroker ------------------------------
(* Model values for Broker. *)
EXTENDS Broker

CONSTANTS s1, s2, s3, main, hold, prefixed, w1, w2

StrippedNames == [d \in Dirs |-> IF d = prefixed THEN hold ELSE d]
=============================================================================
