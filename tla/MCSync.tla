------------------------------- MODULE MCSync -------------------------------
(* Instances of Sync for TLC: one or two Syncers of the daemon and the       *)
(* one-shot process.                                                         *)
EXTENDS Sync

CONSTANTS s1, s2

One == {s1, Cli}
Two == {s1, s2, Cli}

=============================================================================
