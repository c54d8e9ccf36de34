----------------------------- MODULE MCJsonlTail -----------------------------
(* Instances of JsonlTail for TLC: transcripts over one letter and the bytes *)
(* that mean something to Parse.                                             *)
EXTENDS JsonlTail

CONSTANT x

OneLetter == {x}
TwoBytes == {Lead, Trail}

=============================================================================
