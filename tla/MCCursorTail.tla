---------------------------- MODULE MCCursorTail ----------------------------
(* Instances of CursorTail for TLC.                                        *)
EXTENDS CursorTail

CONSTANTS u, v, z, n1, n2, cursor

\* Two blocks, which are stored as chunks, or one while they are written, and
\* three, which are too many.
TwoContents == {<<u, v>>, <<v, v, v>>}

Hook(n, s, kind, finds, interval) ==
  [name |-> n, surface |-> s, kind |-> kind, finds |-> finds, interval |-> interval]

\* Two hooks of one name, one of them a regex; and a regex that does not compile.
ThreeHooks == <<Hook(n1, AnySurface, "text", {u}, 2), Hook(n1, cursor, "regex", {v}, 1),
                Hook(n2, AnySurface, "bad", {}, 0)>>

\* The one that does not compile has another's name.
NamedAlike == <<Hook(n1, AnySurface, "regex", {u}, 0), Hook(n1, AnySurface, "bad", {}, 0)>>
=============================================================================
