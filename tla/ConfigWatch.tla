----------------------------- MODULE ConfigWatch -----------------------------
(* The hot reload of sync.json: main's LoadConfig at start (cmd/eideticd/    *)
(* main.go), and WatchConfig's event loop, debounce timer and callback       *)
(* (internal/sync/syncer.go). Which Syncer is in force is all that is kept   *)
(* of it; Sync models what a Syncer does.                                    *)
EXTENDS Integers, FiniteSets

CONSTANTS
  Valid,      \* contents of sync.json that LoadConfig accepts
  Broken,     \* contents it rejects: cut short, not JSON, a field missing
  Off,        \* no file; also: sync is off
  Callbacks,  \* runs of the timer's function at one time
  Gap,        \* sync.json may change between main's LoadConfig and the watch
  Stalls,     \* a callback may take longer than the debounce, 300 ms
  MaxEdits,   \* bounds: changes of sync.json,
  MaxErrors   \*   errors that fsnotify reports

ASSUME ConfigAssumption ==
  /\ Broken \notin Valid /\ Off \notin Valid \union {Broken}
  /\ IsFiniteSet(Callbacks) /\ Callbacks # {}
  /\ Gap \in BOOLEAN /\ Stalls \in BOOLEAN
  /\ MaxEdits \in Nat /\ MaxErrors \in Nat

VARIABLES
  file,    \* what sync.json contains
  cur,     \* the configuration of the Syncer in force
  main,    \* "start", "loaded", "watching", or "deaf" when the watch has ended
  events,  \* undelivered events on sync.json
  timer,   \* "off" or "armed"
  call,    \* [Callbacks -> "free", "run", or what LoadConfig has returned]
  edits, errors

vars == <<file, cur, main, events, timer, call, edits, errors>>

Contents == Valid \union {Broken, Off}

(* LoadConfig, and onChange(nil) for its errors and for no file.             *)
Loaded(c) == IF c \in Valid THEN c ELSE Off

Init ==
  /\ file \in Contents
  /\ cur = Off
  /\ main = "start"
  /\ events = 0
  /\ timer = "off"
  /\ call = [k \in Callbacks |-> "free"]
  /\ edits = 0 /\ errors = 0

---------------------------------------------------------------------------
(* A create, write, rename or remove of sync.json.                           *)
Edit ==
  /\ edits < MaxEdits
  /\ main = "loaded" => Gap
  /\ edits' = edits + 1
  /\ file' \in Contents \ {file}
  /\ events' = IF main = "watching" THEN events + 1 ELSE events
  /\ UNCHANGED <<cur, main, timer, call, errors>>

(* main, before it starts anything else.                                     *)
LoadAtStart ==
  /\ main = "start"
  /\ main' = "loaded"
  /\ cur' = Loaded(file)
  /\ UNCHANGED <<file, events, timer, call, edits, errors>>

(* The goroutine started near main's end gets to w.Add(dataDir).             *)
Watch ==
  /\ main = "loaded"
  /\ main' = "watching"
  /\ UNCHANGED <<file, cur, events, timer, call, edits, errors>>

\* A variant for comparison: an event whose file is gone is dropped.
EventNotRemove ==
  /\ main = "watching"
  /\ events > 0
  /\ events' = events - 1
  /\ timer' = IF file = Off THEN timer ELSE "armed"
  /\ UNCHANGED <<file, cur, main, call, edits, errors>>

(* fire: the timer is stopped, if it has not gone off, and armed anew.       *)
Event ==
  /\ main = "watching"
  /\ events > 0
  /\ events' = events - 1
  /\ timer' = "armed"
  /\ UNCHANGED <<file, cur, main, call, edits, errors>>

(* 300 ms pass without an event.                                             *)
Expire(k) ==
  /\ timer = "armed"
  /\ call[k] = "free"
  /\ Stalls \/ \A j \in Callbacks : call[j] = "free"
  /\ timer' = "off"
  /\ call' = [call EXCEPT ![k] = "run"]
  /\ UNCHANGED <<file, cur, main, events, edits, errors>>

LoadConfig(k) ==
  /\ call[k] = "run"
  /\ call' = [call EXCEPT ![k] = Loaded(file)]
  /\ UNCHANGED <<file, cur, main, events, timer, edits, errors>>

(* main's callback: a new Syncer under syncerMu, or none.                    *)
OnChange(k) ==
  /\ call[k] \in Valid \union {Off}
  /\ cur' = call[k]
  /\ call' = [call EXCEPT ![k] = "free"]
  /\ UNCHANGED <<file, main, events, timer, edits, errors>>

(* The watcher reports an error, such as an overflow of its queue, and       *)
(* WatchConfig returns; a timer that is armed still goes off.                *)
WatchError ==
  /\ main = "watching"
  /\ errors < MaxErrors
  /\ errors' = errors + 1
  /\ main' = "deaf"
  /\ events' = 0
  /\ UNCHANGED <<file, cur, timer, call, edits>>

Callback(k) == Expire(k) \/ LoadConfig(k) \/ OnChange(k)

Next ==
  \/ Edit \/ LoadAtStart \/ Watch \/ Event \/ WatchError
  \/ \E k \in Callbacks : Callback(k)

---------------------------------------------------------------------------
TypeOK ==
  /\ file \in Contents
  /\ cur \in Valid \union {Off}
  /\ main \in {"start", "loaded", "watching", "deaf"}
  /\ events \in 0..MaxEdits
  /\ timer \in {"off", "armed"}
  /\ \A k \in Callbacks : call[k] \in {"free", "run"} \union Valid \union {Off}
  /\ edits \in 0..MaxEdits /\ errors \in 0..MaxErrors
=============================================================================
