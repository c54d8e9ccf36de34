------------------------------ MODULE Capture ------------------------------
(***************************************************************************)
(* The capture side of eideticd (internal/capture/watcher.go and state.go, *)
(* driven by cmd/eideticd/main.go): fsnotify events are debounced into     *)
(* timers, a fired timer parses the new tail of a file under a per-path    *)
(* lock, commits the records to the store and then records the offset,     *)
(* first in memory and then in state.json.  The daemon may be stopped      *)
(* (SIGTERM), may crash at any step and may be started again.              *)
(*                                                                         *)
(* A file is abstracted to the number of complete records appended to it:  *)
(* record i of path p is the pair <<p, i>>, and an offset is a number of   *)
(* records.  What Parse does with bytes (partial lines, truncation,        *)
(* blank lines) is the subject of module JsonlTail.                        *)
(***************************************************************************)
EXTENDS Integers, FiniteSets, Sequences

CONSTANTS
  Paths,        \* session files that match a surface's glob
  Roots,        \* sequence of sets: the paths below each configured surface
  LateDirs,     \* paths whose directory does not exist at the first boot
  Slots,        \* debounce timers alive at once (a bound: the code has none)
  None,         \* no timer
  Scanner,      \* the goroutine of Watcher.Run, parsing in scanInitial
  Oversized,    \* record numbers whose payload exceeds MaxPayloadBytes
  Rejected,     \* record numbers validateEngram refuses for another reason
  MaxRecords,   \* bound on the records appended to one file
  MaxBoots,     \* bound on the number of times the daemon is started
  MaxFaults     \* bound on I/O failures and lost events

Threads == Slots \cup {Scanner}

ASSUME ConstantsAssumption ==
  /\ Roots \in Seq(SUBSET Paths)
  /\ LateDirs \subseteq Paths
  /\ None \notin Threads /\ Scanner \notin Slots
  /\ IsFiniteSet(Slots)
  /\ MaxRecords \in Nat /\ MaxBoots \in Nat /\ MaxFaults \in Nat

VARIABLES
  \* the file system
  written,      \* [Paths -> Nat]: complete records in each file
  dirs,         \* paths whose directory exists
  disk,         \* [Paths -> Nat]: the offsets in state.json
  \* fsnotify
  watched,      \* paths whose directory has a watch
  note,         \* paths with an undelivered write event
  dirNote,      \* paths whose new directory has an undelivered create event
  \* the goroutine of Watcher.Run and its caller
  phase,        \* where Run is; "down": no process
  surface,      \* index of the surface configuration being started
  toScan,       \* files scanInitial has yet to visit
  cancelled,    \* the context is done
  flush,        \* timers flushAll took from pending and has yet to stop
  \* timers and parses
  pc,           \* [Threads -> step of the thread]
  job,          \* [Threads -> path, and the offsets its parse read and reached]
  pending,      \* [Paths -> Slots or None]: Watcher.pending
  inflight,     \* Watcher.inflight, a sync.WaitGroup
  \* State
  mem,          \* [Paths -> Nat]: State.data
  dirty,        \* State.dirty
  \* the store
  storeOpen,
  copies,       \* [Paths -> [record number -> rows holding it]]
  \* history and bounds
  boots, faults,
  lapses        \* process ends that left state.json behind the store

fsVars    == <<written, dirs>>
eventVars == <<watched, note, dirNote>>
runVars   == <<phase, surface, toScan, cancelled, flush>>
jobVars   == <<pc, job, pending, inflight>>
stateVars == <<mem, dirty, disk>>
storeVars == <<storeOpen, copies>>
boundVars == <<boots, faults, lapses>>
vars == <<fsVars, eventVars, runVars, jobVars, stateVars, storeVars, boundVars>>

Records == 1..MaxRecords
Phases  == {"down", "add", "walk", "scan", "loop", "flush", "drain",
            "closing", "closed"}

\* The steps of a debounce callback and of parseAndCommit.  "armed" is a
\* timer that has not fired, "fired" one whose callback waits for debounceMu,
\* "wait" a parse that waits for its path's lock; the later ones hold it.
Steps   == {"idle", "armed", "fired", "wait", "insert", "set", "save"}
Holding == {"insert", "set", "save"}

NoJob == [path |-> None, from |-> 0, to |-> 0]

---------------------------------------------------------------------------
(* Helpers *)

\* Variant: no per-path lock.
NeverLocked(p) == FALSE

Locked(p) == \E t \in Threads : pc[t] \in Holding /\ job[t].path = p

Batch(t) == (job[t].from + 1)..job[t].to

\* The loop that drops oversized payloads before InsertBatch.
Filtered(t) == Batch(t) \ Oversized

\* addRoot finds a surface's root, and watches what it holds, if it exists.
RootExists(k)  == Roots[k] \cap dirs # {}
RootWatched(p) == \E k \in DOMAIN Roots : p \in Roots[k] /\ Roots[k] \cap watched # {}

Idle(t) == pc[t] = "idle"

\* The end of a parse: the deferred unlock and inflight.Done.
Finish(t) ==
  /\ pc' = [pc EXCEPT ![t] = "idle"]
  /\ job' = [job EXCEPT ![t] = NoJob]
  /\ inflight' = inflight - 1

Fault == faults < MaxFaults /\ faults' = faults + 1

\* What a process end leaves of volatile state.
Die ==
  /\ phase' = "down" /\ surface' = 1 /\ toScan' = {} /\ cancelled' = FALSE
  /\ flush' = {}
  /\ watched' = {} /\ note' = {} /\ dirNote' = {}
  /\ pc' = [t \in Threads |-> "idle"]
  /\ job' = [t \in Threads |-> NoJob]
  /\ pending' = [p \in Paths |-> None]
  /\ inflight' = 0
  /\ mem' = disk /\ dirty' = FALSE
  /\ storeOpen' = FALSE
  /\ UNCHANGED <<fsVars, disk, copies, boots, faults>>

---------------------------------------------------------------------------
(* The programs being captured *)

\* A tool appends a complete record; a watched directory reports it.
Append1(p) ==
  /\ p \in dirs /\ written[p] < MaxRecords
  /\ written' = [written EXCEPT ![p] = @ + 1]
  /\ note' = IF p \in watched THEN note \cup {p} ELSE note
  /\ UNCHANGED <<dirs, watched, dirNote, runVars, jobVars, stateVars, storeVars,
                 boundVars>>

\* A tool creates the directory of a new session file.
MakeDir(p) ==
  /\ p \notin dirs
  /\ dirs' = dirs \cup {p}
  /\ dirNote' = IF RootWatched(p) THEN dirNote \cup {p} ELSE dirNote
  /\ UNCHANGED <<written, watched, note, runVars, jobVars, stateVars, storeVars,
                 boundVars>>

---------------------------------------------------------------------------
(* Starting: main opens the store and loads state.json, Run adds and scans *)
(* each surface in turn.                                                    *)

Boot ==
  /\ phase = "down" /\ boots < MaxBoots
  /\ boots' = boots + 1
  /\ phase' = "add"
  /\ mem' = disk
  /\ storeOpen' = TRUE
  /\ UNCHANGED <<fsVars, eventVars, surface, toScan, cancelled, flush, jobVars,
                 dirty, disk, copies, faults, lapses>>

\* The head of the loop over the surface configurations.
AddRoot ==
  /\ phase = "add"
  /\ IF cancelled \/ surface > Len(Roots)
       THEN phase' = "loop" /\ UNCHANGED <<surface, watched>>
     ELSE IF RootExists(surface)
       THEN /\ watched' = watched \cup (Roots[surface] \cap dirs)
            /\ phase' = "walk" /\ UNCHANGED surface
     ELSE surface' = surface + 1 /\ UNCHANGED <<phase, watched>>
  /\ UNCHANGED <<fsVars, note, dirNote, toScan, cancelled, flush, jobVars,
                 stateVars, storeVars, boundVars>>

\* Variant: no scan of what was written before the watch.
BeginScanEmpty ==
  /\ phase = "walk" /\ phase' = "scan" /\ toScan' = {}
  /\ UNCHANGED <<fsVars, eventVars, surface, cancelled, flush, jobVars, stateVars,
                 storeVars, boundVars>>

BeginScan ==
  /\ phase = "walk"
  /\ phase' = "scan"
  /\ toScan' = Roots[surface] \cap dirs
  /\ UNCHANGED <<fsVars, eventVars, surface, cancelled, flush, jobVars, stateVars,
                 storeVars, boundVars>>

ScanFile(p) ==
  /\ phase = "scan" /\ Idle(Scanner) /\ ~cancelled /\ p \in toScan
  /\ toScan' = toScan \ {p}
  /\ pc' = [pc EXCEPT ![Scanner] = "wait"]
  /\ job' = [job EXCEPT ![Scanner] = [NoJob EXCEPT !.path = p]]
  /\ inflight' = inflight + 1
  /\ UNCHANGED <<fsVars, eventVars, phase, surface, cancelled, flush, pending,
                 stateVars, storeVars, boundVars>>

EndScan ==
  /\ phase = "scan" /\ Idle(Scanner) /\ (toScan = {} \/ cancelled)
  /\ phase' = "add" /\ surface' = surface + 1 /\ toScan' = {}
  /\ UNCHANGED <<fsVars, eventVars, cancelled, flush, jobVars, stateVars,
                 storeVars, boundVars>>

---------------------------------------------------------------------------
(* The event loop.  Its select takes any ready case, so events may still   *)
(* be handled after the context is done.                                    *)

\* onEvent and scheduleParse: replace the path's timer by a new one.
OnWrite(p) ==
  /\ phase = "loop" /\ p \in note
  /\ note' = note \ {p}
  /\ \E new \in {t \in Slots : Idle(t)} :
       LET stopped == {pending[p]} \cap {t \in Slots : pc[t] = "armed"}
       IN  /\ pc' = [t \in Threads |-> IF t = new THEN "armed"
                                       ELSE IF t \in stopped THEN "idle" ELSE pc[t]]
           /\ job' = [t \in Threads |-> IF t = new THEN [NoJob EXCEPT !.path = p]
                                        ELSE IF t \in stopped THEN NoJob ELSE job[t]]
           /\ inflight' = inflight - Cardinality(stopped) + 1
           /\ pending' = [pending EXCEPT ![p] = new]
  /\ UNCHANGED <<fsVars, watched, dirNote, runVars, stateVars, storeVars, boundVars>>

\* onEvent for a new directory: watch it and return.
OnMakeDir(p) ==
  /\ phase = "loop" /\ p \in dirNote
  /\ dirNote' = dirNote \ {p}
  /\ watched' = watched \cup {p}
  /\ UNCHANGED <<fsVars, note, runVars, jobVars, stateVars, storeVars, boundVars>>

\* fsnotify's queue overflows: the event is gone, the error is logged.
LoseEvent(p) ==
  /\ phase \in {"add", "walk", "scan", "loop"} /\ p \in note
  /\ note' = note \ {p}
  /\ Fault
  /\ UNCHANGED <<fsVars, watched, dirNote, runVars, jobVars, stateVars, storeVars,
                 boots, lapses>>

---------------------------------------------------------------------------
(* A debounce timer, then parseAndCommit (threads of Slots and the scan)   *)

Fire(t) ==
  /\ pc[t] = "armed"
  /\ pc' = [pc EXCEPT ![t] = "fired"]
  /\ UNCHANGED <<fsVars, eventVars, runVars, job, pending, inflight, stateVars,
                 storeVars, boundVars>>

\* The callback deletes the entry of its path, whichever timer is in it.
Unregister(t) ==
  /\ pc[t] = "fired"
  /\ pending' = [pending EXCEPT ![job[t].path] = None]
  /\ pc' = [pc EXCEPT ![t] = "wait"]
  /\ UNCHANGED <<fsVars, eventVars, runVars, job, inflight, stateVars, storeVars,
                 boundVars>>

\* Variant: the offset is taken for the first unread record.
ParseOffByOne(t) ==
  /\ pc[t] = "wait" /\ ~Locked(job[t].path)
  /\ LET p == job[t].path IN
       IF mem[p] = written[p]
         THEN Finish(t)
         ELSE /\ job' = [job EXCEPT ![t].from = mem[p] + 1, ![t].to = written[p]]
              /\ pc' = [pc EXCEPT ![t] = "insert"]
              /\ UNCHANGED inflight
  /\ UNCHANGED <<fsVars, eventVars, runVars, pending, stateVars, storeVars,
                 boundVars>>

\* Take the path's lock, read the offset, parse up to the end of the file.
Parse(t) ==
  /\ pc[t] = "wait" /\ ~Locked(job[t].path)
  /\ LET p == job[t].path IN
       IF mem[p] = written[p]
         THEN Finish(t)
         ELSE /\ job' = [job EXCEPT ![t].from = mem[p], ![t].to = written[p]]
              /\ pc' = [pc EXCEPT ![t] = "insert"]
              /\ UNCHANGED inflight
  /\ UNCHANGED <<fsVars, eventVars, runVars, pending, stateVars, storeVars,
                 boundVars>>

\* The file cannot be opened or read: log and give up until the next event.
ParseFails(t) ==
  /\ pc[t] = "wait" /\ ~Locked(job[t].path)
  /\ Fault
  /\ Finish(t)
  /\ UNCHANGED <<fsVars, eventVars, runVars, pending, stateVars, storeVars,
                 boots, lapses>>

\* One transaction holds the batch.  A transaction begun before the context
\* was done may still commit.
Insert(t) ==
  /\ pc[t] = "insert"
  /\ Filtered(t) \cap Rejected = {}
  /\ storeOpen \/ Filtered(t) = {}
  /\ copies' = [copies EXCEPT ![job[t].path] =
                  [i \in Records |-> IF i \in Filtered(t) THEN @[i] + 1 ELSE @[i]]]
  /\ pc' = [pc EXCEPT ![t] = "set"]
  /\ UNCHANGED <<fsVars, eventVars, runVars, job, pending, inflight, stateVars,
                 storeOpen, boundVars>>

\* Variant: the error is logged and the offset recorded all the same.
InsertFailsForward(t) ==
  /\ pc[t] = "insert" /\ Filtered(t) # {}
  /\ Fault
  /\ pc' = [pc EXCEPT ![t] = "set"]
  /\ UNCHANGED <<fsVars, eventVars, runVars, job, pending, inflight, stateVars,
                 storeVars, boots, lapses>>

\* InsertBatch refuses a row, or fails: nothing is committed, the offset stays.
InsertFails(t) ==
  /\ pc[t] = "insert" /\ Filtered(t) # {}
  /\ IF Filtered(t) \cap Rejected # {} \/ cancelled \/ ~storeOpen
       THEN UNCHANGED faults
       ELSE Fault
  /\ Finish(t)
  /\ UNCHANGED <<fsVars, eventVars, runVars, pending, stateVars, storeVars,
                 boots, lapses>>

\* Variant: Set forgets to mark the state dirty.
SetOffsetClean(t) ==
  /\ pc[t] = "set"
  /\ mem' = [mem EXCEPT ![job[t].path] = job[t].to]
  /\ pc' = [pc EXCEPT ![t] = "save"]
  /\ UNCHANGED <<fsVars, eventVars, runVars, job, pending, inflight, disk, dirty,
                 storeVars, boundVars>>

SetOffset(t) ==
  /\ pc[t] = "set"
  /\ mem' = [mem EXCEPT ![job[t].path] = job[t].to]
  /\ dirty' = TRUE
  /\ pc' = [pc EXCEPT ![t] = "save"]
  /\ UNCHANGED <<fsVars, eventVars, runVars, job, pending, inflight, disk,
                 storeVars, boundVars>>

\* State.Save writes every path's offset and does nothing when not dirty.
Save == IF dirty THEN disk' = mem /\ dirty' = FALSE
                 ELSE UNCHANGED <<disk, dirty>>

SaveOffset(t) ==
  /\ pc[t] = "save"
  /\ Save
  /\ Finish(t)
  /\ UNCHANGED <<fsVars, eventVars, runVars, pending, mem, storeVars, boundVars>>

\* The error is logged; State stays dirty.
SaveFails(t) ==
  /\ pc[t] = "save" /\ dirty
  /\ Fault
  /\ Finish(t)
  /\ UNCHANGED <<fsVars, eventVars, runVars, pending, stateVars, storeVars, boots,
                 lapses>>

---------------------------------------------------------------------------
(* Stopping *)

Cancel ==
  /\ phase \in {"add", "walk", "scan", "loop"} /\ ~cancelled
  /\ cancelled' = TRUE
  /\ UNCHANGED <<fsVars, eventVars, phase, surface, toScan, flush, jobVars,
                 stateVars, storeVars, boundVars>>

\* flushAll: take the pending timers, stop each, save.
FlushTake ==
  /\ phase = "loop" /\ cancelled
  /\ phase' = "flush"
  /\ flush' = {pending[p] : p \in Paths} \ {None}
  /\ pending' = [p \in Paths |-> None]
  /\ UNCHANGED <<fsVars, eventVars, surface, toScan, cancelled, pc, job, inflight,
                 stateVars, storeVars, boundVars>>

\* A variant for comparison: the slot of a stopped timer is kept.
FlushStopNoDone(t) ==
  /\ phase = "flush" /\ t \in flush
  /\ flush' = flush \ {t}
  /\ pc' = IF pc[t] = "armed" THEN [pc EXCEPT ![t] = "idle"] ELSE pc
  /\ UNCHANGED <<fsVars, eventVars, phase, surface, toScan, cancelled, job, inflight,
                 pending, stateVars, storeVars, boundVars>>

FlushStop(t) ==
  /\ phase = "flush" /\ t \in flush
  /\ flush' = flush \ {t}
  /\ IF pc[t] = "armed" THEN Finish(t) ELSE UNCHANGED <<pc, job, inflight>>
  /\ UNCHANGED <<fsVars, eventVars, phase, surface, toScan, cancelled, pending,
                 stateVars, storeVars, boundVars>>

FlushSave ==
  /\ phase = "flush" /\ flush = {}
  /\ phase' = "drain"
  /\ \/ Save /\ UNCHANGED faults
     \/ dirty /\ Fault /\ UNCHANGED <<disk, dirty>>
  /\ UNCHANGED <<fsVars, eventVars, surface, toScan, cancelled, flush, jobVars, mem,
                 storeVars, boots, lapses>>

\* Variant: Run returns without waiting.
DrainedNoWait ==
  /\ phase = "drain"
  /\ phase' = "closing"
  /\ UNCHANGED <<fsVars, eventVars, surface, toScan, cancelled, flush, jobVars,
                 stateVars, storeVars, boundVars>>

\* The deferred inflight.Wait; then Run returns and captureDone is closed.
Drained ==
  /\ phase = "drain" /\ inflight = 0
  /\ phase' = "closing"
  /\ UNCHANGED <<fsVars, eventVars, surface, toScan, cancelled, flush, jobVars,
                 stateVars, storeVars, boundVars>>

\* main's deferred Store.Close.
CloseStore ==
  /\ phase = "closing"
  /\ phase' = "closed" /\ storeOpen' = FALSE
  /\ UNCHANGED <<fsVars, eventVars, surface, toScan, cancelled, flush, jobVars,
                 stateVars, copies, boundVars>>

Exit ==
  /\ phase = "closed"
  /\ Die
  /\ lapses' = IF disk = mem THEN lapses ELSE lapses + 1

Crash ==
  /\ phase # "down"
  /\ Die
  /\ lapses' = lapses + 1

---------------------------------------------------------------------------
Init ==
  /\ written = [p \in Paths |-> 0] /\ dirs = Paths \ LateDirs
  /\ disk = [p \in Paths |-> 0]
  /\ watched = {} /\ note = {} /\ dirNote = {}
  /\ phase = "down" /\ surface = 1 /\ toScan = {} /\ cancelled = FALSE /\ flush = {}
  /\ pc = [t \in Threads |-> "idle"] /\ job = [t \in Threads |-> NoJob]
  /\ pending = [p \in Paths |-> None] /\ inflight = 0
  /\ mem = [p \in Paths |-> 0] /\ dirty = FALSE
  /\ storeOpen = FALSE
  /\ copies = [p \in Paths |-> [i \in Records |-> 0]]
  /\ boots = 0 /\ faults = 0 /\ lapses = 0

ThreadStep(t) ==
  \/ Fire(t) \/ Unregister(t) \/ Parse(t) \/ Insert(t) \/ SetOffset(t) \/ SaveOffset(t)

RunStep ==
  \/ AddRoot \/ BeginScan \/ EndScan \/ FlushTake \/ FlushSave \/ Drained
  \/ CloseStore \/ Exit
  \/ \E p \in Paths : ScanFile(p)
  \/ \E t \in Slots : FlushStop(t)

Next ==
  \/ \E p \in Paths : Append1(p) \/ MakeDir(p) \/ OnWrite(p) \/ OnMakeDir(p)
                        \/ LoseEvent(p)
  \/ \E t \in Threads : ThreadStep(t) \/ ParseFails(t) \/ InsertFails(t) \/ SaveFails(t)
  \/ RunStep \/ Boot \/ Cancel \/ Crash

Spec == Init /\ [][Next]_vars

\* Goroutines and timers run; a done context or a queued event is eventually
\* taken by the loop's select; a stopped daemon is started again by its
\* service manager while the bound on boots allows.  Nothing makes a tool
\* write, a signal arrive or a fault happen.
Fairness ==
  /\ \A t \in Threads : WF_vars(ThreadStep(t) \/ InsertFails(t))
  /\ \A p \in Paths : WF_vars(OnWrite(p)) /\ WF_vars(OnMakeDir(p))
  /\ WF_vars(RunStep) /\ WF_vars(Boot)

FairSpec == Spec /\ Fairness

---------------------------------------------------------------------------
(* Properties *)

FlagsOK == cancelled \in BOOLEAN /\ dirty \in BOOLEAN /\ storeOpen \in BOOLEAN
FilesOK ==
  /\ written \in [Paths -> 0..MaxRecords]
  /\ disk \in [Paths -> 0..MaxRecords] /\ mem \in [Paths -> 0..MaxRecords]
RunOK ==
  /\ dirs \subseteq Paths /\ watched \subseteq Paths
  /\ note \subseteq Paths /\ dirNote \subseteq Paths /\ toScan \subseteq Paths
  /\ phase \in Phases /\ surface \in Nat \ {0} /\ flush \subseteq Slots
JobsOK ==
  /\ pc \in [Threads -> Steps]
  /\ job \in [Threads -> [path : Paths \cup {None}, from : 0..MaxRecords,
                          to : 0..MaxRecords]]
  /\ \A t \in Threads : ~Idle(t) => job[t].path \in Paths
  /\ pending \in [Paths -> Slots \cup {None}]
StoreOK  == copies \in [Paths -> [Records -> Nat]]
BoundsOK == boots \in 0..MaxBoots /\ faults \in 0..MaxFaults /\ lapses \in Nat

\* A negative counter makes WaitGroup.Done panic.
TypeOK ==
  /\ FlagsOK /\ FilesOK /\ RunOK /\ JobsOK /\ StoreOK /\ BoundsOK
  /\ inflight \in Nat

\* The WaitGroup counts exactly the armed timers and the running parses: were
\* it higher Run would never return, were it lower the store would be closed
\* under a parse (watcher.go, the inflight field and scheduleParse).
InflightCounts == inflight = Cardinality({t \in Threads : ~Idle(t)})

\* Once main has closed the store no timer can fire and no parse is running
\* (the shutdown contract of Watcher.Run, issue #17).
StoreOutlivesParses == phase = "closed" => \A t \in Threads : Idle(t)

Covered(p, n) == \A i \in 1..n : i \in Oversized \/ copies[p][i] >= 1

\* An offset, in memory or in state.json, never passes a record that is not
\* in the store, whoever saved it: a restart loses nothing.
OffsetsCovered == \A p \in Paths : Covered(p, disk[p]) /\ Covered(p, mem[p])

\* A record is stored twice only if some process ended with state.json behind
\* the store: concurrent timers never insert the same bytes (parseMu).
DuplicatesNeedLapse == \A p \in Paths : \A i \in Records : copies[p][i] <= 1 + lapses

\* After orderly stops only, and without I/O errors, state.json covers all
\* that is stored, so the next start inserts nothing again.
CleanStopIsDurable ==
  (phase = "closed" /\ faults = 0 /\ lapses = 0) =>
    \A p \in Paths : \A i \in Records : copies[p][i] >= 1 => i <= disk[p]

\* No interleaving of parses and saves moves an offset backwards while the
\* process lives, and none ever moves a saved one backwards.
OffsetsNeverRegress ==
  [][\A p \in Paths : /\ disk'[p] >= disk[p]
                      /\ phase' # "down" => mem'[p] >= mem[p]]_vars

\* Every record appended is stored, unless it is too large or the daemon goes
\* down; then the obligation starts again at the next boot (scanInitial).
EventuallyCaptured ==
  \A p \in Paths : \A i \in Records :
    (i <= written[p]) ~> (i \in Oversized \/ copies[p][i] >= 1 \/ phase = "down")

\* A stop signal ends the process: the drain never waits for ever.
ShutdownCompletes == cancelled ~> (phase = "down")

\* The capture side is an at-least-once tail of every file.
Log == INSTANCE TailLog WITH mark <- disk
TailSpec == Log!Spec

\* scheduleParse: "if multiple events arrive for the same path within
\* w.debounce, only one parseAndCommit fires": a path has at most one armed
\* timer.
OneTimerPerPath ==
  \A s, t \in Slots :
    (pc[s] = "armed" /\ pc[t] = "armed" /\ job[s].path = job[t].path) => s = t
=============================================================================
