-------------------------------- MODULE Sync --------------------------------
(* Cloud backup of the store: the Syncer (internal/sync/syncer.go), the poll *)
(* and hot-reload goroutines of cmd/eideticd/main.go, the one-shot           *)
(* --sync-now process, and the Worker they upload to.                        *)
EXTENDS Worker, FiniteSets

CONSTANTS
  Cli,         \* the Syncer of an eideticd --sync-now process
  None,        \* no Syncer
  Torn,        \* contents of a file that json.Unmarshal does not accept
  Absent,      \* no file
  Interval,    \* the interval of the config, in polls of the main loop
  MaxHistory,  \* maxBackupHistory; 10 in the code
  SizeLimit,   \* rows that fit in maxDBSize, 500 MB
  MaxRows,     \* rows the store holds at most
  MaxWrites,   \* bounds on the environment: writes that change the store,
  Busy,        \*   or, if TRUE, writes without end,
  MaxFaults,   \*   uploads that fail,
  MaxReloads,  \*   changes of sync.json,
  MaxRuns,     \*   runs of --sync-now,
  MaxEvents,   \*   those three together,
  MaxCrashes   \*   ends of the daemon process

ASSUME SyncAssumption ==
  /\ Cli \in Uploaders /\ None \notin Uploaders
  /\ \E s \in Uploaders : s # Cli
  /\ Interval \in Nat \ {0} /\ MaxHistory \in Nat \ {0}
  /\ Busy \in BOOLEAN
  /\ {SizeLimit, MaxRows, MaxWrites, MaxFaults, MaxReloads, MaxRuns,
     MaxEvents, MaxCrashes} \subseteq Nat

VARIABLES
  \* the store: number of the last committed write, and rows
  ver, count,
  \* main: the Syncer in force, the ticker's buffered tick, the Syncer that
  \* TriggerIfDue runs on, and the goroutines that are to call SyncNow
  cur, due, polled, kicked,
  \* the Syncers: who holds mu, polls since lastSync, lastRow
  mu, age, lastRow,
  \* the upload of each Syncer: its next step, the count TriggerIfDue saw,
  \* the snapshot, the key of the answer, and the history it has loaded
  pc, seen, snap, key, prev,
  \* sync-state.json and sync-state.json.tmp, and the name that the file a
  \* Syncer writes to has now
  state, tmp, fd,
  \* polls since the last upload that any Syncer of the daemon saw succeed
  \* (known to no Syncer), and the bounds' counters
  quiet, faults, reloads, runs, crashes

storeVars == <<ver, count>>
mainVars  == <<cur, due, polled, kicked>>
synVars   == <<mu, age, lastRow>>
upVars    == <<pc, seen, snap, key, prev>>
fileVars  == <<state, tmp, fd>>
boundVars == <<faults, reloads, runs, crashes>>
vars == <<bucket, storeVars, mainVars, synVars, upVars, fileVars, quiet, boundVars>>

Daemon == Uploaders \ {Cli}

\* The bound on failures, reloads and runs together.
Spare == faults + reloads + runs < MaxEvents

(* LoadSyncState: the history, newest first. A file that does not exist      *)
(* reads as none, and so does a torn one, since upload ignores the error.    *)
History(f) == IF f \in {Torn, Absent} THEN <<>> ELSE f

Record(e, h) == SubSeq(<<e>> \o h, 1, IF Len(h) < MaxHistory THEN Len(h) + 1 ELSE MaxHistory)

Idle(s) == pc[s] = "idle" /\ mu[s] = "free"
Fresh(s) == s \in Daemon /\ s # cur /\ s # polled /\ s \notin kicked /\ Idle(s)

Init ==
  /\ bucket = <<>>
  /\ ver = 0 /\ count = 0
  /\ cur \in Daemon \union {None}
  /\ due = FALSE /\ polled = None /\ kicked = {}
  /\ mu = [s \in Uploaders |-> "free"]
  /\ age = [s \in Uploaders |-> Interval]
  /\ lastRow = [s \in Uploaders |-> 0]
  /\ pc = [s \in Uploaders |-> "idle"]
  /\ seen = [s \in Uploaders |-> 0]
  /\ snap = [s \in Uploaders |-> 0]
  /\ key = [s \in Uploaders |-> NoKey]
  /\ prev = [s \in Uploaders |-> <<>>]
  /\ state = Absent /\ tmp = Absent
  /\ fd = [s \in Uploaders |-> "none"]
  /\ quiet = Interval
  /\ faults = 0 /\ reloads = 0 /\ runs = 0 /\ crashes = 0

---------------------------------------------------------------------------
(* The store is written by capture, ingest, purge and delete.                *)
Write ==
  /\ ver < MaxWrites \/ Busy
  /\ ver' = IF ver < MaxWrites THEN ver + 1 ELSE ver
  /\ count' \in {count + 1, count - 1} \intersect 0..MaxRows
  /\ UNCHANGED <<bucket, mainVars, synVars, upVars, fileVars, quiet, boundVars>>

(* One minute passes. The ticker's channel holds one tick.                   *)
Older(n) == IF n < Interval THEN n + 1 ELSE n

Tick ==
  /\ due' = TRUE
  /\ age' = [s \in Uploaders |-> Older(age[s])]
  /\ quiet' = Older(quiet)
  /\ UNCHANGED <<bucket, storeVars, cur, polled, kicked, mu, lastRow, upVars, fileVars, boundVars>>

(* The poll goroutine takes the tick and the Syncer in force.                *)
Poll ==
  /\ due /\ polled = None
  /\ due' = FALSE
  /\ polled' = cur
  /\ UNCHANGED <<bucket, storeVars, cur, kicked, synVars, upVars, fileVars, quiet, boundVars>>

(* TriggerIfDue under mu, up to upload: not yet due; not idle since the last *)
(* look; or start the upload.                                                *)
Look(s) == polled = s /\ mu[s] = "free"

NotDue(s) ==
  /\ Look(s)
  /\ age[s] < Interval
  /\ polled' = None
  /\ UNCHANGED <<bucket, storeVars, cur, due, kicked, synVars, upVars, fileVars, quiet, boundVars>>

\* A variant for comparison: the count is not noted.
NotIdleForgets(s) ==
  /\ Look(s)
  /\ age[s] = Interval
  /\ count # lastRow[s]
  /\ polled' = None
  /\ UNCHANGED <<bucket, storeVars, cur, due, kicked, synVars, upVars, fileVars, quiet, boundVars>>

NotIdle(s) ==
  /\ Look(s)
  /\ age[s] = Interval
  /\ count # lastRow[s]
  /\ lastRow' = [lastRow EXCEPT ![s] = count]
  /\ polled' = None
  /\ UNCHANGED <<bucket, storeVars, cur, due, kicked, mu, age, upVars, fileVars, quiet, boundVars>>

TriggerUpload(s) ==
  /\ Look(s)
  /\ age[s] = Interval
  /\ count = lastRow[s]
  /\ mu' = [mu EXCEPT ![s] = "poll"]
  /\ pc' = [pc EXCEPT ![s] = "snapshot"]
  /\ seen' = [seen EXCEPT ![s] = count]
  /\ UNCHANGED <<bucket, storeVars, mainVars, age, lastRow, snap, key, prev, fileVars, quiet, boundVars>>

(* A goroutine of the hot reload, or the one-shot process, calls SyncNow.    *)
SyncNow(s) ==
  /\ s \in kicked
  /\ mu[s] = "free"
  /\ kicked' = kicked \ {s}
  /\ mu' = [mu EXCEPT ![s] = "now"]
  /\ pc' = [pc EXCEPT ![s] = "snapshot"]
  /\ UNCHANGED <<bucket, storeVars, cur, due, polled, age, lastRow, seen, snap, key, prev, fileVars, quiet, boundVars>>

---------------------------------------------------------------------------
(* upload, cut where another process can step in between.                    *)

Goto(s, step) == pc' = [pc EXCEPT ![s] = step]

(* upload returns: mu is released, its locals die, and only a TriggerIfDue   *)
(* that succeeded notes when and at how many rows.                           *)
Return(s, ok) ==
  /\ Goto(s, "idle")
  /\ mu' = [mu EXCEPT ![s] = "free"]
  /\ polled' = IF mu[s] = "poll" THEN None ELSE polled
  /\ age' = [age EXCEPT ![s] = IF ok /\ mu[s] = "poll" THEN 0 ELSE @]
  /\ lastRow' = [lastRow EXCEPT ![s] = IF ok /\ mu[s] = "poll" THEN seen[s] ELSE @]
  /\ seen' = [seen EXCEPT ![s] = 0]
  /\ snap' = [snap EXCEPT ![s] = 0]
  /\ key' = [key EXCEPT ![s] = NoKey]
  /\ prev' = [prev EXCEPT ![s] = <<>>]

(* snapshotDB: VACUUM INTO copies one committed version. A larger one than   *)
(* the limit is an error, at every attempt.                                  *)
Snapshot(s) ==
  /\ pc[s] = "snapshot"
  /\ count <= SizeLimit
  /\ snap' = [snap EXCEPT ![s] = ver]
  /\ Goto(s, "post")
  /\ UNCHANGED <<bucket, storeVars, mainVars, synVars, seen, key, prev, fileVars, quiet, boundVars>>

TooLarge(s) ==
  /\ pc[s] = "snapshot"
  /\ count > SizeLimit
  /\ Return(s, FALSE)
  /\ UNCHANGED <<bucket, storeVars, cur, due, kicked, fileVars, quiet, boundVars>>

Post(s) ==
  /\ pc[s] = "post"
  /\ Receive(s, snap[s])
  /\ Goto(s, "wait")
  /\ UNCHANGED <<storeVars, mainVars, synVars, seen, snap, key, prev, fileVars, quiet, boundVars>>

(* The snapshot, the size check, the request or its answer fails, the answer *)
(* is not a 201, or the client's 120 s pass: the upload counts as failed,    *)
(* whatever the Worker makes of it.                                          *)
UploadFails(s) ==
  /\ pc[s] \in {"snapshot", "post", "wait"}
  /\ faults < MaxFaults /\ Spare
  /\ faults' = faults + 1
  /\ HangUp(s)
  /\ Return(s, FALSE)
  /\ UNCHANGED <<storeVars, cur, due, kicked, fileVars, quiet, reloads, runs, crashes>>

Created(s) ==
  /\ pc[s] = "wait"
  /\ \E i \in DOMAIN bucket :
       /\ bucket[i].by = s
       /\ Answer(i)
       /\ key' = [key EXCEPT ![s] = BackupKeyHeader(i)]
  /\ quiet' = IF s = Cli THEN quiet ELSE 0
  /\ Goto(s, "load")
  /\ UNCHANGED <<storeVars, mainVars, synVars, seen, snap, prev, fileVars, boundVars>>

LoadSyncState(s) ==
  /\ pc[s] = "load"
  /\ prev' = [prev EXCEPT ![s] = History(state)]
  /\ Goto(s, "create")
  /\ UNCHANGED <<bucket, storeVars, mainVars, synVars, seen, snap, key, fileVars, quiet, boundVars>>

(* saveSyncState: os.WriteFile opens and truncates the one temporary file    *)
(* all Syncers share, then writes; os.Rename moves whatever has that name.   *)
CreateTmp(s) ==
  /\ pc[s] = "create"
  /\ tmp' = Torn
  /\ fd' = [fd EXCEPT ![s] = "tmp"]
  /\ Goto(s, "write")
  /\ UNCHANGED <<bucket, storeVars, mainVars, synVars, seen, snap, key, prev, state, quiet, boundVars>>

(* A write over what another Syncer has written since may leave its tail.    *)
WriteTmp(s) ==
  LET new == Record([snap |-> snap[s], key |-> key[s]], prev[s])
      over(old) == IF old = Torn THEN {new} ELSE {new, Torn}
  IN /\ pc[s] = "write"
     /\ CASE fd[s] = "tmp"   -> tmp' \in over(tmp) /\ UNCHANGED state
          [] fd[s] = "state" -> state' \in over(state) /\ UNCHANGED tmp
          [] OTHER           -> UNCHANGED <<state, tmp>>
     /\ Goto(s, "rename")
     /\ UNCHANGED <<bucket, storeVars, mainVars, synVars, seen, snap, key, prev, fd, quiet, boundVars>>

(* The rename fails when another Syncer has moved the file; upload ignores   *)
(* the error and returns nil.                                                *)
Moved(s) == [t \in Uploaders |-> CASE t = s          -> "none"
                                   [] fd[t] = "tmp"   -> "state"
                                   [] fd[t] = "state" -> "gone"
                                   [] OTHER           -> fd[t]]

RenameTmp(s) ==
  /\ pc[s] = "rename"
  /\ IF tmp = Absent
     THEN /\ fd' = [fd EXCEPT ![s] = "none"]
          /\ UNCHANGED <<state, tmp>>
     ELSE /\ state' = tmp
          /\ tmp' = Absent
          /\ fd' = Moved(s)
  /\ Return(s, TRUE)
  /\ UNCHANGED <<bucket, storeVars, cur, due, kicked, quiet, boundVars>>

---------------------------------------------------------------------------
(* sync.json changes: main puts a new Syncer, or none, in force and starts   *)
(* SyncNow on it. The one it replaces finishes what it is doing.             *)

New(s) ==
  /\ age' = [age EXCEPT ![s] = Interval]
  /\ lastRow' = [lastRow EXCEPT ![s] = 0]

Reload ==
  /\ reloads < MaxReloads /\ Spare
  /\ reloads' = reloads + 1
  /\ \/ \E s \in Daemon : Fresh(s) /\ cur' = s /\ kicked' = kicked \union {s} /\ New(s)
     \/ cur' = None /\ UNCHANGED <<kicked, age, lastRow>>
  /\ UNCHANGED <<bucket, storeVars, due, polled, mu, upVars, fileVars, quiet, faults, runs, crashes>>

RunCli ==
  /\ runs < MaxRuns /\ Spare
  /\ runs' = runs + 1
  /\ Idle(Cli) /\ Cli \notin kicked
  /\ kicked' = kicked \union {Cli}
  /\ New(Cli)
  /\ UNCHANGED <<bucket, storeVars, cur, due, polled, mu, upVars, fileVars, quiet, faults, reloads, crashes>>

(* The daemon ends, in whatever its goroutines are doing (main waits for     *)
(* none of them), and is started again.                                      *)
Gone == [i \in DOMAIN bucket |->
           IF bucket[i].by = Cli THEN bucket[i] ELSE [bucket[i] EXCEPT !.by = Nobody]]

Restart ==
  /\ crashes < MaxCrashes
  /\ crashes' = crashes + 1
  /\ bucket' = Gone
  /\ cur' \in Daemon \union {None}
  /\ due' = FALSE /\ polled' = None /\ kicked' = kicked \intersect {Cli}
  /\ mu' = [s \in Uploaders |-> IF s = Cli THEN mu[s] ELSE "free"]
  /\ age' = [s \in Uploaders |-> IF s = Cli THEN age[s] ELSE Interval]
  /\ lastRow' = [s \in Uploaders |-> IF s = Cli THEN lastRow[s] ELSE 0]
  /\ pc' = [s \in Uploaders |-> IF s = Cli THEN pc[s] ELSE "idle"]
  /\ seen' = [s \in Uploaders |-> IF s = Cli THEN seen[s] ELSE 0]
  /\ snap' = [s \in Uploaders |-> IF s = Cli THEN snap[s] ELSE 0]
  /\ key' = [s \in Uploaders |-> IF s = Cli THEN key[s] ELSE NoKey]
  /\ prev' = [s \in Uploaders |-> IF s = Cli THEN prev[s] ELSE <<>>]
  /\ fd' = [s \in Uploaders |-> IF s = Cli THEN fd[s] ELSE "none"]
  /\ UNCHANGED <<storeVars, state, tmp, quiet, faults, reloads, runs>>

---------------------------------------------------------------------------
(* The Worker's own steps.                                                   *)
Others == <<storeVars, mainVars, synVars, upVars, fileVars, quiet>>

WorkerStep(i) ==
  /\ PutObject(i) \/ Prune(i) \/ PutCopy(i)
  /\ UNCHANGED <<Others, boundVars>>

(* An answer nobody waits for.                                               *)
WorkerEnds(i) ==
  /\ bucket[i].by = Nobody
  /\ Answer(i)
  /\ UNCHANGED <<Others, boundVars>>

(* The handler fails; a client that still waits gets an error.               *)
WorkerFails(i) ==
  /\ faults < MaxFaults /\ Spare
  /\ faults' = faults + 1
  /\ Abort(i)
  /\ IF bucket[i].by = Nobody
     THEN UNCHANGED <<polled, synVars, upVars>>
     ELSE Return(bucket[i].by, FALSE)
  /\ UNCHANGED <<storeVars, cur, due, kicked, fileVars, quiet, reloads, runs, crashes>>

UploadStep(s) ==
  \/ Snapshot(s) \/ TooLarge(s) \/ Post(s) \/ Created(s)
  \/ LoadSyncState(s) \/ CreateTmp(s) \/ WriteTmp(s) \/ RenameTmp(s)

PollStep == Poll \/ \E s \in Daemon : NotDue(s) \/ NotIdle(s) \/ TriggerUpload(s)

Next ==
  \/ Write \/ Tick \/ PollStep \/ Reload \/ RunCli \/ Restart
  \/ \E s \in Uploaders : SyncNow(s) \/ UploadStep(s) \/ UploadFails(s)
  \/ \E i \in DOMAIN bucket : WorkerStep(i) \/ WorkerEnds(i) \/ WorkerFails(i)

Spec == Init /\ [][Next]_vars

(* Time passes, goroutines run, and the Worker answers what it has received. *)
Fairness ==
  /\ WF_vars(Tick)
  /\ WF_vars(PollStep)
  /\ \A s \in Uploaders : WF_vars(SyncNow(s)) /\ WF_vars(UploadStep(s))
  /\ WF_vars(\E i \in DOMAIN bucket : WorkerStep(i) \/ WorkerEnds(i))

FairSpec == Spec /\ Fairness

---------------------------------------------------------------------------
\* What the properties speak of.
Entries == [snap : 0..MaxWrites, key : {NoKey}]
Histories == UNION {[1..n -> Entries] : n \in 0..MaxHistory}
Keys == [by : Uploaders \union {Nobody}, snap : 0..MaxWrites,
         step : Range(Steps), there : BOOLEAN, copied : BOOLEAN]

TypeOK ==
  /\ \A i \in DOMAIN bucket : bucket[i] \in Keys
  /\ ver \in 0..MaxWrites /\ count \in 0..MaxRows
  /\ cur \in Daemon \union {None} /\ polled \in Daemon \union {None}
  /\ due \in BOOLEAN /\ kicked \subseteq Uploaders
  /\ mu \in [Uploaders -> {"free", "poll", "now"}]
  /\ age \in [Uploaders -> 0..Interval]
  /\ lastRow \in [Uploaders -> 0..MaxRows] /\ seen \in [Uploaders -> 0..MaxRows]
  /\ pc \in [Uploaders -> {"idle", "snapshot", "post", "wait", "load", "create", "write", "rename"}]
  /\ snap \in [Uploaders -> 0..MaxWrites] /\ key \in [Uploaders -> {NoKey}]
  /\ prev \in [Uploaders -> Histories]
  /\ state \in Histories \union {Torn, Absent} /\ tmp \in Histories \union {Torn, Absent}
  /\ fd \in [Uploaders -> {"none", "tmp", "state", "gone"}]
  /\ quiet \in 0..Interval
  /\ faults \in 0..MaxFaults /\ reloads \in 0..MaxReloads
  /\ runs \in 0..MaxRuns /\ crashes \in 0..MaxCrashes

(* No other Syncer than the one the daemon started with has been at work.    *)
Single == runs = 0 /\ reloads = 0

(* The Worker has an object whenever sync-state.json lists a backup, and what *)
(* --restore would download is at least as new as every backup listed, after *)
(* any failed uploads, late answers, prunes and restarts. The second is for  *)
(* a single Syncer: where two are at work (a --sync-now, or the one that a   *)
(* hot reload replaces), one may put an older snapshot under the newest key. *)
RestoreIsCurrent ==
  \A k \in DOMAIN History(state) :
    Objects # {} /\ (Single => Download >= History(state)[k].snap)

(* And so does the team's prefix have every backup that the file lists, or a *)
(* newer one: the second put failing fails the whole upload.                 *)
TeamIsCurrent ==
  \A k \in DOMAIN History(state) : Team =>
    Copies # {} /\ (Single => bucket[Max(Copies)].snap >= History(state)[k].snap)

(* What --restore would download, and what the team's prefix has, never goes *)
(* back to an earlier version of the store, nor to nothing: not by a prune,  *)
(* a handler that finishes after a later one, one that fails half way, or    *)
(* the daemon's end. (The versions are for a single Syncer, as above.)       *)
NotOlder(b, c, S, T) == S # {} => T # {} /\ (Single => c[Max(T)].snap >= b[Max(S)].snap)

BackupsNeverRegress ==
  [][/\ NotOlder(bucket, bucket', Objects, Objects')
     /\ NotOlder(bucket, bucket', Copies, Copies')]_vars

(* The history only grows at its head, and only its oldest entry falls out:  *)
(* "It survives daemon restarts so --stats / --backups can show cloud backup *)
(* history." Without --sync-now, whose own process shares no mutex.          *)
HistoryKept ==
  [][state' # state /\ runs = 0 => \E e \in Entries : state' = Record(e, History(state))]_vars

(* "Actual upload fires when at least SyncInterval has elapsed since the     *)
(* last upload": one that the poll starts does.                              *)
UploadsSpaced ==
  [][\A s \in Daemon : mu[s] = "free" /\ mu'[s] = "poll" => quiet = Interval]_vars

(* The newest entry of sync-state.json names the object it is about.         *)
HistoryNamesBackup ==
  History(state) # <<>> => Head(History(state)).key # NoKey

(* The newest upload of a team member that the Worker lists is the newest    *)
(* there is.                                                                 *)
TeamListsLatest ==
  Copies # {} => TeamLatest.snap = bucket[Max(Copies)].snap

(* "The daemon syncs engrams.db every hour": a Syncer that is due uploads.   *)
SyncsWhenDue ==
  \A s \in Daemon : (cur = s /\ age[s] = Interval) ~> (cur # s \/ age[s] < Interval)

(* Once the store is quiet, fits the size limit and sync stays configured,   *)
(* the Worker gets all of it, whatever uploads failed or were cut off before.*)
BackedUp ==
  <>[](cur # None /\ count <= SizeLimit) => <>[](Objects # {} /\ Download = ver)

=============================================================================
