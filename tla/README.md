# eidetic-daemon in TLA+

A formal model of eidetic-daemon, the process that captures what AI coding
tools write to disk ("engrams"), stores it in SQLite and serves it to agents.
The modules are translated from the Go, JavaScript and Python sources; TLC
checks them on small instances and TLAPS proves the main safety properties for
every value of the constants. `PROJECT.json` ties every definition to the lines
it models and every property of a run to a mutant of the code that the run must
reject.

1. [The system](#the-system)
2. [Modules and the code they model](#modules-and-the-code-they-model)
3. [What each run checks](#what-each-run-checks)
4. [Disagreements found](#disagreements-found)
5. [Proofs](#proofs)
6. [Abstractions, and what is not modelled](#abstractions-and-what-is-not-modelled)
7. [Plan](#plan)

To repeat a check: `tlc -workers 2 -config <run>.cfg <module>`; to repeat a
proof: `tlapm <module>.tla`.

## The system

One daemon per user, some short-lived commands of the same binary, clients on
a Unix socket or TCP, and an optional cloud backup.

| Part | State it keeps | Operations | Talks to |
|---|---|---|---|
| capture (`internal/capture`) | offsets in memory and in `state.json`, debounce timers, a lock per path, a WaitGroup | startup scan, file events, timer callbacks, parse and commit, drain at shutdown | fsnotify, parsers, store |
| parsers (`parser_jsonl.go`, `parser_cursor.go`) | none: a function of file and offset | Parse | capture |
| store (`internal/store`) | `engrams.db`: rows, a full-text index and counters that triggers maintain | Open with schema and backfills, InsertBatch, Purge, DeleteByID, Retrieve, Search, counts | every command, concurrently |
| daemon process (`cmd/eideticd/main.go`) | a socket or port, the token file, contexts and channels that order its stop | start, serve, stop; started again by launchd or systemd; `-init` | all parts |
| HTTP API (`internal/api`) | a cache of answers, latency samples | read, insert and delete over HTTP, on a socket or port and on the bridge's port | store |
| auth (`internal/auth`) | a token in memory and in a file | generate, write, compare | API, clients |
| hooks (`internal/hooks`) | when each hook last fired | match a stored batch, start requests | capture |
| eideticd-compliance | none: a pass over a policy file | purge or count, surface by surface | store |
| eideticd-browse | a list, a cursor, a detail pane, queries under way | keys, answers, ends of timers | store |
| coordination runtime (`internal/ccr`) | subscriptions with a channel and a heartbeat | subscribe and wait, heartbeat, wake, janitor, relay watcher | agents, relay directories |
| cloud sync (`internal/sync`) | history in `sync-state.json`, the current Syncer, its schedule | poll, sync now, upload, hot reload of `sync.json`, restore | store, Worker |
| Worker (`bridge/cloudflare`) | objects in a bucket | upload and prune, team copy, download, listing | sync, team members |
| Python bridge (`bridge/python`) | none | MCP tools over the HTTP API; puts chunked records together | API |
| versioncheck, autotag, bundle | a cached answer | | API |
| editor integrations, menu bar, scripts | settings, debounce timers | user interface over the API | API |

How they interact: capture and the API write to the store, both through one
writer connection per process; sync reads a snapshot of the store; restore
replaces the store's file while a daemon may have it open; the Syncer is
replaced by a callback of a file watcher while its predecessor may be
uploading; the daemon stops by a context that every goroutine watches, and must
close the store last.

Where it is hard, and which property answers for it:

* *Concurrency.* Debounce timers fire while new events arrive, and parses of one
  path overlap: nothing may be inserted twice, offsets may not move back
  (`DuplicatesNeedLapse`, `OffsetsNeverRegress`), and shutdown must wait for
  exactly what runs (`InflightCounts`, `StoreOutlivesParses`). A wake is sent on
  a channel that a janitor may close (`SendsAreOpen`, `WakeIsKept`). Two
  processes upgrade one file (`SearchInSync`, `CountsInSync`).
  A request of several queries reads while others write (`ExportComplete`,
  `TimelineHasNoHole`), a cache is shared by requests that search meanwhile
  (`CacheBounded`, `AnswersRecent`), a viewer gets answers and ends of timers in
  any order (`SearchSettles`). A tool rewrites a file while it is parsed
  (`QuietMeansRecorded`). Two daemons meet at one socket (`Published`).
* *Failure.* Crash between commit and offset save (`OffsetsCovered`), a failed
  upload or a Worker that answers late (`RestoreIsCurrent`, `TeamIsCurrent`,
  `BackupsNeverRegress`), a restore cut off at any step (`NothingLost`,
  `RestoredIsBackup`), a daemon killed with its socket and token left behind (`Reachable`, `Published`), a server that
  can no longer accept (`StoreClosesLast`), a retention pass whose query fails
  (`ExpiredAllGo`).
* *Ordering.* Events before their directory is watched
  (`EventuallyCaptured` for directories made before the scan; for later ones
  `capture_new_dir` shows the departure), edits of `sync.json` against a debounce timer and the callback it starts
  (`ConfigReloaded`), chunks arriving twice (`OnlyRecords`). Callbacks that overtake each
  other and an edit before the watch begins are cases where the code departs from
  what is promised (`ConfigFollowed`), and no run shows them to be safe.
* *Boundaries.* Passes that end inside a record (`OnePassSuffices`), pages that
  end between rows of one time (`ExportComplete`), full channels (`WakeIsKept`),
  cutoffs before 1970 (`OnlyExpiredGo`).
* *Time.* Heartbeats against long waits, sync due against store idle, the spacing
  of uploads: here the code departs from what is promised
  (`ReturnsOnWakeOrTimeout`, `SyncsWhenDue`, `UploadsSpaced`), see
  [below](#disagreements-found).
* *Progress.* Every record is stored (`EventuallyCaptured`), shutdown ends
  (`ShutdownCompletes`), a
  daemon told to stop ends (`StopEnds`) and is reachable again (`Reachable`), every call is answered (`EveryCallAnswered`), every
  subscription is reclaimed (`Reclaimed`), the backup catches up (`BackedUp`).

`PROJECT.json` lists every hazard at its line.

## Modules and the code they model

### Capture, TailLog

`Capture` is `Watcher` and `State`, with the parts of `main` that start them and
stop them. A file is the number of complete records in it.

| In the model | In the code |
|---|---|
| `note`, `dirNote`, `watched` | events fsnotify has queued, directories it watches |
| `phase` | where `Watcher.Run` is: adding roots, scanning, in its select loop, flushing, draining; then `main` closing the store |
| `Slots`, `pending` | the `time.AfterFunc` timers, and the map from path to timer, which a callback's `delete` may clear of a *newer* timer |
| `pc`, `job` | one `parseAndCommit` per thread, cut at lock, parse, insert, `State.Set`, `State.Save` |
| `mem`, `dirty`, `disk` | `State.data`, and `state.json` |
| `copies` | rows of the store per record |
| `Crash`, `Cancel`, `Boot` | the process ends at any step; SIGTERM; start |

The code has no bound on timers: `Slots` is one. A burst that needs more
timers than there are slots waits in the model. `Roots` names the paths below each
surface's root; the three default surfaces have a root each (`TwoRoots`), and one root
has many files (`SameRoot`).

`TailLog` is the abstract specification: an at-least-once tail. A record is
appended, stored zero or more times, and the mark passes only what is stored or
dropped. `Capture!TailSpec` is its refinement with `mark <- disk`.

### JsonlTail

`JSONLParser.Parse` byte by byte: sizes seen before the read, truncation and
replacement between the two, the BOM, carriage returns, final newlines, the cap
on unread bytes, the split of large records, the U+FFFD that JSON puts for half
a character, and `reassemble_chunks` of the Python bridge. A byte order mark and
a multi-byte character are shortened to one and two bytes. The bridge's stable sort
by sequence number is written as what it yields, the rank of each row (`Rank`), and
the order of first occurrences as the n-th smallest position (`Nth`).

### Broker

`Broker`, `RunRelayWatcher` and the `subscribe_to_role` calls of the three
servers. `WakeActive` is three steps (read lock, one send at a time, unlock):
the janitor's write lock fits between wakes only. Time passes in ticks of the
janitor. A subscription is a call, because ids are random and never reused.
`owed` is a history variable: which calls were pending when a file came into which
directory, if their role is one the directory's name stands for (`Addressed`).

### Store

`Open` as the sequence of statements that SQLite runs one by one, for several
processes on one file that was made by an older version (`OldSchema`), one of
which (`Old`) may still run that older version. Rows are ids with a surface;
text is left out. The triggers are part of the statement that fires them.
Two history variables: `through`, some `Open` has got through without an error,
and never becomes false again; `lapsed`, which of the index and the counters a row
was stored for while they were `Pending`, that is between the creation of their two
triggers, or while they were empty beside stored rows. A backfill of the counters
that replaces every counter it finds takes them out again: the row of a concurrent
writer between its probe and its scan is what `ON CONFLICT` is there for.

### Reads

The answers of `internal/api/routes.go` that need more than one query, or more
rows than one gives: `handleExport` page by page through `RetrieveAfter`,
`handleTimeline` surface by surface through `Retrieve`, and the query of
`handleDigest`. `InsertBatch`, `Purge` and `DeleteByID` fall between any two
queries, and the id of a deleted last row is given again, as SQLite does. A page
is the set of rows `First(due, n)`; its order is that of `(ts, id)`. Where the
SQL orders by `ts` alone, rows of one time come in any order (`Oldest`). `kept`
is a history variable: the rows the request asked for that have been in the
table since it began. One request is followed, since readers change nothing.

### AskCache, Retention, Browse, Clients

`AskCache` is `handleAsk` and `askCache`: a request looks into the cache, searches,
and puts its answer, with other requests and writers in between; `Get` and `Put`
are each one step, as the mutex makes them. An answer is the number of engrams
the store held when it was searched. `Lag` bounds how long a request takes
between its search and its `Put`.

`Retention` is one pass of `eideticd-compliance` over the table of `Reads`: the
policy's surfaces in any order (a Go map), one query each, with the daemon's
writers between. `Wrap` is `int64` arithmetic, because the cutoff is a
difference of nanoseconds and `Purge` takes one that is not positive for none.

`Browse` is bubbletea's loop: one action per message that `Update` gets. An answer
or a timer cannot be called back, and nothing orders two of them. A list is the
query it answers and a length; drawing is left out.

`Clients` composes them with `Reads`. They meet in the store only, and each of them
has its store's other writers among its own steps, so a behaviour follows one of
them, chosen at the start: the product would multiply states that cannot
influence each other.

### CursorTail, Hooks

`CursorTail` is one file that its tool rewrites as a whole, by a rename or in place
block by block, and `CursorParser.Parse` under `parseAndCommit`: `Stat`, read into a
buffer of that size, compare the hash, insert, `State.Set`, `State.Save`. A hash
stands for the data it is of. A crash falls between any two steps. `Open`, `Stat`
and the read may fail (`ParseFails`), and the insert: `parseAndCommit` then logs,
records nothing and does not try again. History variables: `excuse`, since the last
insert the daemon has crashed with an unsaved offset, or a parse has met the file
empty or too large; `saved`, what the tool has saved in turn, and `origin`, which of
these saves a buffer, and with it an entry of the store, is the whole of, none if
the file was in the middle of a save or was cut short by one; `missed`, a call of
a parse has failed and none has had a result since.

`Hooks` is `Dispatcher.Maybe` over every engram of a stored batch and every hook,
with the time it keeps by hook *name*, and the regex it keeps by name.

### Daemon, Main

`Daemon` is `main` from the token to the deferred `Close` of the store, with
`api.Server`, the bridge's server, `auth.WriteFile`, the operating system that
leaves socket files and takes ports back, and the service manager's restart.
The manager's daemon and daemons started by hand share one path, one token file
and one port. A daemon's number stands for its token and its listener. The daemon
is one with `-auth`; without it there is no `auth-token`, and what `Published` says of
that file falls away (the bridge always has its token). `met` is a history variable: the daemon that started
last started beside another.

`Main` composes `Daemon` with `ConfigWatch`, the hot reload; neither waits for
the other nor writes what the other keeps, so a behaviour follows one of them.

### Worker, Sync, Restore, ConfigWatch

`Worker` is `handleSync` cut at its awaits, for concurrent requests, and the two
readers of the bucket. `Sync` composes it with the Syncers: the daemon's, its
successor after a hot reload, and an `eideticd --sync-now` in another process.
A store is a version and a row count; an object of the bucket is the version it
holds. `sync-state.json` may be torn by two writers of the same `.tmp` file,
which is opened, written and renamed in three steps and shared by file
descriptor.

`Restore` follows files by inode: the daemon's descriptor, the names
`engrams.db`, `.bak` and the temporary file, and the `-wal` file that belongs
to a name, not to an inode. Two history variables remember what the restore's
promises depend on: `met`, a daemon was started while it ran, and `left`, a
`-wal` with rows in it lay beside a database that it was about to replace or had
replaced. A daemon leaves one when it is killed during the restore or before,
and when it ends after the renames in any way: SQLite's last close checkpoints
and removes the `-wal` only if the database's name still leads to the file it has
open (`Stop`). So the restart that `--restore` asks for (`syncer.go:388`) leaves one whenever
the daemon had rows that were not yet checkpointed.

`ConfigWatch` is `WatchConfig` with its debounce timer, the callbacks it
starts and `main`'s callback. `Stalls` lets a callback pause between reading
the file and installing the Syncer; `Gap` lets the file change before it is
watched.

### MC modules

`MC<Module>` extends its module with sequences, functions and symmetry sets for
the `.cfg` files. No configuration replaces a definition.

## What each run checks

Runs that must pass:

| Run | Checks | Instance and why it is enough |
|---|---|---|
| `capture_safety` | `StoreOutlivesParses`, `OffsetsCovered`, `DuplicatesNeedLapse`, `CleanStopIsDurable`, `OffsetsNeverRegress`, refinement of `TailLog` | two files of one root, one in a new directory, two timers, two records of which one is oversized, two boots, one fault: two parses of one path and of two paths overlap, a crash falls at every step and the next life sees it |
| `capture_live` | `EventuallyCaptured`, `ShutdownCompletes` | two roots, no faults, fair goroutines |
| `jsonl_tail` | `EmittedExactly`, `ReassembledExactly`, `OnePassSuffices` | every file of up to five bytes over newline, carriage return, byte order mark and the two bytes of a character, one truncation, one offset that is not saved, more unread bytes than the cap: records of zero to four bytes, one or two chunks, boundaries between and inside characters, the rows in every order, every position of a pass's end |
| `cursor` | `OffsetIsStored`, `RepeatsExcused`, `FiresSpaced`, `QuietMeansRecorded` | two saves of a file of two or three blocks where two are the limit, so that files are empty, whole, cut short or too large; one failing call of a parse or a save of the offsets, two boots; three hooks of which two share a name, three ticks, chunks that match twice |
| `broker` | `SendsAreOpen`, `WakeIsKept`, `RelayWakes`, `EveryCallAnswered`, `Reclaimed` | two calls of three roles, the relay watcher and a concurrent `test_wake`, channels of capacity one, a directory whose file wakes two of the roles, one of them by the prefix, and one that is made late; any four of subscriptions, heartbeats, wakes, directories and files, so that two calls meet a file and a `test_wake` on full channels and the janitor finds them stale; fair goroutines |
| `store_upgrade` | `SearchInSync`, `CountsInSync` | a file of schema 1 with two rows, one process of the new version and one of the older that may come back new, three ids, batches of two, three opens, one failed statement: each statement of an `Open` against inserts, purges and a second `Open` |
| `clients` | `ExportComplete`, `ExportOrdered`, `TimelineHasNoHole`; `CacheBounded`, `AnswersRecent`; `OnlyExpiredGo`, `ExpiredAllGo`; `SearchSettles` | pages of two rows, `Retrieve` of two, timelines of up to three over up to two surfaces (one may be named twice), three ids and two times, one before 1970: pages end between rows of one time, ids come back between pages, surfaces are read around a purge; two requests and three keys for a cache of two; every policy of 0, 1 or 2 days for two surfaces and one that names no surface, one failing query; two keystrokes and two queries under way in the viewer |
| `daemon` | `Published`, `StoreClosesLast`, `StopEnds`, `Reachable`; `ConfigReloaded` | socket or port, bridge or none, the manager's daemon and one by hand, a request on each server and two faults: a crash and a stop, two daemons that meet and one that dies, a failure to accept before a signal; three changes of `sync.json`, before it is read or while it is watched, one watcher error, callbacks that each end before the next one starts |
| `sync_safety` | `RestoreIsCurrent`, `TeamIsCurrent` | one Syncer with team copies, one fault, one restart, one upload more than the team keeps, a store that may outgrow the limit |
| `sync_live` | `BackedUp` | any two of a fault, a reload, and a `--sync-now` beside the daemon |
| `restore` | `NothingLost`, `RestoredIsBackup` | three rows, two restores, one fault, one abort, one kill, a daemon that starts and stops between any steps |

`Capture`, `JsonlTail`, `Broker`, `Store`, `Reads`, `Sync`, `Restore` and `ConfigWatch` also
state a type invariant, `TypeOK`, for any of their configurations; those of `Capture`,
`Broker`, `Store`, `Reads` and `Restore`, and `CursorType` of `ParserProofs`, are proved.
`BackupsNeverRegress` is proved, and in no run of the list: it holds in `sync_safety` with
the line `PROPERTY BackupsNeverRegress` added, and fails there once `Newer` takes the
smaller keys for the larger.

Besides the limits of the environment (writes, faults, kills, boots) there are
three bounds that are not environment: `Slots`, the timers that exist at once;
`MaxId`, the rows that fit; and `MaxCount`, because a counter that is touched
between the creation of its two triggers only grows.

Some properties have premises, each the exact limit of what the code gives; the
configuration that drops the premise is in the next section.

* `SearchInSync`, `CountsInSync`: some `Open` has got through without an error, at any
  time before, and no row was stored for the index (the counters) while a backfill of
  it was pending and none made up for it. The code closes its own gate in that case,
  after a failed backfill as after an older process's insert (`RestartHeals`,
  `RestartHealsSearch` in `store_rollout` and beside it).
* `EmittedExactly`, `OnePassSuffices`, `ReassembledExactly`: every replacement was seen, no
  bytes were skipped above the cap (`OnlyLines`) and no offset failed to be saved
  (`OnlyRecords`); the last also that no two chunked records are equal and that no chunk
  ends inside a character (`TextSurvives`).
* `RelayWakes`: directories the watcher found when it started (`AllDirsWake`); a call that
  the janitor has forgotten meanwhile is not woken (`ReturnsOnWakeOrTimeout`).
* `RestoreIsCurrent`, `TeamIsCurrent`, `BackupsNeverRegress`: an object is there in every case; that it is
  the newest is said of a single Syncer. A `--sync-now` is a process of its own
  and shares no lock with the daemon, and a Syncer that a hot reload has replaced
  shares none with its successor: an upload begun earlier may end up under the
  newest key.
* `BackedUp`: the snapshot fits the 500 MB limit; a larger one is refused each time.
* `NothingLost`: one restore (a second one overwrites `.bak`), neither `met` nor
  `left`. `RestoredIsBackup`: not `left` (`RestoreReplaces`): what it promises is
  that of a daemon that is stopped before `--restore`, or that has checkpointed.
* `TimelineHasNoHole`: a limit `Retrieve` serves (`TimelineHonoursLimit`).
* `ConfigReloaded`: the watcher has reported no error, the file does not change
  between `main`'s reading and the watch (`Gap`), and a callback ends before the
  next one starts (`Stalls`): see `ConfigFollowed`.
* `Published`, `Reachable`: no daemon has been started beside another (`met`), and for
  `Reachable` accepting has not failed. `SocketKept`, `TokenKept` and `DeafEnds` say what
  happens otherwise. `Published` leaves out a token that `-init` has written.
* `AnswersRecent`: up to the time to live *and* the `Lag` of a request.
* `OnlyExpiredGo`: every cutoff is after 1970 (`retention_epoch`).
* `RepeatsExcused`: repeats are excused by a crash with an unsaved offset, an empty or too large
  file, and by an entry of no save between the two: where a parse meets a save in place half-written,
  `uv`, `u`, `uv` is stored and the last is a duplicate (`HalvesDoNotRepeat`).
  `QuietMeansRecorded`: no call of a parse (opening, reading, storing) has failed since the
  last parse that had a result; it is retried at the next event or restart only.

`CHECK_DEADLOCK FALSE` stands where the bounds let a behaviour end.

**Fairness.** Weak fairness for goroutines that have a step to take, for fired
timers, for delivered events and for the Worker's own steps: the Go scheduler
and the runtime's timers give it. The janitor's lock is strongly fair, because
a waiting writer keeps new readers from a `sync.RWMutex`. Nothing is assumed of
tools, users, signals, faults or clients; `Boot` of Capture and `Start(Kept)` of
Daemon are fair because the installers tell the service manager to restart the
daemon (`KeepAlive`, `Restart=always`). A step of `Daemon` is fair per process, its
shutdown timeout included; that a client ends its request is not assumed. A liveness property speaks of what happens once
the environment's bound is used up, or excepts the process being down.

## Disagreements found

Each line is a property that states what the code, its comments or its documents
promise and that TLC finds violated. The first is a run of `PROJECT.json`; the
others are run with `tlc -config <name>.cfg <module>`. Where no configuration is
kept for a line, take the one named, replace its properties by the line's, and
make the changes in brackets.

| Configuration | Module | Property | The code | What is promised |
|---|---|---|---|---|
| `retention_epoch` (run) | `MCClients` | `OnlyExpiredEverGo` | a surface kept for more days than have passed since 1970 loses all its rows: `Purge` takes a cutoff that is not positive for none | only expired rows are purged (`eideticd-compliance/main.go:3`) |
| `clients` | `MCClients` | invariant `DigestCoversWindow` | the digest asks for 2000 rows, `Retrieve` gives the oldest 500 | "up to 2000 engrams in the window" (`routes.go`) |
| `clients` | `MCClients` | invariant `TimelineHonoursLimit` | with a limit above 500 each surface is cut at 500, so that rows older than others shown are missing | limit up to 1000 (`bridge/python/README.md`) |
| `clients` | `MCClients` | invariant `DryRunTells` | `-dry-run` counts one `Retrieve`, 500 rows at most | "count what would be deleted" |
| `clients` | `MCClients` | invariant `AnswersWithinTTL` | an answer searched before an engram came may be put after, with a whole time to live | the TTL guards against stale answers |
| `clients` | `MCClients` | invariant `NewestShown` | the answer of an older query replaces that of a newer one | the list answers what was asked last |
| `clients` | `MCClients` | invariant `RecentIsRecent` | `esc` from Search shows the hits under the title Recent | "Recent: last 50 engrams" |
| `clients` | `MCClients` | property `DetailStays` | an answer that arrives while the pane is open puts another engram in it | the pane shows what was chosen |
| `daemon` | `MCMain` | invariant `SocketKept` | a daemon started beside another removes its socket as stale | a stale socket *from a crash* is removed |
| `daemon` | `MCMain` | invariant `TokenKept` | a daemon that fails to bind has already overwritten the token of the one that serves; `-init` does so too | clients read the token from the file |
| `daemon` | `MCMain` | invariant `BridgeDrains` | nothing waits for the bridge's requests before the store closes | started requests are drained |
| `daemon` | `MCMain` | property `DeafEnds` | after accepting fails, `main` waits for a capture that nobody stops | a serve error ends the process |
| `daemon` (also with `Gap = TRUE` or `Stalls = TRUE` and `MaxErrors = 0`) | `MCMain` | property `ConfigFollowed` | a watcher error, a change before the watch, or a late callback leaves the wrong configuration | `sync.json` is hot-reloaded |
| `cursor` | `MCCursorTail` | invariant `SavesDoNotRepeat` | a parse that meets the file empty, in the middle of a save in place, resets the offset: the same data is stored again | repeated saves of the same content store nothing (`parser_cursor.go:15`) |
| `cursor` | `MCCursorTail` | invariant `HalvesDoNotRepeat` | a parse in the middle of a save in place stores the half, which changes the hash, and the next one stores the same content again, without a crash or an empty file | repeated saves of the same content store nothing (`parser_cursor.go:15`) |
| `cursor` | `MCCursorTail` | invariant `NothingInvented` | a file cut short between `Stat` and the read is stored with zeros at its end | what is stored was in the file |
| `cursor` [`HookSpecs <- NamedAlike`] | `MCCursorTail` | invariant `BadNeverFires` | a hook whose regex does not compile uses that of another hook of its name | it never fires |
| `jsonl_repeat` | `MCJsonlTail` | `OnlyRecords` | after a repeated pass the bridge joins both copies of each chunk | consumers can dedupe by chunk id (`docs/DECISIONS.md`) |
| `jsonl_text` | `MCJsonlTail` | `TextSurvives` | a chunk boundary inside a character loses it | chunks concatenate to the record |
| `jsonl_text` [`Data <- OneLetter`, `Cap = 2`, `Budget = 5`, `MaxLen = 6`] | `MCJsonlTail` | invariant `OnlyLines` | after a skip the offset may lie inside a record | one engram per line |
| `jsonl_tail` | `MCJsonlTail` | property `EmptyKeepsOffset` | Parse of an empty file returns 0 | offset unchanged |
| `capture_coalesce` | `MCCapture` | `OneTimerPerPath` | a fired callback deletes its path's entry even when a newer timer is in it, and a third event arms a second timer | one parse per burst |
| `capture_new_dir` | `MCCapture` | `EventuallyCaptured` | a file written in a new directory before the watch is added is not parsed | files are captured as they are written |
| `capture_rejected` | `MCCapture` | `EventuallyCaptured` | one row that `validateEngram` refuses blocks its file for good | a bad record is skipped |
| `broker` | `MCBroker` | invariant `AllDirsWake` | role directories made after the watcher started are never watched | "watch the relay dir and its immediate subdirectories" (`watcher.go:32`) |
| `broker_contract` | `MCBroker` | `ReturnsOnWakeOrTimeout` | a call outliving its heartbeats gets a zero event | a wake or a timeout |
| `store_rollout` | `MCStore` | `RestartHeals` | the counters' probe takes a row an older process's insert left for a finished backfill | the next restart heals |
| `store_rollout` [`Procs = {p1}`, `Old = {}`, `MaxOpens = 2`, `MaxFaults = 1`] | `MCStore` | `RestartHeals` | after a failed backfill of the counters and one insert nothing heals | the next restart heals |
| `store_upgrade` | `MCStore` | invariant `RestartHealsSearch` | the same for the full-text index | searchable after the next restart that succeeds |
| `restore` | `MCRestore` | property `RestoreReplaces` | a `-wal` left by a daemon that was killed, or only stopped after the renames, as the documented restart does, is applied to the restored file | the database is replaced by the backup (`syncer.go`) |
| `restore` | `MCRestore` | invariant `AlwaysThere` | two renames | atomic replacement |
| `sync_history` | `MCSync` | property `UploadsSpaced` | a poll uploads right after a hot reload's upload | an interval between uploads |
| `sync_history` | `MCSync` | `HistoryKept` | two Syncers lose an entry | history survives |
| `sync_history` | `MCSync` | invariant `HistoryNamesBackup` | the recorded key is empty with this Worker | the history names the backup |
| `sync_busy` | `MCSync` | `SyncsWhenDue` | a store that changes between any two polls is never uploaded | a backup every hour |
| `sync_team_list` | `MCSync` | `TeamListsLatest` | the listing's first page is the oldest objects | the latest per member |

Seen while modelling, with nothing in the code or the documents to check
against: `since_marker` of `subscribe_to_role` is accepted and ignored, so that
a wake between an answer and the next call is lost; `Broker.Heartbeat` writes
`LastHeart` under the read lock; the key of an object has millisecond
resolution, so two uploads in one millisecond overwrite each other; a second
restore overwrites the `.bak` of the first; a `--sync-now` that overlaps the
daemon's upload may put an older snapshot under the newest key, and so may a Syncer
that a hot reload replaces while it uploads, which is why `RestoreIsCurrent` calls
for a single one; a file that is replaced and has
grown past the saved offset is taken for an append, which `EmittedExactly`
excludes by its premise `Current`; `eideticd-browse/README.md` says that ctrl+c quits
from anywhere, and the detail pane ignores it; a restore puts the database back to
an earlier time and leaves the offsets of `state.json` where they are, so that what
was captured since is not captured again.

## Proofs

Eight modules hold theorems that `tlapm` checks to the last leaf: `CaptureProofs`,
`BrokerProofs`, `StoreProofs`, `ClientsProofs` (with the readers of `Reads`),
`ParserProofs`, `DaemonProofs`, `SyncProofs` and `RestoreProofs`. They hold for
every set of files, timers, processes, subscriptions, surfaces, policies, rows,
bytes and contents, every page size, chunk budget and bound. The only
assumptions are the named `ASSUME`s of the modules, which TLC evaluates in the
runs.

* **Capture.** `TypeCorrect`; `InflightExact` by a lemma on how the cardinality
  of the busy threads changes when one starts or ends; `ShutdownContract`
  strengthens `StoreOutlivesParses` to "from `closing` on, `inflight` is zero
  and nothing can be armed"; `NothingSkipped` needs that a running parse read its
  offset from `mem` under the path's lock, that two parses of one path never hold
  it together, and that what a parse is about to save is stored already;
  `OffsetsMonotone` follows from the same invariant. It carries three more.
  `CaptureIsTail`: every step is one of `TailLog` or none, with `mark <- disk`;
  an insert delivers from the saved mark or later because a parse starts at a
  covered offset (`InsertDelivers`), and a save moves the mark over covered
  records only (`SaveCheckpoints`). `DuplicatesAreLapses`: a record beyond the
  offset in memory that is in no committed batch has been stored at most `lapses`
  times (`RowsInv`); a process that ends keeps that true because either `disk` is
  `mem` or it is one lapse more (`DieRows`).
  `StopsAreDurable`: without failures, what is dirty has a thread that is about to save it
  (`SaveInv`), and `Run` waits for that thread.
* **Broker.** `SendsOpen`: the janitor closes what it removes from `subs`, and
  whom a waker has yet to send to is in `subs` as long as it holds the lock.
  `WakeKept` adds that an event leaves a channel only with the answer. `RelaysWake`:
  what is owed to a call is in its channel or `OnItsWay` (a file event, a name still to
  wake, a place in the waker's iteration), and no step moves it back (`OwedKept`); while
  there was no `test_wake`, none of these places holds a role for which no file came
  (`ToldInv`).
* **Store.** `SearchSync` and `CountsSync`, whatever older process runs beside and
  whatever statement fails. By what triggers the file has at each version, the
  index (the counters) is exact, or it is empty and every process on its way
  through `Open` is before its probe or going to the backfill. A row stored while it
  is empty and rows are there would end that, and puts it into `lapsed`; only the
  counters' backfill takes it out (`LapseStays`), and then `BackfillExact` shows the
  counters exact whatever they were. Once `through`, the schema is complete and the
  triggers keep what is exact so.
* **Reads** (in `ClientsProofs`). Two facts about pages carry it: what precedes a row of a page is in
  the page (`FirstIsDownClosed`), and a page shorter than its limit is all there is
  (`ShortIsAll`); the second needs that a finite set of rows has a least one,
  which `Minimal` gets from the well-foundedness of strict inclusion.
  `ExportInv`: everything sent is at or before the cursor, and what is owed is
  sent or still due, so `ExportIsComplete` and `ExportIsOrdered`. `TimelineInv`:
  of a surface already read, an owed row was given, or as many rows as the
  timeline may hold are, none of them later; hence `TimelineIsWhole`.
* **Clients.** `PassInv`: as long as the pass runs, a row that may go is still there
  only if its surface is to come or has failed, and what has been deleted may go.
  `MayGoExpires` is why the second needs no premise on the policy: where the
  cutoff wraps around, no time that fits in an `int64` is old enough. `ExpiredMayGo`
  is why the first does. Hence `AllExpired` and `OnlyExpired`. `SearchSettles` is
  inductive as it stands. `CacheIsBounded`: `order` lists the keys of the map, each
  once, through replacing, expiring and evicting. `AnswersAreRecent`: a request that
  has found something holds all that was stored before its search, at most `Lag` ago
  (`RequestInv`); an entry, all that was stored `TTL + Lag` before it expires (`EntryInv`).
* **Cursor.** `RecordedIsStored` is inductive with the types. `RepeatsAreExcused` needs
  that what was stored last is what the daemon compares with, or what the next
  one will (`LastKnown`), that a parse about to insert has seen a difference
  (`Different`), and that what is said to be the whole of a save is, the entries of the
  store being of later and later saves (`OriginInv`): what lies between two entries of
  the same save content is then that content or of no save. `NothingOverlooked`: as long as nothing announces a change, every
  step of the parse has in hand what the file is (`InHand`), because each write
  arms the timer, and a file held open across a rename is held only while the
  parse reads (`HeldWhileRead`).
* **JsonlTail** (in `ParserProofs`). `EmitsExactly`: as long as nothing was lost, what is
  emitted is what the past emits, the past being the bytes up to where the next
  ones come from, and the past ends with a newline or is empty (`TailInv`). A pass
  keeps it because the record of a byte depends on its line only, so that what two
  runs of whole lines emit is what their concatenation emits (`EmitConcat`, over
  `FlattenSeq` one part at a time); because what `Consumed` leaves of a buffer are
  newlines and a line without its end, which emit nothing (`Consumes`); and because
  the byte order mark belongs to the first pass alone (`PassTakes`). `OnePass`: hence
  a pass emits all that was there when it began. `ReassemblesExactly` follows from the
  same invariant and four facts about one state. Each row that is emitted is one piece
  of one record, and each piece is there once (`Laid`, by induction over the bytes);
  no order of the rows changes that (`LaidReordered`). Rows of one chunk id are then
  those of one record (`GroupIs`), their ranks are their sequence numbers (`CountBelow`,
  `MergedIs`), and the first rows of the records are numbered by the records (`HeadsAre`).
  Last, the chunks of a record end where the next ones begin and the last one ends with
  it (`Boundaries`), so that, encoded one by one, they join to the record encoded at
  once, if none ends inside a character (`EncodePart`, `ChunksJoin`). The order of the
  rows matters only for the order of the records (`Returned`, `InOrder`).
* **Hooks** (in `ParserProofs`). `HooksKeepInterval`: a request of a hook with an
  interval is no later than the time `lastAt` has for the hook's name, and requests
  keep their distance (`HookInv`). `MaybeSound` says that one hook and one engram keep
  it; the two loops of a batch keep it by induction on their number of steps, which
  the proof gets from the least element of a finite set of numbers (`Induct`), after
  `LoopRuns` has shown that a loop has a result.
* **Daemon.** `StoreClosesAfterAll` follows from `ClosesInOrder`: from `drain` on
  the API's requests have ended or the timeout has passed, from `close` on capture is
  done. `ClientsFindIt`: as long as nobody was started beside another, at most one
  process lives and it owns what it has written: from each step of its start to the
  one that gives it up, the path, the token file and the port's token bear its number
  (`Owns`), which no leftover of an earlier life bears (`UnusedIsNew`, a pigeonhole
  argument). `Main` adds the hot reload, which changes none of it.
* **Sync.** `RestoresAreCurrent`, `TeamsAreCurrent`, `BackupsOnlyAdvance`. `Sound` says of the bucket that
  after a put there is an object at that key or a later one, and for a single
  Syncer versions do not fall as keys grow. Each handler of the Worker preserves
  it and carries over what is backed (`Carries`), pruning because what goes has
  newer ones, and compaction because ranks keep the order (`RankOrder`,
  `CompactSound`). `SafeInv` adds whose snapshot an awaited request holds, and that
  everything in `sync-state.json`, in its temporary file and in the hands of a
  Syncer is the version of something backed. The existence of an object is proved for
  any number of Syncers. `BackupsNeverRegress` follows from `Carries` alone: each step
  that is not the Worker taking a request in carries over every object, that one adds
  to the keys (`StepCarries`), and in a `Sound` bucket the largest key is the newest
  version (`NewestMarked`).
* **Restore.** `WalInv`: a `-wal` with rows belongs to the daemon that runs or to the
  file that `engrams.db` is, unless `left`. `BackupInv`: from its last byte to its rename the
  temporary file is the backup, and no other name leads to it; `WholeInv` that in one
  restore what was committed is under one of the two names, `PromiseInv` that
  a restored file holds the backup until somebody opens it. Hence
  `NothingIsLost` and `WhatIsRestoredIsTheBackup`; with the bounds and flags,
  `TypeCorrect`.

Model-checked only:

* liveness and everything under fairness (`EventuallyCaptured`, `ShutdownCompletes`,
  `EveryCallAnswered`, `Reclaimed`, `StopEnds`, `Reachable`,
  `ConfigReloaded`, `BackedUp`): out of the prover's reach;
* the type invariants of `Sync`, `JsonlTail` and `ConfigWatch` as they are written; the
  proofs about `Sync` use invariants that imply what they need of its.

## Abstractions, and what is not modelled

* Payloads, timestamps and metadata are dropped unless a property is about them.
* SQLite's transactions and the atomicity of `rename` are trusted; `state.json`
  is written by one rename and is old or new after a crash of the process (a
  crash of the machine is not modelled; the code does not `fsync`).
* Data races the language leaves undefined are recorded above and not modelled.
* A crash of the machine, hash collisions and times that run backwards are not
  modelled.
* Of eideticd-browse, drawing (a terminal of fewer than twelve rows, say); of hooks, the
  request's contents and the counters for `-stats`; of the daemon, flags that print
  and exit; of the installers, all but the token and the restart policy.
* Every part without a module is in `PROJECT.json` with the reason: pure
  functions of one page of rows (autotag, bundle, the statistics of the digest, the
  metrics), scripts, and user interfaces over the API.

## Plan

Order and status:

1. `Capture`, `TailLog`, `Broker`, `Store`, `Reads`: written, safety and the refinement
   proved.
2. `Retention`, `Browse`, `CursorTail`, `AskCache`: written and proved. `Hooks`: the same.
3. `Daemon`, `Main`: written, safety proved.
4. `Worker`, `Sync`, `Restore`: written, safety proved. `JsonlTail`: written and
   proved. `ConfigWatch`: written and checked.
5. Clients that keep state outside the daemon: the Obsidian plug-in's debounced
   captures, VS Code's tree.
6. Compositions: `Capture` with `Restore` (offsets ahead of a restored store),
   `Capture` with `JsonlTail` (the records of a byte stream instead of counts).
