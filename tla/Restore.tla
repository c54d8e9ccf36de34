------------------------------- MODULE Restore -------------------------------
(* eideticd --restore (RestoreFromConfig, internal/sync/syncer.go) beside a  *)
(* daemon that has the same engrams.db open, runs on, stops, is killed or is *)
(* started again. SQLite is modelled by what the restore meets of it: rows   *)
(* are committed to the -wal file, which belongs to a name and not to the    *)
(* file it was written for, and reach the database at a checkpoint.          *)
EXTENDS Integers, FiniteSets

CONSTANTS
  Rows,        \* the engrams
  None,        \* no file
  Mixed,       \* a database with frames of another one's -wal in it
  MaxRestores, \* bounds: runs of --restore,
  MaxKills,    \*   kills of the daemon,
  MaxAborts,   \*   kills of --restore,
  MaxFaults    \*   failing system calls of --restore

ASSUME RestoreAssumption ==
  /\ {MaxRestores, MaxKills, MaxAborts, MaxFaults} \subseteq Nat
  /\ None \notin Nat
  /\ \A rows \in SUBSET Rows : rows # None /\ rows # Mixed

(* Three names and one open descriptor need no more files than these.        *)
Files == 1..4

VARIABLES
  db, bak, tmp,  \* the files named engrams.db, .bak and .restore-tmp
  data,          \* [Files -> rows, or Mixed]
  wal,           \* engrams.db-wal: the file it was written for, its rows
  daemon,        \* the file the daemon has open
  pc, backup,    \* --restore: its next step, and the rows of the download
  promised,      \* rows of the restored engrams.db that nobody has opened yet
  committed,     \* rows a capture has been told are stored
  had,           \* engrams.db has existed
  met,           \* a daemon was started while --restore ran
  left,          \* a -wal lay beside a database that a restore was about to
                 \*   replace, or had replaced: of a daemon that was killed, or
                 \*   that was stopped after its database had been renamed
  restores, kills, aborts, faults

nameVars  == <<db, bak, tmp>>
metVars   == <<met, left>>
boundVars == <<restores, kills, aborts, faults>>
vars == <<nameVars, data, wal, daemon, pc, backup, promised, committed, had, metVars, boundVars>>

Named == {db, bak, tmp, daemon} \ {None}
Unused == CHOOSE f \in Files \ Named : TRUE

NoWal == [of |-> 1, rows |-> {}]

InWal(f) == IF wal.of = f THEN wal.rows ELSE {}

(* What a reader of f sees through the -wal beside it.                       *)
View(f) == IF f = None \/ data[f] = Mixed THEN {} ELSE data[f] \union InWal(f)

Init ==
  /\ \/ db = None /\ committed = {}
     \/ db = 1 /\ committed \in SUBSET Rows
  /\ bak = None /\ tmp = None
  /\ data = [f \in Files |-> IF f = 1 THEN committed ELSE {}]
  /\ wal = NoWal
  /\ daemon = None
  /\ pc = "off" /\ backup = {}
  /\ promised = None
  /\ had = (db # None)
  /\ met = FALSE /\ left = FALSE
  /\ restores = 0 /\ kills = 0 /\ aborts = 0 /\ faults = 0

---------------------------------------------------------------------------
(* store.Open on engrams.db, as SQLite does it: an absent database is        *)
(* created and a -wal beside it dropped; a -wal is taken for the database's  *)
(* own.                                                                      *)
Start ==
  /\ daemon = None
  /\ IF db = None
     THEN /\ db' = Unused
          /\ data' = [data EXCEPT ![db'] = {}]
          /\ wal' = NoWal
     ELSE /\ UNCHANGED db
          /\ IF wal.rows = {} \/ wal.of = db
             THEN UNCHANGED <<data, wal>>
             ELSE data' = [data EXCEPT ![db] = Mixed] /\ wal' = NoWal
  /\ daemon' = db'
  /\ had' = TRUE
  /\ promised' = None
  /\ met' = (met \/ pc # "off")
  /\ UNCHANGED <<bak, tmp, pc, backup, committed, left, boundVars>>

(* InsertBatch returns.                                                      *)
Commit(x) ==
  /\ daemon # None
  /\ data[daemon] # Mixed
  /\ x \notin committed
  /\ committed' = committed \union {x}
  /\ wal' = [of |-> daemon, rows |-> InWal(daemon) \union {x}]
  /\ UNCHANGED <<nameVars, data, daemon, pc, backup, promised, had, metVars, boundVars>>

Checkpointed ==
  /\ data' = IF data[daemon] = Mixed THEN data
             ELSE [data EXCEPT ![daemon] = @ \union InWal(daemon)]
  /\ wal' = NoWal

Checkpoint ==
  /\ daemon # None /\ InWal(daemon) # {}
  /\ Checkpointed
  /\ UNCHANGED <<nameVars, daemon, pc, backup, promised, committed, had, metVars, boundVars>>

(* store.Close. SQLite's last close checkpoints and removes the -wal unless  *)
(* the name of the database is no longer that of the file it has open: then  *)
(* it does neither.                                                          *)
Stop ==
  /\ daemon # None
  /\ IF daemon = db THEN Checkpointed ELSE UNCHANGED <<data, wal>>
  /\ daemon' = None
  /\ left' = (left \/ (daemon # db /\ InWal(daemon) # {}))
  /\ UNCHANGED <<nameVars, pc, backup, promised, committed, had, met, boundVars>>

Kill ==
  /\ daemon # None
  /\ kills < MaxKills
  /\ kills' = kills + 1
  /\ daemon' = None
  /\ left' = (left \/ (InWal(daemon) # {} /\ (pc # "off" \/ daemon # db)))
  /\ UNCHANGED <<nameVars, data, wal, pc, backup, promised, committed, had, met, restores, aborts, faults>>

---------------------------------------------------------------------------
(* RestoreFromConfig, one system call at a time.                             *)

Rest == <<daemon, wal, committed, had, metVars, boundVars>>

(* The Worker answers the GET with some backup of this device; an error or a *)
(* 404 ends the restore before it has done anything.                         *)
Request ==
  /\ pc = "off"
  /\ restores < MaxRestores
  /\ restores' = restores + 1
  /\ pc' = "create"
  /\ backup' \in SUBSET committed
  /\ left' = (left \/ (daemon = None /\ wal.rows # {}))
  /\ UNCHANGED <<nameVars, data, wal, daemon, promised, committed, had, met, kills, aborts, faults>>

(* OpenFile(O_CREATE|O_TRUNC), and what io.Copy writes of the body before it *)
(* has all of it.                                                            *)
\* A variant for comparison: the copy is not waited for.
CopySome ==
  /\ pc = "copy"
  /\ \E part \in SUBSET backup : data' = [data EXCEPT ![tmp] = part]
  /\ pc' = "keep"
  /\ UNCHANGED <<nameVars, backup, promised, Rest>>

CreateTmp ==
  /\ pc = "create"
  /\ tmp' = IF tmp = None THEN Unused ELSE tmp
  /\ data' = [data EXCEPT ![tmp'] = {}]
  /\ pc' = "copy"
  /\ UNCHANGED <<db, bak, backup, promised, Rest>>

Copy ==
  /\ pc = "copy"
  /\ data' = [data EXCEPT ![tmp] = backup]
  /\ pc' = "keep"
  /\ UNCHANGED <<nameVars, backup, promised, Rest>>

(* The existing database, if any, becomes .bak. Its -wal stays.              *)
\* A variant for comparison: the old database is removed.
KeepOldNot ==
  /\ pc = "keep"
  /\ db' = None
  /\ promised' = None
  /\ pc' = "replace"
  /\ UNCHANGED <<bak, tmp, data, backup, Rest>>

KeepOld ==
  /\ pc = "keep"
  /\ IF db = None
     THEN UNCHANGED <<db, bak, promised>>
     ELSE bak' = db /\ db' = None /\ promised' = None
  /\ pc' = "replace"
  /\ UNCHANGED <<tmp, data, backup, Rest>>

Replace ==
  /\ pc = "replace"
  /\ db' = tmp /\ tmp' = None
  /\ pc' = "off"
  /\ promised' = backup
  /\ had' = TRUE
  /\ UNCHANGED <<bak, data, wal, daemon, backup, committed, metVars, boundVars>>

(* A call fails: before the second rename the temporary file is removed (a   *)
(* failing download or open leaves it as it is); after it the old database   *)
(* is moved back, if that works.                                             *)
Fail ==
  /\ pc # "off"
  /\ faults < MaxFaults
  /\ faults' = faults + 1
  /\ pc' = "off"
  /\ CASE pc = "create" -> UNCHANGED nameVars
       [] pc \in {"copy", "keep"} -> tmp' = None /\ UNCHANGED <<db, bak>>
       [] pc = "replace" -> \/ bak # None /\ db' = bak /\ bak' = None /\ UNCHANGED tmp
                            \/ UNCHANGED nameVars
  /\ UNCHANGED <<data, wal, daemon, backup, promised, committed, had, metVars, restores, kills, aborts>>

Abort ==
  /\ pc # "off"
  /\ aborts < MaxAborts
  /\ aborts' = aborts + 1
  /\ pc' = "off"
  /\ UNCHANGED <<nameVars, data, wal, daemon, backup, promised, committed, had, metVars, restores, kills, faults>>

Next ==
  \/ Start \/ Checkpoint \/ Stop \/ Kill
  \/ \E x \in Rows : Commit(x)
  \/ Request \/ CreateTmp \/ Copy \/ KeepOld \/ Replace \/ Fail \/ Abort

Spec == Init /\ [][Next]_vars

---------------------------------------------------------------------------
Steps == {"off", "create", "copy", "keep", "replace"}

Distinct(f, g) == f # g \/ f = None

TypeOK ==
  /\ {db, bak, tmp, daemon} \subseteq Files \union {None}
  /\ Distinct(db, bak) /\ Distinct(db, tmp) /\ Distinct(bak, tmp)
  /\ \A f \in Files : data[f] = Mixed \/ data[f] \in SUBSET Rows
  /\ wal \in [of : Files, rows : SUBSET Rows]
  /\ pc \in Steps /\ backup \in SUBSET Rows
  /\ promised = None \/ promised \in SUBSET Rows
  /\ had \in BOOLEAN /\ met \in BOOLEAN /\ left \in BOOLEAN
  /\ committed \in SUBSET Rows
  /\ restores \in 0..MaxRestores /\ kills \in 0..MaxKills
  /\ aborts \in 0..MaxAborts /\ faults \in 0..MaxFaults

(* Every engram that was ever stored is still in engrams.db or in the .bak   *)
(* beside it, whatever step of a restore fails or is its last, and whatever  *)
(* the daemon does meanwhile; unless a second restore writes over the .bak,  *)
(* a daemon is started during the restore, or one that has rows in its -wal  *)
(* is killed then or ends, killed or stopped, after the rename.              *)
NothingLost ==
  restores <= 1 /\ ~met /\ ~left => committed \subseteq View(db) \union View(bak)

Opened(rows) == wal'.rows = {} /\ data'[db'] = rows
Opens == promised # None /\ daemon = None /\ daemon' # None

(* Whoever opens the database after a restore gets the backup: no part of    *)
(* the database it replaced, and no half-written file, however often one     *)
(* restores and starts the daemon, unless a -wal is left: the daemon had     *)
(* none with rows in it when it ended, or ended before the rename.           *)
RestoredIsBackup == [][Opens /\ ~left => Opened(promised)]_vars

(* "Downloads the latest backup from the Worker and atomically replaces       *)
(* dbPath [...] restart eideticd to use the restored database": the same,    *)
(* with a -wal left too, as by the daemon so restarted.                      *)
RestoreReplaces == [][Opens => Opened(promised)]_vars

(* "Atomically replaces dbPath": once there is an engrams.db there always is *)
(* one.                                                                      *)
AlwaysThere == had => db # None

=============================================================================
