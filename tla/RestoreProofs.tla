--------------------------- MODULE RestoreProofs ---------------------------
(***************************************************************************)
(* Proofs about eideticd --restore beside a daemon, for every set of       *)
(* engrams and every bound: no engram is lost, and what is opened after a  *)
(* restore is the backup.  The argument goes by what is at each name of    *)
(* the directory: RestInv says that the names are of different files       *)
(* (TypeInv), whose the rows of the -wal are (WalInv), that the temporary  *)
(* file is whole before its rename (BackupInv), that nobody has touched    *)
(* the restored file before it is opened (PromiseInv), and where the       *)
(* committed engrams are during the first restore (WholeInv).  Each action *)
(* has its lemma, with one step for each of the five.                      *)
(***************************************************************************)
EXTENDS Restore, TLAPS

---------------------------------------------------------------------------
\* The names are of different files, and --restore's own is nobody else's.
TypeInv ==
  /\ db \in Files \cup {None} /\ bak \in Files \cup {None}
  /\ tmp \in Files \cup {None} /\ daemon \in Files \cup {None}
  /\ Distinct(db, bak) /\ Distinct(tmp, db) /\ Distinct(tmp, bak) /\ Distinct(tmp, daemon)
  /\ data \in [Files -> (SUBSET Rows) \cup {Mixed}]
  /\ wal \in [of : Files, rows : SUBSET Rows]
  /\ pc \in Steps /\ backup \in SUBSET Rows
  /\ promised \in (SUBSET Rows) \cup {None} /\ committed \in SUBSET Rows
  /\ restores \in Nat
  /\ pc \in {"copy", "keep", "replace"} => tmp # None

\* A -wal with rows in it is the daemon's, or, where none runs and no -wal was
\* left beside a replaced database, engrams.db's; then no database was ever
\* opened with a -wal of another one.
WalInv ==
  /\ daemon # None /\ wal.rows # {} => wal.of = daemon
  /\ ~left /\ daemon = None /\ wal.rows # {} => pc = "off" /\ wal.of = db
  /\ ~left => \A f \in Files : data[f] # Mixed

\* Before its rename the temporary file is the whole backup.
BackupInv == pc \in {"keep", "replace"} => data[tmp] = backup

\* Until somebody opens it, the restored file is the backup, and the -wal is
\* not for it.
PromiseInv ==
  /\ pc = "replace" => promised = None
  /\ promised # None => db # None /\ db # daemon /\ data[db] = promised
  /\ promised # None /\ ~left /\ wal.rows # {} => wal.of # db

\* One restore moves the database to a .bak that did not exist, and the daemon
\* goes with it.
WholeInv ==
  restores <= 1 /\ ~met /\ ~left =>
    /\ committed \subseteq View(db) \cup View(bak)
    /\ daemon = None \/ daemon = db \/ daemon = bak
    /\ restores = 0 => pc = "off"
    /\ restores = 0 \/ pc \in {"create", "copy", "keep"} => bak = None
    /\ pc = "replace" => db = None

RestInv == TypeInv /\ WalInv /\ BackupInv /\ PromiseInv /\ WholeInv

LEMMA RestInit == Init => RestInv
BY RestoreAssumption
   DEF Init, RestInv, TypeInv, WalInv, BackupInv, PromiseInv, WholeInv, Distinct, Files,
       NoWal, Steps, View

\* There is a file without a name for a new one.
LEMMA UnusedFile ==
  ASSUME TypeInv, db = None \/ tmp = None
  PROVE  Unused \in Files /\ Unused \notin {db, bak, tmp, daemon}
<1>1. \E f \in Files : f \notin {db, bak, tmp, daemon}
  BY RestoreAssumption DEF Files
<1>2. \E f \in Files \ Named : TRUE
  BY <1>1 DEF Named
<1>3. Unused \in Files \ Named
  BY <1>2 DEF Unused
<1>4. None \notin Files
  BY RestoreAssumption DEF Files
<1> QED
  BY <1>3, <1>4 DEF Named

\* A checkpoint moves rows from the -wal to the daemon's file.
LEMMA CheckpointedTypes ==
  ASSUME TypeInv, daemon # None, Checkpointed
  PROVE  /\ data' \in [Files -> (SUBSET Rows) \cup {Mixed}]
         /\ wal' \in [of : Files, rows : SUBSET Rows]
<1>1. /\ data \in [Files -> (SUBSET Rows) \cup {Mixed}] /\ daemon \in Files
      /\ wal.rows \in SUBSET Rows
  BY DEF TypeInv
<1>2. data[daemon] # Mixed => data[daemon] \cup InWal(daemon) \in SUBSET Rows
  BY <1>1 DEF InWal
<1>3. data' \in [Files -> (SUBSET Rows) \cup {Mixed}]
  BY <1>1, <1>2 DEF Checkpointed
<1>4. NoWal \in [of : Files, rows : SUBSET Rows]
  BY DEF NoWal, Files
<1> QED
  BY <1>3, <1>4 DEF Checkpointed

LEMMA StartKeeps ==
  ASSUME RestInv, Start
  PROVE  RestInv'
<1>1. TypeInv'
  <2>1. /\ db' \in Files /\ daemon' = db' /\ Distinct(db', bak) /\ Distinct(tmp, db')
        /\ promised' = None
    <3>1. CASE db = None
      BY <3>1, UnusedFile DEF RestInv, Start, Distinct
    <3>2. CASE db # None
      BY <3>2 DEF RestInv, TypeInv, Start
    <3> QED
      BY <3>1, <3>2
  <2>2. data' \in [Files -> (SUBSET Rows) \cup {Mixed}]
    BY <2>1 DEF RestInv, TypeInv, Start
  <2>3. wal' \in [of : Files, rows : SUBSET Rows]
    BY DEF RestInv, TypeInv, Start, NoWal, Files
  <2>4. UNCHANGED <<bak, tmp, pc, backup, committed, restores>>
    BY DEF Start, boundVars
  <2> QED
    BY <2>1, <2>2, <2>3, <2>4 DEF RestInv, TypeInv
<1>2. WalInv'
  BY RestoreAssumption DEF RestInv, TypeInv, WalInv, Start, NoWal
<1>3. BackupInv'
  BY UnusedFile DEF RestInv, TypeInv, BackupInv, Start, Distinct
<1>4. PromiseInv'
  BY DEF PromiseInv, Start
<1>5. WholeInv'
  BY UnusedFile DEF RestInv, TypeInv, WalInv, WholeInv, Start, boundVars, View, InWal
<1> QED
  BY <1>1, <1>2, <1>3, <1>4, <1>5 DEF RestInv

LEMMA CheckpointKeeps ==
  ASSUME RestInv, Checkpoint
  PROVE  RestInv'
<1>1. TypeInv'
  BY CheckpointedTypes DEF RestInv, TypeInv, Checkpoint, nameVars, boundVars
<1>2. WalInv'
  BY RestoreAssumption DEF RestInv, TypeInv, WalInv, Checkpoint, Checkpointed, metVars, NoWal, InWal
<1>3. BackupInv'
  BY DEF RestInv, TypeInv, BackupInv, Checkpoint, Checkpointed, nameVars, Distinct
<1>4. PromiseInv'
  BY DEF RestInv, PromiseInv, Checkpoint, Checkpointed, nameVars, NoWal
<1>5. WholeInv'
  BY RestoreAssumption
     DEF RestInv, TypeInv, WholeInv, Checkpoint, Checkpointed, nameVars, metVars,
         boundVars, View, InWal
<1> QED
  BY <1>1, <1>2, <1>3, <1>4, <1>5 DEF RestInv

\* A stopped daemon has no -wal any more, or left it and its database alone.
LEMMA StopClears ==
  ASSUME RestInv, Stop
  PROVE  /\ daemon # None /\ daemon' = None
         /\ \/ daemon = db /\ Checkpointed
            \/ daemon # db /\ UNCHANGED <<data, wal>>
         /\ UNCHANGED <<db, bak, tmp, pc, backup, promised, committed, restores, met>>
         /\ ~left' => ~left /\ (wal.of = daemon => wal'.rows = {})
         /\ wal'.rows = {} \/ wal' = wal
<1>1. /\ daemon # None /\ daemon' = None
      /\ \/ daemon = db /\ Checkpointed
         \/ daemon # db /\ UNCHANGED <<data, wal>>
      /\ UNCHANGED <<db, bak, tmp, pc, backup, promised, committed, restores, met>>
  BY DEF Stop, nameVars, boundVars
<1>2. ~left' => ~left /\ (daemon = db \/ InWal(daemon) = {})
  BY DEF Stop
<1>3. daemon = db => wal'.rows = {}
  BY <1>1 DEF Checkpointed, NoWal
<1>4. daemon # db => wal' = wal
  BY <1>1
<1>5. InWal(daemon) = {} /\ wal.of = daemon => wal.rows = {}
  BY DEF InWal
<1> QED
  BY <1>1, <1>2, <1>3, <1>4, <1>5

LEMMA StopKeeps ==
  ASSUME RestInv, Stop
  PROVE  RestInv'
<1> USE StopClears
<1>1. TypeInv'
  <2>1. /\ data' \in [Files -> (SUBSET Rows) \cup {Mixed}]
        /\ wal' \in [of : Files, rows : SUBSET Rows]
    BY CheckpointedTypes DEF RestInv, TypeInv
  <2> QED
    BY <2>1 DEF RestInv, TypeInv, Distinct
<1>2. WalInv'
  <2>1. ~left' => wal'.rows = {}
    BY DEF RestInv, WalInv
  <2>2. ~left' => \A f \in Files : data'[f] # Mixed
    BY RestoreAssumption DEF RestInv, TypeInv, WalInv, Checkpointed, InWal
  <2> QED
    BY <2>1, <2>2 DEF WalInv
<1>3. BackupInv'
  BY DEF RestInv, TypeInv, BackupInv, Checkpointed, Distinct
<1>4. PromiseInv'
  BY DEF RestInv, TypeInv, WalInv, PromiseInv, Checkpointed, NoWal
<1>5. WholeInv'
  BY RestoreAssumption DEF RestInv, TypeInv, WalInv, WholeInv, Checkpointed, View, InWal
<1> QED
  BY <1>1, <1>2, <1>3, <1>4, <1>5 DEF RestInv

LEMMA KillKeeps ==
  ASSUME RestInv, Kill
  PROVE  RestInv'
<1>1. TypeInv'
  BY DEF RestInv, TypeInv, Kill, nameVars, Distinct
<1>2. WalInv'
  BY DEF RestInv, WalInv, Kill, nameVars, InWal
<1>3. BackupInv'
  BY DEF RestInv, BackupInv, Kill, nameVars
<1>4. PromiseInv'
  BY DEF RestInv, PromiseInv, Kill, nameVars
<1>5. WholeInv'
  BY DEF RestInv, WholeInv, Kill, nameVars, View, InWal
<1> QED
  BY <1>1, <1>2, <1>3, <1>4, <1>5 DEF RestInv

LEMMA RequestKeeps ==
  ASSUME RestInv, Request
  PROVE  RestInv'
<1>1. TypeInv'
  BY DEF RestInv, TypeInv, Request, nameVars, Steps
<1>2. WalInv'
  BY DEF RestInv, WalInv, Request
<1>3. BackupInv'
  BY DEF BackupInv, Request
<1>4. PromiseInv'
  BY DEF RestInv, PromiseInv, Request, nameVars
<1>5. WholeInv'
  <2>1. ~left' => ~left
    BY DEF Request
  <2>2. /\ UNCHANGED <<db, bak, data, wal, daemon, committed, met>>
        /\ pc = "off" /\ pc' = "create" /\ restores' = restores + 1 /\ restores \in Nat
    BY DEF RestInv, TypeInv, Request, nameVars
  <2>3. restores' <= 1 => restores = 0 /\ restores <= 1 /\ restores' # 0
    BY <2>2
  <2>4. ASSUME restores' <= 1, ~met', ~left'
        PROVE  /\ committed \subseteq View(db) \cup View(bak) /\ bak = None
               /\ daemon = None \/ daemon = db \/ daemon = bak
    BY <2>1, <2>2, <2>3, <2>4 DEF RestInv, WholeInv
  <2> QED
    BY <2>2, <2>3, <2>4 DEF WholeInv, View, InWal
<1> QED
  BY <1>1, <1>2, <1>3, <1>4, <1>5 DEF RestInv

LEMMA CreateTmpKeeps ==
  ASSUME RestInv, CreateTmp
  PROVE  RestInv'
<1>1. TypeInv'
  BY UnusedFile DEF RestInv, TypeInv, CreateTmp, boundVars, Rest, Steps, Distinct
<1>2. WalInv'
  BY RestoreAssumption DEF RestInv, WalInv, CreateTmp, metVars, Rest
<1>3. BackupInv'
  BY DEF BackupInv, CreateTmp
<1>4. PromiseInv'
  BY UnusedFile DEF RestInv, TypeInv, PromiseInv, CreateTmp, metVars, Rest, Distinct
<1>5. WholeInv'
  BY UnusedFile
     DEF RestInv, TypeInv, WholeInv, CreateTmp, metVars, boundVars, Rest, View, InWal,
         Distinct
<1> QED
  BY <1>1, <1>2, <1>3, <1>4, <1>5 DEF RestInv

LEMMA CopyKeeps ==
  ASSUME RestInv, Copy
  PROVE  RestInv'
<1>1. TypeInv'
  BY DEF RestInv, TypeInv, Copy, nameVars, boundVars, Rest, Steps
<1>2. WalInv'
  BY RestoreAssumption DEF RestInv, TypeInv, WalInv, Copy, metVars, Rest
<1>3. BackupInv'
  BY DEF RestInv, TypeInv, BackupInv, Copy, nameVars
<1>4. PromiseInv'
  BY DEF RestInv, TypeInv, PromiseInv, Copy, nameVars, metVars, Rest, Distinct
<1>5. WholeInv'
  BY DEF RestInv, TypeInv, WholeInv, Copy, nameVars, metVars, boundVars, Rest, View, InWal, Distinct
<1> QED
  BY <1>1, <1>2, <1>3, <1>4, <1>5 DEF RestInv

LEMMA KeepOldKeeps ==
  ASSUME RestInv, KeepOld
  PROVE  RestInv'
<1>1. TypeInv'
  BY DEF RestInv, TypeInv, KeepOld, boundVars, Rest, Steps, Distinct
<1>2. WalInv'
  BY DEF RestInv, WalInv, KeepOld, metVars, Rest
<1>3. BackupInv'
  BY DEF RestInv, BackupInv, KeepOld
<1>4. PromiseInv'
  BY DEF RestInv, PromiseInv, KeepOld
<1>5. WholeInv'
  BY DEF RestInv, WholeInv, KeepOld, metVars, boundVars, Rest, View, InWal
<1> QED
  BY <1>1, <1>2, <1>3, <1>4, <1>5 DEF RestInv

LEMMA ReplaceKeeps ==
  ASSUME RestInv, Replace
  PROVE  RestInv'
<1>1. TypeInv'
  BY DEF RestInv, TypeInv, Replace, boundVars, Steps, Distinct
<1>2. WalInv'
  BY DEF RestInv, WalInv, Replace, metVars
<1>3. BackupInv'
  BY DEF BackupInv, Replace
<1>4. PromiseInv'
  BY DEF RestInv, TypeInv, WalInv, BackupInv, PromiseInv, Replace, metVars, Distinct
<1>5. WholeInv'
  BY DEF RestInv, WholeInv, Replace, metVars, boundVars, View, InWal
<1> QED
  BY <1>1, <1>2, <1>3, <1>4, <1>5 DEF RestInv

LEMMA FailKeeps ==
  ASSUME RestInv, Fail
  PROVE  RestInv'
<1>1. TypeInv'
  BY DEF RestInv, TypeInv, Fail, nameVars, Steps, Distinct
<1>2. WalInv'
  BY DEF RestInv, WalInv, Fail, metVars
<1>3. BackupInv'
  BY DEF BackupInv, Fail
<1>6. \/ UNCHANGED <<db, bak>>
      \/ pc = "replace" /\ db' = bak /\ bak' = None
  BY DEF RestInv, TypeInv, Fail, Steps, nameVars
<1>7. /\ pc # "off" /\ pc' = "off"
      /\ UNCHANGED <<data, wal, daemon, promised, committed, met, left, restores>>
  BY DEF Fail, metVars
<1>4. PromiseInv'
  BY <1>6, <1>7 DEF RestInv, PromiseInv
<1>5. WholeInv'
  <2>1. CASE UNCHANGED <<db, bak>>
    BY <1>7, <2>1 DEF RestInv, WholeInv, View, InWal
  <2>2. CASE pc = "replace" /\ db' = bak /\ bak' = None
    BY <1>7, <2>2 DEF RestInv, WholeInv, View, InWal
  <2> QED
    BY <1>6, <2>1, <2>2
<1> QED
  BY <1>1, <1>2, <1>3, <1>4, <1>5 DEF RestInv

LEMMA AbortKeeps ==
  ASSUME RestInv, Abort
  PROVE  RestInv'
<1>1. TypeInv'
  BY DEF RestInv, TypeInv, Abort, nameVars, Steps
<1>2. WalInv'
  BY DEF RestInv, WalInv, Abort, metVars
<1>3. BackupInv'
  BY DEF BackupInv, Abort
<1>4. PromiseInv'
  BY DEF RestInv, PromiseInv, Abort, nameVars, metVars
<1>5. WholeInv'
  BY DEF RestInv, WholeInv, Abort, nameVars, metVars, View, InWal
<1> QED
  BY <1>1, <1>2, <1>3, <1>4, <1>5 DEF RestInv

LEMMA CommitKeeps ==
  ASSUME RestInv, NEW x \in Rows, Commit(x)
  PROVE  RestInv'
<1>1. TypeInv'
  BY DEF RestInv, TypeInv, Commit, nameVars, boundVars, InWal
<1>2. WalInv'
  BY DEF RestInv, WalInv, Commit, metVars
<1>3. BackupInv'
  BY DEF RestInv, BackupInv, Commit, nameVars
<1>4. PromiseInv'
  BY DEF RestInv, PromiseInv, Commit, nameVars
<1>5. WholeInv'
  BY DEF RestInv, WalInv, WholeInv, Commit, nameVars, metVars, boundVars, View, InWal
<1> QED
  BY <1>1, <1>2, <1>3, <1>4, <1>5 DEF RestInv

LEMMA RestStep == RestInv /\ [Next]_vars => RestInv'
<1> SUFFICES ASSUME RestInv, [Next]_vars
             PROVE  RestInv'
  OBVIOUS
<1>1. CASE UNCHANGED vars
  BY <1>1
     DEF vars, nameVars, metVars, boundVars, RestInv, TypeInv, WalInv, BackupInv,
         PromiseInv, WholeInv, View, InWal
<1>2. CASE Start \/ Checkpoint \/ Stop \/ Kill
  BY <1>2, StartKeeps, CheckpointKeeps, StopKeeps, KillKeeps
<1>3. CASE \E x \in Rows : Commit(x)
  BY <1>3, CommitKeeps
<1>4. CASE Request \/ CreateTmp \/ Copy \/ KeepOld \/ Replace \/ Fail \/ Abort
  BY <1>4, RequestKeeps, CreateTmpKeeps, CopyKeeps, KeepOldKeeps, ReplaceKeeps, FailKeeps,
     AbortKeeps
<1> QED
  BY <1>1, <1>2, <1>3, <1>4 DEF Next

LEMMA RestInvariant == Spec => []RestInv
BY RestInit, RestStep, PTL DEF Spec

\* Nothing a restore does, fails to do or is cut off in loses an engram: what
\* was ever stored is in engrams.db or in the .bak beside it, for one restore,
\* unless a daemon is started in the middle of it, or one with rows in its
\* -wal is killed then or ends after the rename.
THEOREM NothingIsLost == Spec => []NothingLost
<1>1. RestInv => NothingLost
  BY DEF RestInv, WholeInv, NothingLost
<1> QED
  BY <1>1, RestInvariant, PTL

\* The daemon that opens the database after a restore finds the backup and
\* nothing else, after any number of restores, however they ended, unless an
\* earlier daemon's -wal was left there.
THEOREM WhatIsRestoredIsTheBackup == Spec => RestoredIsBackup
<1>1. ASSUME RestInv, [Next]_vars, Opens, ~left
      PROVE  Opened(promised)
  <2>1. daemon = None /\ daemon' # None /\ promised # None
    BY <1>1 DEF Opens
  <2>2. ~ UNCHANGED daemon
    BY <2>1
  <2>3. Start
    <3>1. /\ ~ Checkpoint /\ ~ Stop /\ ~ Kill /\ \A x \in Rows : ~ Commit(x)
      BY <2>1 DEF Checkpoint, Stop, Kill, Commit
    <3>2. ~ Request /\ ~ CreateTmp /\ ~ Copy /\ ~ KeepOld /\ ~ Replace /\ ~ Fail /\ ~ Abort
      BY <2>2 DEF Request, CreateTmp, Copy, KeepOld, Replace, Fail, Abort, Rest
    <3> QED
      BY <1>1, <2>2, <3>1, <3>2 DEF Next, vars
  <2>4. db # None /\ data[db] = promised /\ wal.rows = {}
    BY <1>1, <2>1 DEF RestInv, PromiseInv, WalInv
  <2> QED
    BY <2>3, <2>4 DEF Start, Opened
<1>2. RestInv /\ [Next]_vars => [Opens /\ ~left => Opened(promised)]_vars
  BY <1>1
<1> QED
  BY <1>2, RestInvariant, PTL DEF Spec, RestoredIsBackup

(***************************************************************************)
(* Types of the other variables.                                           *)
(***************************************************************************)
FlagsOK == had \in BOOLEAN /\ met \in BOOLEAN /\ left \in BOOLEAN

BoundsOK ==
  /\ restores \in 0..MaxRestores /\ kills \in 0..MaxKills
  /\ aborts \in 0..MaxAborts /\ faults \in 0..MaxFaults

\* Each count stays within the bound its action's guard names.
LEMMA BoundsKept == BoundsOK /\ [Next]_vars => BoundsOK'
<1> SUFFICES ASSUME BoundsOK, [Next]_vars PROVE BoundsOK'
  OBVIOUS
<1>1. CASE UNCHANGED boundVars
  BY <1>1 DEF BoundsOK, boundVars
<1>2. CASE Kill \/ Request \/ Fail \/ Abort
  <2>1. /\ MaxRestores \in Nat /\ MaxKills \in Nat /\ MaxAborts \in Nat /\ MaxFaults \in Nat
        /\ restores \in 0..MaxRestores /\ kills \in 0..MaxKills
        /\ aborts \in 0..MaxAborts /\ faults \in 0..MaxFaults
    BY RestoreAssumption DEF BoundsOK
  <2>2. \/ kills < MaxKills /\ kills' = kills + 1 /\ UNCHANGED <<restores, aborts, faults>>
        \/ restores < MaxRestores /\ restores' = restores + 1 /\ UNCHANGED <<kills, aborts, faults>>
        \/ faults < MaxFaults /\ faults' = faults + 1 /\ UNCHANGED <<restores, kills, aborts>>
        \/ aborts < MaxAborts /\ aborts' = aborts + 1 /\ UNCHANGED <<restores, kills, faults>>
    BY <1>2, Zenon DEF Kill, Request, Fail, Abort
  <2> QED
    BY <2>1, <2>2 DEF BoundsOK
<1>3. CASE Start \/ Checkpoint \/ Stop \/ Replace \/ \E x \in Rows : Commit(x)
  BY <1>1, <1>3 DEF Start, Checkpoint, Stop, Replace, Commit
<1>4. CASE CreateTmp \/ Copy \/ KeepOld \/ UNCHANGED vars
  BY <1>1, <1>4 DEF CreateTmp, Copy, KeepOld, Rest, vars
<1> QED
  BY <1>2, <1>3, <1>4 DEF Next

\* The flags are set from comparisons and other flags only.
LEMMA FlagsKept == FlagsOK /\ [Next]_vars => FlagsOK'
<1> SUFFICES ASSUME FlagsOK, [Next]_vars PROVE FlagsOK'
  OBVIOUS
<1>1. CASE UNCHANGED <<had, metVars>>
  BY <1>1 DEF FlagsOK, metVars
<1>2. CASE Kill \/ Stop
  BY <1>2 DEF FlagsOK, Kill, Stop
<1>3. CASE Request
  BY <1>3 DEF FlagsOK, Request
<1>4. CASE Start
  BY <1>4 DEF FlagsOK, Start
<1>5. CASE Replace
  BY <1>5 DEF FlagsOK, Replace, metVars
<1>6. CASE Checkpoint \/ Fail \/ Abort \/ \E x \in Rows : Commit(x)
  BY <1>1, <1>6 DEF Checkpoint, Fail, Abort, Commit
<1>7. CASE CreateTmp \/ Copy \/ KeepOld \/ UNCHANGED vars
  BY <1>1, <1>7 DEF CreateTmp, Copy, KeepOld, Rest, vars
<1> QED
  BY <1>2, <1>3, <1>4, <1>5, <1>6, <1>7 DEF Next

\* Every state of a restore is one of Restore's types: counts within their
\* bounds, names of files that exist or of none.
THEOREM TypeCorrect == Spec => []TypeOK
<1>1. Init => BoundsOK /\ FlagsOK
  <2>1. Init => BoundsOK
    BY RestoreAssumption DEF Init, BoundsOK
  <2>2. Init => FlagsOK
    BY DEF Init, FlagsOK
  <2> QED
    BY <2>1, <2>2
<1>2. RestInv /\ BoundsOK /\ FlagsOK => TypeOK
  <2>1. ASSUME RestInv, BoundsOK, FlagsOK, NEW f \in Files
        PROVE  data[f] = Mixed \/ data[f] \in SUBSET Rows
    BY <2>1 DEF RestInv, TypeInv
  <2> QED
    BY <2>1 DEF RestInv, TypeInv, BoundsOK, FlagsOK, TypeOK, Distinct
<1> QED
  BY <1>1, <1>2, RestInvariant, BoundsKept, FlagsKept, PTL DEF Spec
=============================================================================
