----------------------------- MODULE CursorTail -----------------------------
(***************************************************************************)
(* One file of a surface whose files are rewritten as a whole: the parser  *)
(* of internal/capture/parser_cursor.go, driven by parseAndCommit, and the *)
(* hooks its engrams fire.  Capture has the debouncing, the threads and    *)
(* the shutdown; here one parse of the file runs at a time, as parseMu     *)
(* ensures, and the daemon may crash at any step.                          *)
(*                                                                         *)
(* A file's data is a sequence of blocks and its size their number.  The   *)
(* offset is the hash of the data, and the hash stands for the data:       *)
(* collisions, and hashes that are 0 or -size, are left out.               *)
(***************************************************************************)
EXTENDS Hooks

CONSTANTS
  Surface,
  Contents,  \* what the tool saves
  Zero,      \* what the buffer holds where nothing was read
  MaxBytes,  \* cursorMaxFileBytes: larger files are skipped
  ChunkBudget,    \* chunkPayloadBudget: larger engrams are split
  MaxSaves, MaxFaults, MaxBoots \* bounds: saves, failing calls, starts of the daemon

Blocks == UNION {Range(c) : c \in Contents}

ASSUME CursorAssumption ==
  /\ Contents \subseteq Seq(Blocks)
  /\ MaxBytes \in Nat /\ ChunkBudget \in Nat \ {0}
  /\ MaxSaves \in Nat /\ MaxFaults \in Nat /\ MaxBoots \in Nat
  /\ \A c \in Contents : \A i \in DOMAIN c : c[i] # Zero

VARIABLES
  file,    \* the data of the file
  saving,  \* what the tool has yet to write of it
  armed,   \* an event has started the debounce timer
  pc,      \* of the parse: "idle", "read", "insert" or "save"; "down": no daemon
  size,    \* what Stat told
  held,    \* the file it opened, when that has been replaced: <<data, save>>
  buf,     \* what it will store
  origin,  \* the save that buf is the whole of, or 0
  mem, disk, \* the offset in memory and in state.json
  stored,  \* the data stored, in order, each with its origin and whether it may be a repeat
  excuse,  \* the next one may be a repeat
  missed,  \* a call of a parse has failed since the last one that had a result
  saved,   \* what the tool has saved, in order, and is saving
  faults, boots

cursorVars == <<file, saving, armed, pc, size, held, buf, origin, mem, disk, stored,
                excuse, missed, saved, faults, boots>>
vars == <<cursorVars, hookVars>>

\* Offsets: zero, a hash, or minus a size.
NoOffset == [kind |-> "zero", of |-> <<>>]
Hash(d)  == [kind |-> "hash", of |-> d]
Large(n) == [kind |-> "large", of |-> <<n>>]

CursorInit ==
  /\ file \in {<<>>} \cup Contents /\ saving = <<>>
  /\ armed = FALSE /\ pc = "down"
  /\ size = 0 /\ held = <<>> /\ buf = <<>> /\ origin = 0
  /\ mem = NoOffset /\ disk = NoOffset
  /\ stored = <<>> /\ excuse = FALSE /\ missed = FALSE
  /\ saved = <<file>> /\ faults = 0 /\ boots = 0
  /\ HooksInit

Up == pc # "down"

(***************************************************************************)
(* The tool saves, over a temporary file and a rename or in place.         *)
(***************************************************************************)
tool == <<file, saving, saved, armed>>
parse == <<pc, size, held, buf, origin, mem, disk, stored, excuse, missed, faults, boots>>

Save(c) == Len(saved) <= MaxSaves /\ saving = <<>> /\ saved' = Append(saved, c) /\ armed' = Up

SaveByRename(c) ==
  /\ Save(c)
  /\ file' = c
  /\ held' = IF pc = "read" /\ held = <<>> THEN <<file, Len(saved)>> ELSE held
  /\ UNCHANGED <<saving, pc, size, buf, origin, mem, disk, stored, excuse, missed, faults, boots, hookVars>>

SaveInPlace(c) ==
  /\ Save(c)
  /\ file' = <<>>
  /\ saving' = c
  /\ UNCHANGED <<parse, hookVars>>

WriteBlock ==
  /\ saving # <<>>
  /\ file' = Append(file, Head(saving))
  /\ saving' = Tail(saving)
  /\ armed' = Up
  /\ UNCHANGED <<saved, parse, hookVars>>

(***************************************************************************)
(* parseAndCommit                                                          *)
(***************************************************************************)
\* The parse has its result: no engram and an offset to record, or none.
Record(offset) ==
  /\ pc' = IF offset = mem THEN "idle" ELSE "save"
  /\ mem' = offset
  /\ missed' = FALSE

\* Open and Stat.
Parse ==
  /\ pc = "idle" /\ armed
  /\ armed' = FALSE
  /\ IF Len(file) = 0
       THEN Record(NoOffset) /\ excuse' = TRUE /\ UNCHANGED size
     ELSE IF Len(file) > MaxBytes
       THEN Record(Large(Len(file))) /\ excuse' = TRUE /\ UNCHANGED size
     ELSE pc' = "read" /\ size' = Len(file) /\ UNCHANGED <<mem, excuse, missed>>
  /\ UNCHANGED <<file, saving, saved, held, buf, origin, disk, stored, faults, boots, hookVars>>

\* Open, Stat or the read returns an error: the event is used up, nothing is
\* recorded and nobody tries again.
ParseFails ==
  /\ \/ pc = "idle" /\ armed /\ armed' = FALSE
     \/ pc = "read" /\ UNCHANGED armed
  /\ faults < MaxFaults /\ faults' = faults + 1
  /\ missed' = TRUE
  /\ pc' = "idle" /\ held' = <<>> /\ size' = 0
  /\ UNCHANGED <<file, saving, saved, buf, origin, mem, disk, stored, excuse, boots, hookVars>>

\* ReadFull into a buffer of Stat's size: what is not read stays zero.
Filled(d) == [i \in 1..size |-> IF i <= Len(d) THEN d[i] ELSE Zero]

\* A variant for comparison: the hash is not compared.
UnchangedNever(b) == FALSE

Unchanged(b) == Hash(b) = mem

Opened == IF held = <<>> THEN file ELSE held[1]

\* The save whose whole content the opened file has.
OpenedSave == IF held # <<>> THEN held[2] ELSE IF saving = <<>> THEN Len(saved) ELSE 0

\* Nothing at all is io.EOF, an error.
Reading(d) ==
  /\ pc = "read"
  /\ held' = <<>> /\ size' = 0
  /\ \/ /\ d = <<>> /\ pc' = "idle"
        /\ UNCHANGED <<buf, origin, missed>>
     \/ /\ d # <<>> /\ Unchanged(Filled(d)) /\ pc' = "idle"
        /\ missed' = FALSE
        /\ UNCHANGED <<buf, origin>>
     \/ /\ d # <<>> /\ ~ Unchanged(Filled(d)) /\ pc' = "insert"
        /\ buf' = Filled(d)
        /\ origin' = IF Filled(d) = d THEN OpenedSave ELSE 0
        /\ UNCHANGED missed
  /\ UNCHANGED <<file, saving, saved, mem, disk, stored, excuse, faults, boots, hookVars>>

\* A variant for comparison: events that came during the parse are dropped.
ReadDropping == Reading(Opened) /\ armed' = FALSE

Read == Reading(Opened) /\ UNCHANGED armed

Engram(d) == [surface |-> Surface, data |-> d]

\* One engram, or chunks of one.
Batch(b) ==
  IF Len(b) <= ChunkBudget THEN <<Engram(b)>>
  ELSE [i \in 1..((Len(b) + ChunkBudget - 1) \div ChunkBudget) |->
          Engram(SubSeq(b, (i - 1) * ChunkBudget + 1, IF i * ChunkBudget < Len(b) THEN i * ChunkBudget ELSE Len(b)))]

Insert ==
  /\ pc = "insert"
  /\ stored' = Append(stored, [data |-> buf, of |-> origin, excused |-> excuse])
  /\ excuse' = FALSE /\ missed' = FALSE
  /\ mem' = Hash(buf)
  /\ pc' = "save" /\ buf' = <<>> /\ origin' = 0
  /\ Dispatch(Batch(buf))
  /\ UNCHANGED <<tool, size, held, disk, faults, boots>>

\* A variant for comparison: the offset is recorded all the same.
InsertFailsRecorded ==
  /\ pc = "insert" /\ faults < MaxFaults
  /\ faults' = faults + 1
  /\ missed' = TRUE
  /\ mem' = Hash(buf) /\ pc' = "save" /\ buf' = <<>> /\ origin' = 0
  /\ UNCHANGED <<tool, size, held, disk, stored, excuse, boots, hookVars>>

\* The store is busy or refuses the batch: nothing is recorded, no hook fires.
InsertFails ==
  /\ pc = "insert" /\ faults < MaxFaults
  /\ faults' = faults + 1
  /\ missed' = TRUE
  /\ pc' = "idle" /\ buf' = <<>> /\ origin' = 0
  /\ UNCHANGED <<tool, size, held, mem, disk, stored, excuse, boots, hookVars>>

SaveState ==
  /\ pc = "save"
  /\ pc' = "idle"
  /\ \/ disk' = mem /\ UNCHANGED faults
     \/ faults < MaxFaults /\ faults' = faults + 1 /\ UNCHANGED disk
  /\ UNCHANGED <<tool, size, held, buf, origin, mem, stored, excuse, missed, boots, hookVars>>

(***************************************************************************)
(* The daemon.                                                             *)
(***************************************************************************)
\* The watch is set before scanInitial parses the file.
Boot ==
  /\ pc = "down" /\ boots < MaxBoots
  /\ boots' = boots + 1
  /\ pc' = "idle" /\ armed' = TRUE
  /\ mem' = disk
  /\ NewDispatcher
  /\ UNCHANGED <<file, saving, saved, size, held, buf, origin, disk, stored, excuse, missed, faults>>

Crash ==
  /\ Up
  /\ pc' = "down" /\ armed' = FALSE
  /\ held' = <<>> /\ size' = 0 /\ buf' = <<>> /\ origin' = 0
  /\ excuse' = (excuse \/ mem # disk)
  /\ UNCHANGED <<file, saving, saved, mem, disk, stored, missed, faults, boots, hookVars>>

ParseStep == Parse \/ ParseFails \/ Read \/ Insert \/ InsertFails \/ SaveState

CursorNext ==
  \/ \E c \in Contents : SaveByRename(c) \/ SaveInPlace(c)
  \/ WriteBlock \/ ParseStep \/ Boot \/ Crash
  \/ Up /\ Tick /\ UNCHANGED cursorVars

CursorSpec == CursorInit /\ [][CursorNext]_vars


(***************************************************************************)
(* Properties.                                                             *)
(***************************************************************************)
\* An offset in memory or in state.json is a hash only of data that is in the
\* store: no crash, failed insert or race of save and parse loses a save that
\* a parse has recorded.
OffsetIsStored ==
  \A o \in {mem, disk} : o.kind = "hash" => \E i \in DOMAIN stored : stored[i].data = o.of

\* From the save that i is of to the one that j is of, the tool saved the same.
SavedAlike(i, j) ==
  /\ stored[i].of # 0 /\ stored[j].of # 0
  /\ \A n \in stored[i].of .. stored[j].of : saved[n] = stored[i].data

Repeats(i, j) ==
  i < j /\ stored[i].data = stored[j].data /\ (j = i + 1 \/ SavedAlike(i, j))

\* "repeated saves of the same content do NOT produce duplicate engrams": data is
\* not stored again while the tool saves the same again and again, nor twice in
\* a row, unless the daemon crashed before it saved its offsets, a parse met the
\* file empty or too large, or a parse has stored a state of the file that no
\* save ends with, such as one in the middle of a save in place.
RepeatsExcused ==
  \A i, j \in DOMAIN stored :
    Repeats(i, j) => \E k \in i + 1 .. j : stored[k].excused \/ stored[k].of = 0

\* The same without a crash.  The code does not keep it: an empty or half-written
\* file resets the offset.
SavesDoNotRepeat == boots <= 1 => \A i, j \in DOMAIN stored : ~ Repeats(i, j)

\* The same where no parse has met the file empty or too large and no daemon
\* has crashed.  The code does not keep it: half a file resets the offset too.
HalvesDoNotRepeat ==
  \A i, j \in DOMAIN stored : Repeats(i, j) => \E k \in i + 1 .. j : stored[k].excused

\* What is stored was in the file.  The code does not keep it: a file cut short
\* between Stat and ReadFull leaves zeros at the buffer's end.
NothingInvented ==
  \A i \in DOMAIN stored : \A k \in DOMAIN stored[i].data : stored[i].data[k] # Zero

OffsetOf(d) == IF Len(d) = 0 THEN NoOffset ELSE IF Len(d) > MaxBytes THEN Large(Len(d)) ELSE Hash(d)

\* When the tool is done and no parse is due, the file's data is the last
\* recorded, hence stored, unless a call has failed (opening, reading or
\* storing) and no parse has had a result since.
QuietMeansRecorded ==
  pc = "idle" /\ ~ armed /\ saving = <<>> /\ ~ missed => mem = OffsetOf(file)

=============================================================================
