---------------------------- MODULE ParserProofs ----------------------------
(***************************************************************************)
(* Proofs about the two parsers: CursorTail, for every file, size limit,   *)
(* bound and set of hooks, and JsonlTail, for every alphabet, cap and      *)
(* budget.  Of the first: a recorded hash is that of stored data, repeats  *)
(* need an excuse, no saved state of the file is overlooked unless a call  *)
(* failed, and hooks keep their interval.  Of the second: the records of a *)
(* transcript are emitted in order and once, by the first pass that sees   *)
(* them, and come back from their chunks.                                  *)
(*                                                                         *)
(* What is said of a loop is by induction below a bound (Induct), from the *)
(* least element of a finite set; LoopRuns says that a loop has a result.  *)
(* The loops of Dispatch, over a batch and over the hooks, preserve what   *)
(* Maybe preserves (the set Sound); FlattenSeq joins one part at a time.   *)
(***************************************************************************)
EXTENDS CursorTail, JsonlTail, FiniteSetTheorems, FunctionTheorems, SequenceTheorems, TLAPS

Buffers == Seq(Blocks \cup {Zero})
Kept == [data : Buffers, of : Nat, excused : BOOLEAN]

(***************************************************************************)
(* Types.                                                                  *)
(***************************************************************************)
FileType  == /\ file \in Seq(Blocks) /\ saving \in Seq(Blocks) /\ saved \in Seq(Seq(Blocks))
             /\ (held = <<>> \/ \E d \in Seq(Blocks), n \in Nat : held = <<d, n>>)
ParseType == /\ pc \in {"idle", "read", "insert", "save", "down"} /\ size \in Nat
             /\ buf \in Buffers /\ origin \in Nat
StoreType == stored \in Seq(Kept)
FlagType  == excuse \in BOOLEAN

CursorType == FileType /\ ParseType /\ StoreType /\ FlagType

LEMMA BlocksAreData == Seq(Blocks) \subseteq Buffers
BY DEF Buffers

LEMMA OpenedIsData == FileType => Opened \in Seq(Blocks)
BY DEF FileType, Opened

LEMMA FilledIsData == ASSUME size \in Nat, NEW d \in Seq(Blocks) PROVE Filled(d) \in Buffers
<1>1. \A i \in 1..size : (IF i <= Len(d) THEN d[i] ELSE Zero) \in Blocks \cup {Zero}
  OBVIOUS
<1>2. Filled(d) \in [1..size -> Blocks \cup {Zero}]
  BY <1>1 DEF Filled
<1> QED
  BY <1>2 DEF Buffers

\* A whole file fills the buffer with itself.
LEMMA FilledIsWhole == ASSUME NEW d \in Seq(Blocks), size = Len(d) PROVE Filled(d) = d
<1>1. d = [i \in 1..Len(d) |-> d[i]]
  OBVIOUS
<1> QED
  BY <1>1 DEF Filled

LEMMA FileTypeStep == CursorType /\ [CursorNext]_vars => FileType'
<1> SUFFICES ASSUME CursorType, [CursorNext]_vars PROVE FileType'
  OBVIOUS
<1> USE DEF FileType
<1>1. FileType
  BY DEF CursorType
<1>2. ASSUME NEW c \in Contents, SaveByRename(c) PROVE FileType'
  <2>1. c \in Seq(Blocks) /\ Len(saved) \in Nat
    BY <1>1, CursorAssumption
  <2>2. file' = c /\ saving' = saving /\ saved' = Append(saved, c)
    BY <1>2 DEF SaveByRename, Save
  <2>3. held' = held \/ held' = <<file, Len(saved)>>
    BY <1>2 DEF SaveByRename
  <2> QED
    BY <1>1, <2>1, <2>2, <2>3
<1>3. ASSUME NEW c \in Contents, SaveInPlace(c) PROVE FileType'
  <2>1. c \in Seq(Blocks) /\ <<>> \in Seq(Blocks)
    BY CursorAssumption
  <2>2. file' = <<>> /\ saving' = c /\ saved' = Append(saved, c) /\ held' = held
    BY <1>3 DEF SaveInPlace, Save, parse
  <2> QED
    BY <1>1, <2>1, <2>2
<1>4. CASE WriteBlock
  BY <1>1, <1>4 DEF WriteBlock, parse
<1>5. CASE Parse \/ Insert \/ InsertFails \/ SaveState \/ Boot \/ UNCHANGED cursorVars
  BY <1>1, <1>5 DEF Parse, Insert, InsertFails, SaveState, Boot, tool, cursorVars
<1>6. CASE Read \/ ParseFails \/ Crash
  BY <1>1, <1>6 DEF Read, Reading, ParseFails, Crash
<1> QED
  BY <1>2, <1>3, <1>4, <1>5, <1>6 DEF CursorNext, ParseStep, vars

LEMMA ParseTypeStep == CursorType /\ [CursorNext]_vars => ParseType'
<1> SUFFICES ASSUME CursorType, [CursorNext]_vars PROVE ParseType'
  OBVIOUS
<1>1. FileType /\ ParseType
  BY DEF CursorType
<1>2. <<>> \in Buffers
  BY DEF Buffers
<1> USE DEF ParseType
<1>3. CASE \E c \in Contents : SaveByRename(c) \/ SaveInPlace(c)
  BY <1>1, <1>3 DEF SaveByRename, SaveInPlace, parse
<1>4. CASE WriteBlock \/ UNCHANGED cursorVars
  BY <1>1, <1>4 DEF WriteBlock, parse, cursorVars
<1>5. CASE Parse
  BY <1>1, <1>5 DEF Parse, Record, FileType
<1>6. CASE Read
  <2>1. Filled(Opened) \in Buffers
    BY <1>1, OpenedIsData, FilledIsData
  <2>2. OpenedSave \in Nat
    BY <1>1 DEF FileType, OpenedSave
  <2> QED
    BY <1>1, <1>6, <2>1, <2>2 DEF Read, Reading
<1>7. CASE ParseFails \/ Insert \/ InsertFails \/ SaveState \/ Boot \/ Crash
  BY <1>1, <1>2, <1>7 DEF ParseFails, Insert, InsertFails, SaveState, Boot, Crash
<1> QED
  BY <1>3, <1>4, <1>5, <1>6, <1>7 DEF CursorNext, ParseStep, vars

LEMMA StoreTypeStep == CursorType /\ [CursorNext]_vars => StoreType'
<1> SUFFICES ASSUME CursorType, [CursorNext]_vars PROVE StoreType'
  OBVIOUS
<1>1. CASE Insert
  <2>1. [data |-> buf, of |-> origin, excused |-> excuse] \in Kept
    BY DEF CursorType, ParseType, FlagType, Kept
  <2> QED
    BY <1>1, <2>1 DEF Insert, CursorType, StoreType
<1>2. CASE UNCHANGED stored
  BY <1>2 DEF CursorType, StoreType
<1>3. Insert \/ UNCHANGED stored
  BY DEF CursorNext, SaveByRename, SaveInPlace, WriteBlock, parse, ParseStep, Parse, ParseFails, Read, Reading,
         InsertFails, SaveState, Boot, Crash, cursorVars, vars
<1> QED
  BY <1>1, <1>2, <1>3

LEMMA FlagTypeStep == CursorType /\ [CursorNext]_vars => FlagType'
<1> SUFFICES ASSUME CursorType, [CursorNext]_vars PROVE FlagType'
  OBVIOUS
<1>1. excuse \in BOOLEAN
  BY DEF CursorType, FlagType
<1>2. \/ excuse' = TRUE \/ excuse' = FALSE \/ excuse' = excuse \/ excuse' = (excuse \/ mem # disk)
  BY DEF CursorNext, SaveByRename, SaveInPlace, WriteBlock, parse, ParseStep, Parse, ParseFails, Read, Reading,
         Insert, InsertFails, SaveState, Boot, Crash, cursorVars, vars
<1> QED
  BY <1>1, <1>2 DEF FlagType

LEMMA CursorTypeInvariant == CursorSpec => []CursorType
<1>1. CursorInit => CursorType
  <2>1. <<>> \in Seq(Blocks) /\ <<>> \in Buffers /\ <<>> \in Seq(Kept)
    BY DEF Buffers
  <2>2. CursorInit => file \in Seq(Blocks) /\ saved = <<file>>
    BY <2>1, CursorAssumption DEF CursorInit
  <2> QED
    <3> SUFFICES ASSUME CursorInit PROVE CursorType
      OBVIOUS
    <3>1. FileType
      BY <2>1, <2>2 DEF CursorInit, FileType
    <3>2. ParseType /\ StoreType
      BY <2>1 DEF CursorInit, ParseType, StoreType
    <3>3. FlagType
      BY DEF CursorInit, FlagType
    <3> QED
      BY <3>1, <3>2, <3>3 DEF CursorType
<1>2. CursorType /\ [CursorNext]_vars => CursorType'
  BY FileTypeStep, ParseTypeStep, StoreTypeStep, FlagTypeStep DEF CursorType
<1> QED
  BY <1>1, <1>2, PTL DEF CursorSpec

(***************************************************************************)
(* Recorded means stored.                                                  *)
(***************************************************************************)
IsStored(o) == o.kind = "hash" => \E i \in DOMAIN stored : stored[i].data = o.of

LEMMA StoredStep == CursorType /\ OffsetIsStored /\ [CursorNext]_vars => OffsetIsStored'
<1> SUFFICES ASSUME CursorType, OffsetIsStored, [CursorNext]_vars PROVE OffsetIsStored'
  OBVIOUS
<1>1. IsStored(mem) /\ IsStored(disk)
  BY DEF OffsetIsStored, IsStored
<1>2. CASE Insert
  <2> DEFINE last == [data |-> buf, of |-> origin, excused |-> excuse]
  <2>1. stored \in Seq(Kept) /\ last \in Kept /\ stored' = Append(stored, last)
    BY <1>2 DEF CursorType, StoreType, ParseType, FlagType, Kept, Insert
  <2>2. mem' = Hash(buf) /\ disk' = disk /\ last.data = buf
    BY <1>2 DEF Insert
  <2> HIDE DEF last
  <2>3. \A i \in DOMAIN stored : i \in DOMAIN stored' /\ stored'[i] = stored[i]
    BY <2>1
  <2>4. Len(stored) + 1 \in DOMAIN stored' /\ stored'[Len(stored) + 1] = last
    BY <2>1
  <2> QED
    BY <1>1, <2>2, <2>3, <2>4 DEF OffsetIsStored, IsStored, Hash
<1>3. CASE UNCHANGED stored /\ mem' \in {mem, disk, NoOffset, Large(Len(file))} /\ disk' \in {mem, disk}
  BY <1>1, <1>3 DEF OffsetIsStored, IsStored, NoOffset, Large
<1>4. Insert \/ (UNCHANGED stored /\ mem' \in {mem, disk, NoOffset, Large(Len(file))} /\ disk' \in {mem, disk})
  BY DEF CursorNext, SaveByRename, SaveInPlace, WriteBlock, parse, ParseStep, Parse, Record,
         ParseFails, Read, Reading, InsertFails, SaveState, Boot, Crash, cursorVars, vars
<1> QED
  BY <1>2, <1>3, <1>4

\* No crash, failed insert or race of save and parse lets an offset say that
\* data is stored which is not.
THEOREM RecordedIsStored == CursorSpec => []OffsetIsStored
<1>1. CursorInit => OffsetIsStored
  BY DEF CursorInit, OffsetIsStored, NoOffset
<1> QED
  BY <1>1, StoredStep, CursorTypeInvariant, PTL DEF CursorSpec

\* Only between Stat and the end of the read is a replaced file held open.
HeldWhileRead == pc # "read" => held = <<>>

LEMMA HeldStep == HeldWhileRead /\ [CursorNext]_vars => HeldWhileRead'
BY DEF HeldWhileRead, CursorNext, SaveByRename, SaveInPlace, WriteBlock, parse, tool, ParseStep, Parse,
       Record, ParseFails, Read, Reading, Insert, InsertFails, SaveState, Boot, Crash, cursorVars, vars

(***************************************************************************)
(* Origins: what a save ended with is what the file, a file held open, the *)
(* buffer or an entry of the store is said to be the whole of, and entries *)
(* are of later and later saves.                                           *)
(***************************************************************************)
FileSaved == Len(saved) # 0 /\ file \o saving = saved[Len(saved)]

HeldSaved == held # <<>> => held[2] \in 1..Len(saved) /\ held[1] = saved[held[2]]

BufSaved == origin # 0 => origin \in 1..Len(saved) /\ saved[origin] = buf

StoredSaved ==
  \A k \in DOMAIN stored : stored[k].of # 0 =>
    /\ stored[k].of \in 1..Len(saved) /\ saved[stored[k].of] = stored[k].data
    /\ held # <<>> => stored[k].of <= held[2]
    /\ origin # 0 => stored[k].of <= origin

InOrderOfSaves ==
  \A k, l \in DOMAIN stored : k < l /\ stored[l].of # 0 => stored[k].of <= stored[l].of

OriginInv == FileSaved /\ HeldSaved /\ BufSaved /\ StoredSaved /\ InOrderOfSaves

\* Nothing that a step of OriginInv speaks of changes but by these.
OriginStill == UNCHANGED <<file, saving, saved, stored>>

LEMMA OriginStillStep ==
  ASSUME CursorType, OriginInv, OriginStill,
         held' = held \/ held' = <<>>, UNCHANGED <<buf, origin>> \/ origin' = 0
  PROVE  OriginInv'
BY DEF OriginInv, OriginStill, FileSaved, HeldSaved, BufSaved, StoredSaved, InOrderOfSaves

\* What a save adds leaves the earlier ones where they were.
LEMMA SavedGrows ==
  ASSUME CursorType, OriginInv, NEW c \in Contents, saved' = Append(saved, c),
         file' \o saving' = c, UNCHANGED <<buf, origin, stored>>,
         \/ held' = held
         \/ held' = <<file, Len(saved)>> /\ saving = <<>>
  PROVE  OriginInv'
<1> USE DEF OriginInv
<1>1. saved \in Seq(Seq(Blocks)) /\ c \in Seq(Blocks) /\ file \in Seq(Blocks) /\ stored \in Seq(Kept)
  BY CursorAssumption DEF CursorType, FileType, StoreType
<1>2. Len(saved') = Len(saved) + 1 /\ saved'[Len(saved')] = c /\ Len(saved) \in Nat
  BY <1>1
<1>3. \A n \in 1..Len(saved) : n \in 1..Len(saved') /\ saved'[n] = saved[n]
  BY <1>1, <1>2
<1>4. FileSaved'
  BY <1>2 DEF FileSaved
<1>5. BufSaved' /\ InOrderOfSaves'
  BY <1>3 DEF BufSaved, InOrderOfSaves
<1>6. CASE held' = held
  <2>1. HeldSaved' /\ StoredSaved'
    BY <1>3, <1>6 DEF HeldSaved, StoredSaved
  <2> QED
    BY <1>4, <1>5, <2>1
<1>7. CASE held' = <<file, Len(saved)>> /\ saving = <<>>
  <2>1. file \o <<>> = file
    BY <1>1
  <2>2. Len(saved) \in 1..Len(saved) /\ file = saved[Len(saved)]
    BY <1>2, <1>7, <2>1 DEF FileSaved
  <2>3. HeldSaved'
    BY <1>3, <1>7, <2>2 DEF HeldSaved
  <2>4. StoredSaved'
    BY <1>2, <1>3, <1>7 DEF StoredSaved
  <2> QED
    BY <1>4, <1>5, <2>3, <2>4
<1> QED
  BY <1>6, <1>7

LEMMA ReadOrigin ==
  ASSUME CursorType, OriginInv, Read
  PROVE  OriginInv'
<1> USE DEF OriginInv
<1>1. held' = <<>> /\ OriginStill
  BY DEF Read, Reading, OriginStill
<1>2. CASE UNCHANGED <<buf, origin>> \/ origin' = 0
  BY <1>1, <1>2, OriginStillStep
<1>3. CASE buf' = Opened /\ origin' = OpenedSave /\ OpenedSave # 0
  <2>1. file \in Seq(Blocks) /\ Len(saved) \in Nat /\ stored \in Seq(Kept)
    BY DEF CursorType, FileType, StoreType
  <2>2. OpenedSave \in 1..Len(saved) /\ saved[OpenedSave] = Opened
    <3>1. CASE held # <<>>
      BY <3>1 DEF HeldSaved, OpenedSave, Opened
    <3>2. CASE held = <<>>
      <4>1. saving = <<>> /\ OpenedSave = Len(saved) /\ Opened = file
        BY <1>3, <3>2 DEF OpenedSave, Opened
      <4> QED
        BY <2>1, <4>1 DEF FileSaved
    <3> QED
      BY <3>1, <3>2
  <2>3. \A k \in DOMAIN stored : stored[k].of # 0 => stored[k].of <= OpenedSave
    BY <1>3, <2>1 DEF StoredSaved, OpenedSave
  <2>4. FileSaved' /\ HeldSaved' /\ InOrderOfSaves'
    BY <1>1 DEF OriginStill, FileSaved, HeldSaved, InOrderOfSaves
  <2>5. BufSaved'
    BY <1>1, <1>3, <2>2 DEF OriginStill, BufSaved
  <2>6. StoredSaved'
    BY <1>1, <1>3, <2>3 DEF OriginStill, StoredSaved
  <2> QED
    BY <2>4, <2>5, <2>6
<1>4. \/ UNCHANGED <<buf, origin>> \/ origin' = 0
      \/ buf' = Opened /\ origin' = OpenedSave /\ OpenedSave # 0
  BY DEF Read, Reading
<1> QED
  BY <1>2, <1>3, <1>4

LEMMA InsertOrigin ==
  ASSUME CursorType, HeldWhileRead, OriginInv, Insert
  PROVE  OriginInv'
<1> USE DEF OriginInv
<1> DEFINE last == [data |-> buf, of |-> origin, excused |-> excuse]
<1>1. /\ stored \in Seq(Kept) /\ last \in Kept /\ stored' = Append(stored, last)
      /\ last.data = buf /\ last.of = origin
  BY DEF CursorType, StoreType, ParseType, FlagType, Kept, Insert
<1>2. held = <<>> /\ held' = <<>> /\ origin' = 0 /\ UNCHANGED <<file, saving, saved>>
  BY DEF HeldWhileRead, Insert, tool
<1> HIDE DEF last
<1>3. Len(stored') = Len(stored) + 1 /\ stored'[Len(stored')] = last /\ Len(stored) \in Nat
  BY <1>1
<1>4. ASSUME NEW k \in DOMAIN stored'
      PROVE  (k \in DOMAIN stored /\ stored'[k] = stored[k]) \/ (k = Len(stored') /\ stored'[k] = last)
  BY <1>1, <1>3
<1>5. FileSaved' /\ HeldSaved' /\ BufSaved'
  BY <1>2 DEF FileSaved, HeldSaved, BufSaved
<1>6. StoredSaved'
  BY <1>1, <1>2, <1>4 DEF StoredSaved, BufSaved
<1>7. ASSUME NEW k \in DOMAIN stored', NEW l \in DOMAIN stored', k < l, stored'[l].of # 0
      PROVE  stored'[k].of <= stored'[l].of
  <2> k \in 1..Len(stored') /\ l \in 1..Len(stored') /\ DOMAIN stored = 1..Len(stored)
    BY <1>1
  <2>1. k \in DOMAIN stored /\ stored'[k] = stored[k]
    <3>1. k # Len(stored')
      BY <1>3, <1>7
    <3> QED
      BY <1>4, <3>1
  <2>2. stored[k].of \in Nat
    <3>1. stored[k] \in Kept
      BY <1>1, <2>1
    <3> QED
      BY <3>1 DEF Kept
  <2>3. CASE l \in DOMAIN stored /\ stored'[l] = stored[l]
    BY <1>7, <2>1, <2>3 DEF InOrderOfSaves
  <2>4. CASE l = Len(stored') /\ stored'[l] = last
    <3>1. origin # 0 /\ stored'[l].of = origin /\ origin \in Nat
      BY <1>1, <1>7, <2>4 DEF CursorType, ParseType
    <3>2. stored[k].of # 0 => stored[k].of <= origin
      BY <2>1, <3>1 DEF StoredSaved
    <3> QED
      BY <2>1, <2>2, <3>1, <3>2
  <2> QED
    BY <1>4, <2>3, <2>4
<1>8. InOrderOfSaves'
  BY <1>7 DEF InOrderOfSaves
<1> QED
  BY <1>5, <1>6, <1>8

LEMMA OriginStep == CursorType /\ HeldWhileRead /\ OriginInv /\ [CursorNext]_vars => OriginInv'
<1> SUFFICES ASSUME CursorType, HeldWhileRead, OriginInv, [CursorNext]_vars PROVE OriginInv'
  OBVIOUS
<1>1. file \in Seq(Blocks) /\ saving \in Seq(Blocks)
  BY DEF CursorType, FileType
<1>2. ASSUME NEW c \in Contents, SaveByRename(c) PROVE OriginInv'
  <2>1. c \in Seq(Blocks)
    BY CursorAssumption
  <2>2. saving = <<>> /\ saved' = Append(saved, c) /\ file' \o saving' = c
    BY <1>2, <2>1 DEF SaveByRename, Save
  <2> QED
    BY <1>2, <2>2, SavedGrows DEF SaveByRename
<1>3. ASSUME NEW c \in Contents, SaveInPlace(c) PROVE OriginInv'
  <2>1. c \in Seq(Blocks)
    BY CursorAssumption
  <2>2. saved' = Append(saved, c) /\ file' \o saving' = c
    BY <1>3, <2>1 DEF SaveInPlace, Save
  <2> QED
    BY <1>3, <2>2, SavedGrows DEF SaveInPlace, parse
<1>4. CASE WriteBlock
  <2>1. Append(file, Head(saving)) \o Tail(saving) = file \o saving
    <3>1. saving # <<>>
      BY <1>4 DEF WriteBlock
    <3> DEFINE left == Append(file, Head(saving)) \o Tail(saving)
               right == file \o saving
    <3>2. /\ left \in Seq(Blocks) /\ right \in Seq(Blocks)
          /\ Len(left) = Len(file) + Len(saving) /\ Len(right) = Len(left)
      BY <1>1, <3>1
    <3>3. ASSUME NEW i \in 1..Len(left) PROVE left[i] = right[i]
      BY <1>1, <3>1, <3>2
    <3> HIDE DEF left, right
    <3>4. left = right
      BY <3>2, <3>3
    <3> QED
      BY <3>4 DEF left, right
  <2>2. file' \o saving' = file \o saving /\ UNCHANGED <<saved, held, buf, origin, stored>>
    BY <1>4, <2>1 DEF WriteBlock, parse
  <2> QED
    BY <2>2 DEF OriginInv, FileSaved, HeldSaved, BufSaved, StoredSaved, InOrderOfSaves
<1>5. CASE Parse \/ ParseFails \/ InsertFails \/ SaveState \/ Boot \/ Crash \/ UNCHANGED cursorVars
  <2>1. OriginStill /\ (held' = held \/ held' = <<>>) /\ (UNCHANGED <<buf, origin>> \/ origin' = 0)
    BY <1>5 DEF Parse, ParseFails, InsertFails, SaveState, Boot, Crash, tool, cursorVars, OriginStill
  <2> QED
    BY <2>1, OriginStillStep
<1> QED
  BY <1>2, <1>3, <1>4, <1>5, ReadOrigin, InsertOrigin DEF CursorNext, ParseStep, vars

(***************************************************************************)
(* Repeats.                                                                *)
(***************************************************************************)
\* Unless the next one is excused, what was stored last is what the daemon, or
\* the next one, goes by; and what is about to be stored differs from it.
LastKnown ==
  stored # <<>> =>
    excuse \/ (IF pc = "down" THEN disk ELSE mem) = Hash(stored[Len(stored)].data)

Different == pc = "insert" => Hash(buf) # mem

RepeatInv == RepeatsExcused /\ LastKnown /\ Different

\* What SavedAlike says of two entries does not change.
LEMMA AlikeStays ==
  ASSUME CursorType, OriginInv, NEW i \in DOMAIN stored, NEW j \in DOMAIN stored,
         stored' = stored, saved' = saved \/ \E c \in Contents : saved' = Append(saved, c),
         SavedAlike(i, j)'
  PROVE  SavedAlike(i, j)
<1>1. saved \in Seq(Seq(Blocks)) /\ Contents \subseteq Seq(Blocks)
  BY CursorAssumption DEF CursorType, FileType
<1>2. stored[j].of \in 1..Len(saved) /\ stored[i].of \in 1..Len(saved)
  BY DEF OriginInv, StoredSaved, SavedAlike
<1>3. \A n \in 1..Len(saved) : saved'[n] = saved[n]
  <2>1. ASSUME NEW c \in Contents, saved' = Append(saved, c)
        PROVE  \A n \in 1..Len(saved) : saved'[n] = saved[n]
    BY <1>1, <2>1
  <2> QED
    BY <2>1
<1>4. ASSUME NEW n \in stored[i].of .. stored[j].of
      PROVE  n \in 1..Len(saved)
  <2>1. Len(saved) \in Nat
    BY <1>1
  <2> QED
    BY <1>2, <2>1
<1> QED
  BY <1>3, <1>4 DEF SavedAlike

\* Nothing becomes a repeat by what the tool saves later.
LEMMA RepeatsStay ==
  ASSUME CursorType, OriginInv, RepeatsExcused,
         stored' = stored, saved' = saved \/ \E c \in Contents : saved' = Append(saved, c)
  PROVE  RepeatsExcused'
<1>1. ASSUME NEW i \in DOMAIN stored, NEW j \in DOMAIN stored, Repeats(i, j)'
      PROVE  Repeats(i, j)
  BY <1>1, AlikeStays DEF Repeats
<1> QED
  BY <1>1 DEF RepeatsExcused

\* Between two entries of the same data that nothing excuses there is another
\* of that data, or one that no save ends with.
OneBetween ==
  \A i, j \in DOMAIN stored :
    i < j /\ stored[i].data = stored[j].data /\ SavedAlike(i, j) /\ j # i + 1 =>
      stored[j - 1].of = 0 \/ stored[j - 1].data = stored[j].data

LEMMA RepeatsMeet == CursorType /\ OriginInv => OneBetween
<1> SUFFICES ASSUME CursorType, OriginInv, NEW i \in DOMAIN stored, NEW j \in DOMAIN stored,
                    i < j, SavedAlike(i, j), stored[i].data = stored[j].data, j # i + 1
             PROVE  stored[j - 1].of = 0 \/ stored[j - 1].data = stored[j].data
  BY DEF OneBetween
<1>1. i \in 1..Len(stored) /\ j \in 1..Len(stored) /\ Len(stored) \in Nat /\ DOMAIN stored = 1..Len(stored)
  BY DEF CursorType, StoreType
<1>2. j - 1 \in DOMAIN stored /\ i < j - 1 /\ j - 1 < j
  BY <1>1
<1>3. CASE stored[j - 1].of # 0
  <2>1. stored[i].of <= stored[j - 1].of /\ stored[j - 1].of <= stored[j].of
    BY <1>2, <1>3 DEF OriginInv, InOrderOfSaves, SavedAlike
  <2>2. stored[j - 1].of \in 1..Len(saved) /\ saved[stored[j - 1].of] = stored[j - 1].data
    BY <1>2, <1>3 DEF OriginInv, StoredSaved
  <2>3. stored[i].of \in 1..Len(saved) /\ stored[j].of \in 1..Len(saved)
    BY DEF OriginInv, StoredSaved, SavedAlike
  <2>4. stored[j - 1].of \in stored[i].of .. stored[j].of
    BY <2>1, <2>2, <2>3
  <2> QED
    BY <1>2, <2>2, <2>4 DEF SavedAlike
<1> QED
  BY <1>2, <1>3

LEMMA RepeatStep ==
  CursorType /\ HeldWhileRead /\ OriginInv /\ RepeatInv /\ [CursorNext]_vars => RepeatInv'
<1> SUFFICES ASSUME CursorType, HeldWhileRead, OriginInv, RepeatInv, [CursorNext]_vars
             PROVE  RepeatInv'
  OBVIOUS
<1> USE DEF RepeatInv
<1>1. CASE Insert
  <2> DEFINE last == [data |-> buf, of |-> origin, excused |-> excuse]
  <2>1. /\ stored \in Seq(Kept) /\ last \in Kept /\ stored' = Append(stored, last)
        /\ last.data = buf /\ last.excused = excuse
    BY <1>1 DEF CursorType, StoreType, ParseType, FlagType, Kept, Insert
  <2>2. pc = "insert" /\ pc' = "save" /\ mem' = Hash(buf) /\ saved' = saved
    BY <1>1 DEF Insert, tool
  <2> HIDE DEF last
  <2>3. Len(stored') = Len(stored) + 1 /\ stored'[Len(stored')] = last
    BY <2>1
  <2>4. LastKnown' /\ Different'
    BY <2>1, <2>2, <2>3 DEF LastKnown, Different
  <2>5. CursorType' /\ OriginInv'
    BY <1>1, InsertOrigin, FileTypeStep, ParseTypeStep, StoreTypeStep, FlagTypeStep DEF CursorType
  <2>6. ASSUME NEW i \in DOMAIN stored', NEW j \in DOMAIN stored', Repeats(i, j)',
               j = Len(stored')
        PROVE  \E k \in i + 1 .. j : stored'[k].excused \/ stored'[k].of = 0
    <3>1. /\ Len(stored) \in Nat /\ DOMAIN stored = 1..Len(stored) /\ DOMAIN stored' = 1..Len(stored')
          /\ \A k \in 1..Len(stored) : stored'[k] = stored[k]
      BY <2>1
    <3>2. /\ i \in 1..Len(stored') /\ j \in 1..Len(stored') /\ i < j
          /\ stored'[i].data = stored'[j].data
          /\ j = i + 1 \/ SavedAlike(i, j)'
      BY <2>6, <3>1 DEF Repeats
    <3>3. j - 1 \in 1..Len(stored) /\ j - 1 = Len(stored) /\ j \in i + 1 .. j /\ stored'[j] = last
      BY <2>3, <2>6, <3>1, <3>2
    <3>4. CASE stored'[j - 1].data = stored'[j].data
      <4>1. stored # <<>> /\ Hash(stored[Len(stored)].data) = Hash(buf)
        BY <2>1, <3>1, <3>3, <3>4
      <4>2. excuse
        BY <2>2, <4>1 DEF LastKnown, Different
      <4> QED
        BY <2>1, <3>3, <4>2
    <3>5. CASE stored'[j - 1].data # stored'[j].data
      <4>1. j # i + 1 /\ SavedAlike(i, j)'
        <5>1. j = i + 1 => j - 1 = i
          BY <3>1, <3>2
        <5> QED
          BY <3>2, <3>5, <5>1
      <4>2. OneBetween'
        BY <2>5, RepeatsMeet, PTL
      <4>3. stored'[j - 1].of = 0
        BY <2>6, <3>2, <3>5, <4>1, <4>2 DEF OneBetween
      <4>4. j - 1 \in i + 1 .. j
        BY <2>3, <3>1, <3>2, <4>1
      <4> QED
        BY <4>3, <4>4
    <3> QED
      BY <3>4, <3>5
  <2>7. ASSUME NEW i \in DOMAIN stored', NEW j \in DOMAIN stored', Repeats(i, j)',
               j # Len(stored')
        PROVE  \E k \in i + 1 .. j : stored'[k].excused \/ stored'[k].of = 0
    <3>1. /\ Len(stored) \in Nat /\ DOMAIN stored = 1..Len(stored) /\ DOMAIN stored' = 1..Len(stored')
          /\ \A k \in 1..Len(stored) : stored'[k] = stored[k]
      BY <2>1
    <3>2. i \in 1..Len(stored) /\ j \in 1..Len(stored)
      <4>1. i < j
        BY <2>7 DEF Repeats
      <4> QED
        BY <2>3, <2>7, <3>1, <4>1
    <3>3. Repeats(i, j)
      BY <2>2, <2>7, <3>1, <3>2 DEF Repeats, SavedAlike
    <3>4. PICK k \in i + 1 .. j : stored[k].excused \/ stored[k].of = 0
      BY <3>1, <3>2, <3>3 DEF RepeatsExcused
    <3>5. k \in 1..Len(stored)
      BY <3>2, <3>4
    <3> QED
      BY <3>1, <3>4, <3>5
  <2>8. RepeatsExcused'
    BY <2>6, <2>7 DEF RepeatsExcused
  <2> QED
    BY <2>4, <2>8
<1>2. ASSUME UNCHANGED stored PROVE RepeatsExcused'
  <2>1. saved' = saved \/ \E c \in Contents : saved' = Append(saved, c)
    <3>1. CASE \E c \in Contents : SaveByRename(c) \/ SaveInPlace(c)
      BY <3>1 DEF SaveByRename, SaveInPlace, Save
    <3>2. CASE WriteBlock \/ ParseStep \/ Boot \/ Crash \/ UNCHANGED cursorVars
      <4>1. saved' = saved
        BY <3>2 DEF WriteBlock, tool, ParseStep, Parse, ParseFails, Read, Reading, Insert, InsertFails,
                    SaveState, Boot, Crash, cursorVars
      <4> QED
        BY <4>1
    <3> QED
      BY <3>1, <3>2 DEF CursorNext, vars
  <2> QED
    BY <1>2, <2>1, RepeatsStay
<1>3. CASE Read
  BY <1>2, <1>3 DEF Read, Reading, Unchanged, LastKnown, Different
<1>4. CASE Parse
  BY <1>2, <1>4 DEF Parse, Record, LastKnown, Different
<1>5. CASE ParseFails \/ InsertFails \/ SaveState \/ Boot
  BY <1>2, <1>5 DEF ParseFails, InsertFails, SaveState, Boot, LastKnown, Different
<1>6. CASE Crash
  BY <1>2, <1>6 DEF Crash, Up, LastKnown, Different
<1>7. CASE UNCHANGED parse
  BY <1>2, <1>7 DEF parse, LastKnown, Different
<1>8. CASE \E c \in Contents : SaveByRename(c)
  BY <1>2, <1>8 DEF SaveByRename, LastKnown, Different
<1>9. UNCHANGED cursorVars => UNCHANGED parse
  BY DEF cursorVars, parse
<1> QED
  BY <1>1, <1>3, <1>4, <1>5, <1>6, <1>7, <1>8, <1>9
     DEF CursorNext, SaveInPlace, WriteBlock, ParseStep, vars

\* "repeated saves of the same content do NOT produce duplicate engrams", but
\* after a crash before the offset is saved, an empty or too large file, or a
\* half-written one that was stored between.
THEOREM RepeatsAreExcused == CursorSpec => []RepeatsExcused
<1>1. CursorInit => HeldWhileRead /\ OriginInv /\ RepeatInv
  <2> SUFFICES ASSUME CursorInit PROVE HeldWhileRead /\ OriginInv /\ RepeatInv
    OBVIOUS
  <2>1. file \in Seq(Blocks) /\ saving = <<>>
    <3>1. file \in {<<>>} \cup Contents /\ saving = <<>>
      BY DEF CursorInit
    <3>2. <<>> \in Seq(Blocks)
      OBVIOUS
    <3> QED
      BY <3>1, <3>2, CursorAssumption
  <2>2. file \o saving = file /\ saved = <<file>> /\ Len(<<file>>) = 1
    BY <2>1 DEF CursorInit
  <2>3. FileSaved
    BY <2>2 DEF FileSaved
  <2>5. HeldSaved /\ BufSaved /\ StoredSaved /\ InOrderOfSaves
    <3>1. held = <<>> /\ origin = 0 /\ DOMAIN stored = {}
      BY DEF CursorInit
    <3>2. HeldSaved
      BY <3>1 DEF HeldSaved
    <3>3. BufSaved
      BY <3>1 DEF BufSaved
    <3>4. StoredSaved /\ InOrderOfSaves
      BY <3>1 DEF StoredSaved, InOrderOfSaves
    <3> QED
      BY <3>2, <3>3, <3>4
  <2>4. HeldWhileRead /\ RepeatInv
    BY DEF CursorInit, HeldWhileRead, RepeatInv, RepeatsExcused, LastKnown, Different
  <2> QED
    BY <2>3, <2>4, <2>5 DEF OriginInv
<1>2. RepeatInv => RepeatsExcused
  BY DEF RepeatInv
<1> QED
  BY <1>1, <1>2, HeldStep, OriginStep, RepeatStep, CursorTypeInvariant, PTL DEF CursorSpec

(***************************************************************************)
(* No saved state is overlooked.                                           *)
(***************************************************************************)
\* While nothing announces a change, each step of the parse has in hand what
\* the file is.
InHand ==
  Up /\ ~ armed /\ saving = <<>> =>
    /\ pc = "save" \/ (pc = "idle" /\ ~ missed) => mem = OffsetOf(file)
    /\ pc = "read" => held = <<>> /\ size = Len(file) /\ size # 0 /\ size <= MaxBytes
    /\ pc = "insert" => Hash(buf) = OffsetOf(file)

LEMMA CurrentStep == CursorType /\ HeldWhileRead /\ InHand /\ [CursorNext]_vars => InHand'
<1> SUFFICES ASSUME CursorType, HeldWhileRead, InHand, [CursorNext]_vars PROVE InHand'
  OBVIOUS
<1>1. CASE \E c \in Contents : SaveByRename(c) \/ SaveInPlace(c)
  BY <1>1 DEF SaveByRename, SaveInPlace, Save, parse, InHand, Up
<1>2. CASE WriteBlock
  BY <1>2 DEF WriteBlock, parse, InHand, Up
<1>3. CASE Parse
  <2>1. Len(file) \in Nat /\ MaxBytes \in Nat
    BY CursorAssumption DEF CursorType, FileType
  <2>2. file' = file
    BY <1>3 DEF Parse
  <2>3. CASE Len(file) = 0 \/ Len(file) > MaxBytes
    <3>1. pc' \in {"idle", "save"} /\ mem' = OffsetOf(file)
      BY <1>3, <2>1, <2>3 DEF Parse, Record, OffsetOf
    <3> QED
      BY <2>2, <3>1 DEF InHand, OffsetOf
  <2>4. CASE Len(file) # 0 /\ ~ (Len(file) > MaxBytes)
    <3>1. pc' = "read" /\ size' = Len(file) /\ held' = <<>>
      BY <1>3, <2>4 DEF Parse, HeldWhileRead
    <3> QED
      BY <2>1, <2>2, <2>4, <3>1 DEF InHand
  <2> QED
    BY <2>3, <2>4
<1>4. CASE Read
  <2> SUFFICES ASSUME ~ armed, saving = <<>> PROVE InHand'
    BY <1>4 DEF Read, Reading, InHand
  <2>1. pc = "read" /\ held = <<>> /\ size = Len(file) /\ size # 0 /\ size <= MaxBytes
    BY <1>4 DEF Read, Reading, InHand, Up
  <2>2. Opened = file /\ file \in Seq(Blocks)
    BY <2>1 DEF Opened, CursorType, FileType
  <2>3. Filled(file) = file /\ file # <<>>
    BY <2>1, <2>2, FilledIsWhole
  <2>4. OffsetOf(file) = Hash(file)
    BY <2>1, <2>2, CursorAssumption DEF OffsetOf
  <2>5. IF Hash(file) = mem THEN pc' = "idle" ELSE pc' = "insert" /\ buf' = file
    BY <1>4, <2>2, <2>3 DEF Read, Reading, Unchanged
  <2>6. file' = file /\ mem' = mem
    BY <1>4 DEF Read, Reading
  <2> QED
    BY <2>4, <2>5, <2>6 DEF InHand, OffsetOf
<1>5. CASE Insert
  BY <1>5 DEF Insert, tool, InHand, Up, OffsetOf
<1>6. CASE ParseFails \/ InsertFails \/ Boot \/ Crash
  BY <1>6 DEF ParseFails, InsertFails, Boot, Crash, InHand, Up
<1>7. CASE SaveState \/ UNCHANGED cursorVars
  BY <1>7 DEF SaveState, tool, cursorVars, InHand, Up, OffsetOf
<1> QED
  BY <1>1, <1>2, <1>3, <1>4, <1>5, <1>6, <1>7 DEF CursorNext, ParseStep, vars

\* When the tool is done and no parse is due, the file's data is the last
\* recorded, whatever raced with the parses before, unless a call of a parse has
\* failed and no parse has had a result since.
THEOREM NothingOverlooked == CursorSpec => []QuietMeansRecorded
<1>1. CursorInit => HeldWhileRead /\ InHand
  BY DEF CursorInit, HeldWhileRead, InHand, Up
<1>2. InHand => QuietMeansRecorded
  BY DEF InHand, QuietMeansRecorded, Up
<1> QED
  BY <1>1, <1>2, HeldStep, CurrentStep, CursorTypeInvariant, PTL DEF CursorSpec

(***************************************************************************)
(* Loops of a bounded number of steps.                                     *)
(***************************************************************************)
\* A finite set of naturals has a least one.
LEMMA Least ==
  ASSUME NEW U \in SUBSET Nat, IsFiniteSet(U), U # {}
  PROVE  \E m \in U : \A x \in U : m <= x
<1> DEFINE Below(y) == {x \in U : x < y}
           B == {Below(y) : y \in U}
<1>1. B # {} /\ B \subseteq FiniteSubsetsOf(U)
  <2>1. ASSUME NEW y \in U PROVE Below(y) \in FiniteSubsetsOf(U)
    <3>1. Below(y) \in SUBSET U
      OBVIOUS
    <3> HIDE DEF Below
    <3> QED
      BY <3>1, FS_Subset DEF FiniteSubsetsOf
  <2> HIDE DEF Below
  <2> QED
    BY <2>1
<1>2. PICK X \in B : \A Y \in B : <<Y, X>> \notin StrictSubsetOrdering(U)
  <2> HIDE DEF B
  <2> QED
    BY <1>1, FS_StrictSubsetOrderingWellFounded, WFMin
<1>3. PICK m \in U : X = Below(m)
  OBVIOUS
<1>4. ASSUME NEW x \in U, x < m
      PROVE  FALSE
  <2>1. Below(x) \subseteq Below(m) /\ x \in Below(m) /\ x \notin Below(x)
    <3>1. m \in Nat /\ x \in Nat /\ U \subseteq Nat
      OBVIOUS
    <3>2. ASSUME NEW z \in Below(x) PROVE z \in Below(m)
      <4>1. z \in U /\ z < x /\ z \in Nat
        BY <3>1
      <4> QED
        BY <1>4, <3>1, <4>1
    <3>3. x \in Below(m)
      BY <1>4
    <3>4. x \notin Below(x)
      BY <3>1
    <3> QED
      BY <3>2, <3>3, <3>4
  <2>2. <<Below(x), Below(m)>> \in StrictSubsetOrdering(U)
    BY <2>1 DEF StrictSubsetOrdering
  <2> QED
    BY <1>2, <1>3, <2>2
<1> QED
  BY <1>4

\* What holds of 0, and of k when of k - 1, holds up to n.
LEMMA Induct ==
  ASSUME NEW n \in Nat, NEW S, 0 \in S, \A k \in 1..n : k - 1 \in S => k \in S
  PROVE  \A k \in 0..n : k \in S
<1> DEFINE U == {k \in 0..n : k \notin S}
<1>1. SUFFICES ASSUME U # {} PROVE FALSE
  OBVIOUS
<1>2. PICK k \in U : \A j \in U : k <= j
  <2>1. U \in SUBSET (0..n) /\ U \in SUBSET Nat
    OBVIOUS
  <2> HIDE DEF U
  <2>2. IsFiniteSet(0..n)
    BY FS_Interval
  <2>3. IsFiniteSet(U)
    BY <2>1, <2>2, FS_Subset
  <2> QED
    BY <1>1, <2>1, <2>3, Least
<1>3. k # 0 /\ k \in 1..n /\ k - 1 \in 0..n
  OBVIOUS
<1>4. k - 1 \notin U
  BY <1>2, <1>3
<1> QED
  BY <1>3, <1>4

\* The results of a loop of n steps.
Runs(n, D, d, F) == {r \in [0..n -> D] : r[0] = d /\ \A i \in 1..n : r[i] = F[i][r[i - 1]]}

\* A loop whose every step maps D to D has a run.
LEMMA LoopRuns ==
  ASSUME NEW n \in Nat, NEW D, NEW d \in D, NEW F \in [1..n -> [D -> D]]
  PROVE  Runs(n, D, d, F) # {}
<1> DEFINE Ok(m, r) == r[0] = d /\ \A i \in 1..m : r[i] = F[i][r[i - 1]]
           S == {m \in 0..n : \E r \in [0..m -> D] : Ok(m, r)}
<1>1. 0 \in S
  <2>1. [i \in 0..0 |-> d] \in [0..0 -> D] /\ Ok(0, [i \in 0..0 |-> d])
    OBVIOUS
  <2> HIDE DEF Ok
  <2> QED
    BY <2>1
<1>2. ASSUME NEW m \in 1..n, m - 1 \in S
      PROVE  m \in S
  <2>1. PICK r \in [0..m - 1 -> D] : Ok(m - 1, r)
    BY <1>2
  <2> DEFINE q == [i \in 0..m |-> IF i = m THEN F[m][r[m - 1]] ELSE r[i]]
  <2>2. q \in [0..m -> D]
    <3>1. F[m] \in [D -> D] /\ r[m - 1] \in D
      OBVIOUS
    <3>2. F[m][r[m - 1]] \in D
      BY <3>1
    <3> QED
      BY <3>2
  <2>3. Ok(m, q)
    <3>1. q[0] = d
      BY <2>1
    <3>2. ASSUME NEW i \in 1..m PROVE q[i] = F[i][q[i - 1]]
      <4>1. CASE i = m
        BY <4>1
      <4>2. CASE i # m
        BY <2>1, <4>2
      <4> QED
        BY <4>1, <4>2
    <3> QED
      BY <3>1, <3>2
  <2>4. m \in 0..n
    OBVIOUS
  <2> HIDE DEF Ok, q
  <2> QED
    BY <2>2, <2>3, <2>4
<1>3. \A k \in 0..n : k \in S
  <2> HIDE DEF S
  <2> QED
    BY <1>1, <1>2, Induct
<1> QED
  BY <1>3 DEF Runs

\* What Maybe preserves for every hook, the loop over the hooks does.
LEMMA EachHookIn ==
  ASSUME NEW D, NEW e, NEW d \in D,
         \A c \in D : \A i \in DOMAIN HookSpecs : Maybe(c, e, HookSpecs[i]) \in D
  PROVE  EachHook(d, e) \in D
<1> DEFINE n == Len(HookSpecs)
           is(f) == f = [i \in 0..n |-> IF i = 0 THEN d ELSE Maybe(f[i - 1], e, HookSpecs[i])]
           to == CHOOSE f : is(f)
           F == [i \in 1..n |-> [c \in D |-> Maybe(c, e, HookSpecs[i])]]
<1>1. n \in Nat /\ DOMAIN HookSpecs = 1..n
  BY HooksAssumption
<1>2. F \in [1..n -> [D -> D]]
  BY <1>1
<1>3. PICK r \in [0..n -> D] : r[0] = d /\ \A i \in 1..n : r[i] = F[i][r[i - 1]]
  <2> HIDE DEF F, n
  <2>1. Runs(n, D, d, F) # {}
    BY <1>1, <1>2, LoopRuns
  <2> QED
    BY <2>1 DEF Runs
<1>4. is(r)
  <2>1. ASSUME NEW i \in 0..n
        PROVE  r[i] = IF i = 0 THEN d ELSE Maybe(r[i - 1], e, HookSpecs[i])
    <3>1. i # 0 => i \in 1..n /\ i - 1 \in 0..n /\ r[i - 1] \in D
      BY <1>1
    <3> HIDE DEF n
    <3> QED
      BY <1>3, <3>1
  <2> HIDE DEF n
  <2> QED
    BY <2>1
<1>5. is(to)
  <2> HIDE DEF is
  <2> QED
    BY <1>4
<1>6. EachHook(d, e) = to[n]
  BY DEF EachHook
<1> HIDE DEF to
<1>7. to[0] = d /\ \A i \in 1..n : to[i] = Maybe(to[i - 1], e, HookSpecs[i])
  <2> HIDE DEF n
  <2> QED
    BY <1>1, <1>5
<1> DEFINE S == {i \in 0..n : to[i] \in D}
<1>8. \A i \in 0..n : i \in S
  <2>1. 0 \in S
    BY <1>1, <1>7
  <2>2. \A i \in 1..n : i - 1 \in S => i \in S
    BY <1>1, <1>7
  <2> HIDE DEF n, S
  <2> QED
    BY <1>1, <2>1, <2>2, Induct
<1> QED
  BY <1>1, <1>6, <1>8

\* What the loop over the hooks preserves, the loop over a batch does.
LEMMA EachEngramIn ==
  ASSUME NEW D, NEW d \in D, NEW batch, NEW n \in Nat, n = Len(batch), DOMAIN batch = 1..n,
         \A c \in D : \A i \in DOMAIN batch : EachHook(c, batch[i]) \in D
  PROVE  EachEngram(d, batch) \in D
<1> DEFINE is(f) == f = [i \in 0..n |-> IF i = 0 THEN d ELSE EachHook(f[i - 1], batch[i])]
           to == CHOOSE f : is(f)
           F == [i \in 1..n |-> [c \in D |-> EachHook(c, batch[i])]]
<1>1. n \in Nat /\ DOMAIN batch = 1..n
  OBVIOUS
<1>2. F \in [1..n -> [D -> D]]
  BY <1>1
<1>3. PICK r \in [0..n -> D] : r[0] = d /\ \A i \in 1..n : r[i] = F[i][r[i - 1]]
  <2> HIDE DEF F
  <2>1. Runs(n, D, d, F) # {}
    BY <1>1, <1>2, LoopRuns
  <2> QED
    BY <2>1 DEF Runs
<1>4. is(r)
  <2>1. ASSUME NEW i \in 0..n
        PROVE  r[i] = IF i = 0 THEN d ELSE EachHook(r[i - 1], batch[i])
    <3>1. i # 0 => i \in 1..n /\ i - 1 \in 0..n /\ r[i - 1] \in D
      BY <1>1
    <3> QED
      BY <1>3, <3>1
  <2> QED
    BY <2>1
<1>5. is(to)
  <2> HIDE DEF is
  <2> QED
    BY <1>4
<1>6. EachEngram(d, batch) = to[n]
  BY DEF EachEngram
<1> HIDE DEF to
<1>7. to[0] = d /\ \A i \in 1..n : to[i] = EachHook(to[i - 1], batch[i])
  <2> QED
    BY <1>1, <1>5
<1> DEFINE S == {i \in 0..n : to[i] \in D}
<1>8. \A i \in 0..n : i \in S
  <2>1. 0 \in S
    BY <1>1, <1>7
  <2>2. \A i \in 1..n : i - 1 \in S => i \in S
    BY <1>1, <1>7
  <2> HIDE DEF S
  <2> QED
    BY <1>1, <2>1, <2>2, Induct
<1> QED
  BY <1>1, <1>6, <1>8

(***************************************************************************)
(* Hooks keep their interval.                                              *)
(***************************************************************************)
\* The requests one batch E may start now, and the times lastAt may hold.

Requests(E) == [hook : Range(HookSpecs), engram : E, at : {now}, nr : Nat]
Times == [HookNames -> {Never} \cup 0..now]

\* A request of a hook with an interval is no later than its name's last.
Noted(last, fires) ==
  \A f \in fires : f.hook.interval > 0 => last[f.hook.name] # Never /\ f.at <= last[f.hook.name]

\* FiresSpaced, of a set of requests.
Spaced(fires) ==
  \A f, g \in fires :
    /\ f # g /\ f.hook.name = g.hook.name /\ f.at >= g.at
    /\ f.hook.interval > 0 /\ g.hook.interval > 0
    => f.at - g.at >= f.hook.interval

\* FiresSpaced with what makes it inductive: the clock is past everything, and
\* lastAt notes the last request of each name.
HookInv ==
  /\ now \in Nat /\ lastAt \in Times /\ IsFiniteSet(sent)
  /\ \A f \in sent : f.hook \in Range(HookSpecs) /\ f.at \in 0..now
  /\ Noted(lastAt, sent) /\ Spaced(sent)

\* What the loops may have come to.
Sound(E) ==
  {d \in [last : Times, fires : SUBSET Requests(E)] :
     IsFiniteSet(d.fires) /\ Noted(d.last, sent \cup d.fires) /\ Spaced(sent \cup d.fires)}

\* A hook that fires now is an interval away from all before it.
LEMMA MaybeSound ==
  ASSUME HookInv, NEW E, NEW e \in E, NEW d \in Sound(E), NEW h \in Range(HookSpecs)
  PROVE  Maybe(d, e, h) \in Sound(E)
<1> DEFINE f == [hook |-> h, engram |-> e, at |-> now,
                 nr |-> Cardinality(sent) + Cardinality(d.fires)]
           last == IF h.interval = 0 THEN d.last ELSE [d.last EXCEPT ![h.name] = now]
           fires == d.fires \cup {f}
           before == sent \cup d.fires
<1>1. CASE ~ (Matches(e, h) /\ CanFire(h, d.last))
  BY <1>1 DEF Maybe
<1>2. CASE Matches(e, h) /\ CanFire(h, d.last)
  <2>1. Maybe(d, e, h) = [last |-> last, fires |-> fires]
    BY <1>2 DEF Maybe
  <2>2. /\ now \in Nat /\ h.interval \in Nat /\ h.name \in HookNames
        /\ d.last \in Times /\ d.fires \in SUBSET Requests(E) /\ IsFiniteSet(d.fires)
        /\ Noted(d.last, before) /\ Spaced(before)
    <3>1. h.interval \in Nat /\ h.name \in HookNames
      BY HooksAssumption DEF HookNames, Range
    <3> QED
      BY <3>1 DEF HookInv, Sound
  <2>3. f \in Requests(E) /\ IsFiniteSet(fires)
    <3>1. Cardinality(sent) \in Nat /\ Cardinality(d.fires) \in Nat
      BY <2>2, FS_CardinalityType DEF HookInv
    <3>2. f \in Requests(E)
      BY <3>1, <2>2 DEF Requests
    <3>3. IsFiniteSet(fires)
      <4> HIDE DEF f
      <4> QED
        BY <2>2, FS_AddElement
    <3> QED
      BY <3>2, <3>3
  <2>4. last \in Times
    BY <2>2 DEF Times
  <2>5. \A g \in before : g.hook \in Range(HookSpecs) /\ g.hook.interval \in Nat
                          /\ g.hook.name \in HookNames /\ g.at \in 0..now
    <3>1. \A g \in before : g.hook \in Range(HookSpecs) /\ g.at \in 0..now
      BY <2>2 DEF HookInv, Requests
    <3>2. \A k \in Range(HookSpecs) : k.interval \in Nat /\ k.name \in HookNames
      BY HooksAssumption DEF HookNames, Range
    <3> QED
      BY <3>1, <3>2
  <2>6. f.hook = h /\ f.at = now
    OBVIOUS
  <2>7. sent \cup fires = before \cup {f}
    OBVIOUS
  <2>8. h.interval > 0 => last[h.name] = now
    BY <2>2 DEF Times
  <2>9. \A n \in HookNames : d.last[n] # Never => d.last[n] \in 0..now /\ last[n] # Never
                                                /\ d.last[n] <= last[n]
    BY <2>2 DEF Times, Never
  <2> HIDE DEF f, last, before
  <2>10. Noted(last, before \cup {f})
    <3>1. ASSUME NEW g \in before, g.hook.interval > 0
          PROVE  last[g.hook.name] # Never /\ g.at <= last[g.hook.name]
      <4>1. d.last[g.hook.name] # Never /\ g.at <= d.last[g.hook.name] /\ g.hook.name \in HookNames
            /\ g.at \in 0..now
        BY <2>2, <2>5, <3>1 DEF Noted
      <4>2. d.last[g.hook.name] \in 0..now /\ last[g.hook.name] # Never
            /\ d.last[g.hook.name] <= last[g.hook.name] /\ last[g.hook.name] \in {Never} \cup 0..now
        BY <2>4, <2>9, <4>1 DEF Times
      <4> QED
        BY <2>2, <4>1, <4>2
    <3>2. f.hook.interval > 0 => last[f.hook.name] # Never /\ f.at <= last[f.hook.name]
      BY <2>2, <2>6, <2>8 DEF Never
    <3> QED
      BY <3>1, <3>2 DEF Noted
  <2>11. ASSUME NEW g \in before, g.hook.name = h.name, h.interval > 0, g.hook.interval > 0
         PROVE  now - g.at >= h.interval
    <3>1. /\ d.last[h.name] # Never /\ g.at <= d.last[h.name] /\ g.at \in 0..now
          /\ d.last[h.name] \in 0..now
      BY <2>2, <2>5, <2>9, <2>11 DEF Noted
    <3>2. now - d.last[h.name] >= h.interval
      BY <1>2, <2>2, <2>11, <3>1 DEF CanFire
    <3> QED
      BY <2>2, <3>1, <3>2
  <2>12. Spaced(before \cup {f})
    <3> SUFFICES ASSUME NEW a \in before \cup {f}, NEW b \in before \cup {f},
                        a # b, a.hook.name = b.hook.name, a.at >= b.at,
                        a.hook.interval > 0, b.hook.interval > 0
                 PROVE  a.at - b.at >= a.hook.interval
      BY DEF Spaced
    <3>1. CASE a \in before /\ b \in before
      BY <2>2, <3>1 DEF Spaced
    <3>2. CASE a = f /\ b \in before
      BY <2>6, <2>11, <3>2
    <3>3. CASE b = f /\ a \in before
      <4>1. now - a.at >= h.interval /\ a.at \in 0..now
        BY <2>5, <2>6, <2>11, <3>3
      <4> QED
        BY <2>2, <2>6, <3>3, <4>1
    <3> QED
      BY <3>1, <3>2, <3>3
  <2>13. fires \in SUBSET Requests(E) /\ sent \cup fires = before \cup {f}
    BY <2>2, <2>3, <2>7
  <2> HIDE DEF fires
  <2> QED
    BY <2>1, <2>3, <2>4, <2>10, <2>12, <2>13 DEF Sound
<1> QED
  BY <1>1, <1>2

\* The loops of a whole batch leave the invariant.
LEMMA DispatchKeeps ==
  ASSUME HookInv, NEW batch, batch \in Seq(Range(batch)), Dispatch(batch)
  PROVE  HookInv'
<1> DEFINE E == Range(batch)
           start == [last |-> lastAt, fires |-> {}]
           d == EachEngram(start, batch)
<1>1. start \in Sound(E)
  <2>1. IsFiniteSet({}) /\ sent \cup {} = sent
    BY FS_EmptySet
  <2> QED
    BY <2>1 DEF Sound, HookInv
<1>2. ASSUME NEW c \in Sound(E), NEW e \in E PROVE EachHook(c, e) \in Sound(E)
  <2> HIDE DEF E
  <2>1. \A b \in Sound(E) : \A i \in DOMAIN HookSpecs : Maybe(b, e, HookSpecs[i]) \in Sound(E)
    BY MaybeSound DEF Range
  <2> QED
    BY <2>1, EachHookIn
<1>3. d \in Sound(E)
  <2>1. \A c \in Sound(E) : \A i \in DOMAIN batch : EachHook(c, batch[i]) \in Sound(E)
    BY <1>2 DEF Range
  <2>2. Len(batch) \in Nat /\ DOMAIN batch = 1..Len(batch)
    OBVIOUS
  <2> HIDE DEF E, start
  <2> QED
    BY <1>1, <2>1, <2>2, EachEngramIn
<1>4. lastAt' = d.last /\ sent' = sent \cup d.fires /\ now' = now
  BY DEF Dispatch
<1> HIDE DEF d, E
<1>5. /\ d.last \in Times /\ d.fires \in SUBSET Requests(E) /\ IsFiniteSet(d.fires)
      /\ Noted(d.last, sent \cup d.fires) /\ Spaced(sent \cup d.fires)
  BY <1>3 DEF Sound
<1>6. IsFiniteSet(sent')
  BY <1>4, <1>5, FS_Union DEF HookInv
<1>7. \A f \in sent' : f.hook \in Range(HookSpecs) /\ f.at \in 0..now
  BY <1>4, <1>5 DEF HookInv, Requests
<1> QED
  BY <1>4, <1>5, <1>6, <1>7 DEF HookInv, Times, Noted, Spaced

LEMMA HookInit == HooksInit => HookInv
<1> SUFFICES ASSUME HooksInit PROVE HookInv
  OBVIOUS
<1>1. now = 0 /\ sent = {} /\ lastAt = [n \in HookNames |-> Never] /\ IsFiniteSet({})
  BY FS_EmptySet DEF HooksInit
<1> QED
  BY <1>1 DEF HookInv, Times, Noted, Spaced

LEMMA TickKeeps ==
  ASSUME HookInv, Tick
  PROVE  HookInv'
<1>1. now \in Nat /\ now' = now + 1 /\ lastAt' = lastAt /\ sent' = sent
  BY DEF Tick, HookInv
<1>2. lastAt \in [HookNames -> {Never} \cup 0..now'] /\ \A f \in sent : f.at \in 0..now'
  BY <1>1 DEF HookInv, Times
<1> QED
  BY <1>1, <1>2 DEF HookInv, Times, Noted, Spaced

LEMMA NewKeeps ==
  ASSUME HookInv, NewDispatcher
  PROVE  HookInv'
<1>1. now' = now /\ sent' = {} /\ lastAt' = [n \in HookNames |-> Never] /\ IsFiniteSet({})
  BY FS_EmptySet DEF NewDispatcher
<1> QED
  BY <1>1 DEF HookInv, Times, Noted, Spaced

\* The chunks of one engram are a sequence.
LEMMA BatchIsSeq ==
  ASSUME NEW b \in Buffers
  PROVE  Batch(b) \in Seq(Range(Batch(b)))
<1> DEFINE n == (Len(b) + ChunkBudget - 1) \div ChunkBudget
           part(i) == Engram(SubSeq(b, (i - 1) * ChunkBudget + 1,
                                    IF i * ChunkBudget < Len(b) THEN i * ChunkBudget ELSE Len(b)))
<1>1. CASE Len(b) <= ChunkBudget
  <2>1. Batch(b) = <<Engram(b)>>
    BY <1>1 DEF Batch
  <2>2. Engram(b) \in Range(<<Engram(b)>>)
    BY DEF Range
  <2> QED
    BY <2>1, <2>2
<1>2. CASE ~ (Len(b) <= ChunkBudget)
  <2>1. Batch(b) = [i \in 1..n |-> part(i)]
    BY <1>2 DEF Batch
  <2>2. n \in Nat
    <3>1. Len(b) \in Nat /\ ChunkBudget \in Nat /\ ChunkBudget > 0
      BY CursorAssumption DEF Buffers
    <3> QED
      BY <3>1
  <2> HIDE DEF n, part
  <2>3. Batch(b) \in [1..n -> Range(Batch(b))]
    BY <2>1 DEF Range
  <2> QED
    BY <2>2, <2>3
<1> QED
  BY <1>1, <1>2

LEMMA HookStep == CursorType /\ HookInv /\ [CursorNext]_vars => HookInv'
<1> SUFFICES ASSUME CursorType, HookInv, [CursorNext]_vars PROVE HookInv'
  OBVIOUS
<1>1. CASE Insert
  <2>1. Dispatch(Batch(buf)) /\ Batch(buf) \in Seq(Range(Batch(buf)))
    BY <1>1, BatchIsSeq DEF Insert, CursorType, ParseType
  <2> QED
    BY <2>1, DispatchKeeps
<1>2. CASE Boot
  BY <1>2, NewKeeps DEF Boot
<1>3. CASE Tick
  BY <1>3, TickKeeps
<1>4. CASE UNCHANGED hookVars
  BY <1>4 DEF hookVars, HookInv, Times, Noted, Spaced
<1>5. Insert \/ Boot \/ Tick \/ UNCHANGED hookVars
  BY DEF CursorNext, SaveByRename, SaveInPlace, WriteBlock, ParseStep, Parse, ParseFails, Read, Reading,
         InsertFails, SaveState, Crash, vars
<1> QED
  BY <1>1, <1>2, <1>3, <1>4, <1>5

\* Two requests of hooks with one name are an interval of the later one apart,
\* however many engrams of a batch match and whatever intervals the hooks have.
THEOREM HooksKeepInterval == CursorSpec => []FiresSpaced
<1>1. CursorInit => HookInv
  BY HookInit DEF CursorInit
<1>2. HookInv => FiresSpaced
  BY DEF HookInv, Spaced, FiresSpaced
<1> QED
  BY <1>1, <1>2, HookStep, CursorTypeInvariant, PTL DEF CursorSpec

(***************************************************************************)
(* JSONLParser.  Lines: the record of a byte depends on the bytes of its   *)
(* line only, so what two runs of whole lines emit is what their           *)
(* concatenation emits (EmitConcat).                                       *)
(***************************************************************************)

\* A set of numbers up to n has a greatest one.
LEMMA Greatest ==
  ASSUME NEW n \in Nat, NEW S \in SUBSET (0..n), S # {}
  PROVE  Max(S) \in S /\ \A y \in S : y <= Max(S)
<1> DEFINE U == {n - x : x \in S}
<1>0. \A x \in S : x \in 0..n /\ n - x \in 0..n /\ n - x \in Nat /\ n - (n - x) = x
  OBVIOUS
<1>1. U \in SUBSET (0..n) /\ U \in SUBSET Nat /\ U # {}
  BY <1>0
<1>2. PICK m \in U : \A x \in U : m <= x
  <2>1. IsFiniteSet(U)
    <3>1. IsFiniteSet(0..n)
      BY FS_Interval
    <3> HIDE DEF U
    <3> QED
      BY <1>1, <3>1, FS_Subset
  <2> HIDE DEF U
  <2> QED
    BY <1>1, <2>1, Least
<1>3. n - m \in S /\ \A y \in S : y <= n - m
  <2>1. PICK x \in S : m = n - x
    OBVIOUS
  <2>2. \A y \in S : m <= n - y
    BY <1>2
  <2> QED
    BY <1>0, <2>1, <2>2
<1> QED
  BY <1>3 DEF Max

\* Where the line of byte i starts: after the last newline before it.
LEMMA LineStartIs ==
  ASSUME NEW S, NEW b \in Seq(S), NEW i \in 1..Len(b)
  PROVE  /\ LineStart(b, i) \in 1..i
         /\ LineStart(b, i) = 1 \/ b[LineStart(b, i) - 1] = NL
         /\ \A j \in LineStart(b, i)..(i - 1) : b[j] # NL
<1> DEFINE U == {j \in Ends(b) : j < i} \union {0}
<1>1. U \in SUBSET (0..(i - 1)) /\ U # {} /\ i - 1 \in Nat
  BY DEF Ends
<1>2. Max(U) \in U /\ \A y \in U : y <= Max(U)
  <2> HIDE DEF U
  <2> QED
    BY <1>1, Greatest
<1>3. LineStart(b, i) = Max(U) + 1
  BY DEF LineStart
<1>6. Max(U) \in 0..(i - 1) /\ i \in Nat /\ Len(b) \in Nat /\ i <= Len(b)
  <2>1. Len(b) \in Nat /\ i \in Nat /\ i <= Len(b)
    OBVIOUS
  <2>2. \A x \in U : x \in 0..(i - 1)
    BY DEF Ends
  <2> HIDE DEF U
  <2> QED
    BY <1>2, <2>1, <2>2
<1>4. ASSUME NEW j \in (Max(U) + 1)..(i - 1) PROVE b[j] # NL
  <2>1. j \notin U /\ j \in 1..Len(b) /\ j < i
    <3> HIDE DEF U
    <3> QED
      BY <1>2, <1>6
  <2> QED
    BY <2>1 DEF Ends
<1>5. Max(U) = 0 \/ b[Max(U)] = NL
  BY <1>2 DEF Ends
<1> HIDE DEF U
<1> QED
  BY <1>3, <1>4, <1>5, <1>6

\* No other place is after a newline with none from there to byte i.
LEMMA LineStartUnique ==
  ASSUME NEW S, NEW b \in Seq(S), NEW i \in 1..Len(b), NEW m \in 1..i,
         m = 1 \/ b[m - 1] = NL, \A j \in m..(i - 1) : b[j] # NL
  PROVE  LineStart(b, i) = m
<1>1. /\ LineStart(b, i) \in 1..i
      /\ LineStart(b, i) = 1 \/ b[LineStart(b, i) - 1] = NL
      /\ \A j \in LineStart(b, i)..(i - 1) : b[j] # NL
  BY LineStartIs
<1> DEFINE k == LineStart(b, i)
<1> HIDE DEF k
<1>2. k \in 1..i /\ (k = 1 \/ b[k - 1] = NL) /\ \A j \in k..(i - 1) : b[j] # NL
  BY <1>1 DEF k
<1>3. ~ (k < m)
  <2> SUFFICES ASSUME k < m PROVE FALSE
    OBVIOUS
  <2>1. m - 1 \in k..(i - 1) /\ m # 1
    BY <1>2
  <2> QED
    BY <1>2, <2>1
<1>4. ~ (m < k)
  <2> SUFFICES ASSUME m < k PROVE FALSE
    OBVIOUS
  <2>1. k - 1 \in m..(i - 1) /\ k # 1
    BY <1>2
  <2> QED
    BY <1>2, <2>1
<1>5. k = m
  BY <1>2, <1>3, <1>4
<1> QED
  BY <1>5 DEF k

\* A sequence of bytes at whose end a line starts.
Ended(b) == b = <<>> \/ b[Len(b)] = NL

\* A line is the same wherever one looks at it from the start of a line.
LEMMA RawConcat ==
  ASSUME NEW S, NEW a \in Seq(S), NEW c \in Seq(S)
  PROVE  /\ \A i \in 1..Len(a) : Raw(a \o c, i) = Raw(a, i)
         /\ Ended(a) => \A i \in 1..Len(c) : Raw(a \o c, Len(a) + i) = Raw(c, i)
<1> DEFINE b == a \o c
<1>1. /\ b \in Seq(S) /\ Len(b) = Len(a) + Len(c) /\ Len(a) \in Nat /\ Len(c) \in Nat
      /\ \A i \in 1..Len(a) : b[i] = a[i]
      /\ \A i \in 1..Len(c) : b[Len(a) + i] = c[i]
  OBVIOUS
<1>2. ASSUME NEW i \in 1..Len(a) PROVE Raw(b, i) = Raw(a, i)
  <2> DEFINE m == LineStart(a, i)
  <2>1. m \in 1..i /\ (m = 1 \/ a[m - 1] = NL) /\ \A j \in m..(i - 1) : a[j] # NL
    BY LineStartIs
  <2> HIDE DEF m, b
  <2>2. (m = 1 \/ b[m - 1] = NL) /\ \A j \in m..(i - 1) : b[j] # NL
    <3>1. \A j \in m..(i - 1) : j \in 1..Len(a)
      BY <1>1, <2>1
    <3>2. m # 1 => m - 1 \in 1..Len(a)
      BY <1>1, <2>1
    <3> QED
      BY <1>1, <2>1, <3>1, <3>2
  <2>3. LineStart(b, i) = m
    <3>1. i \in 1..Len(b)
      BY <1>1
    <3> QED
      BY <1>1, <2>1, <2>2, <3>1, LineStartUnique
  <2>4. SubSeq(b, m, i - 1) = SubSeq(a, m, i - 1)
    <3>1. CASE m = i
      BY <3>1, SubSeqEmpty
    <3>2. CASE m # i
      <4>1. m \in 1..Len(a) /\ i - 1 \in 1..Len(a)
        BY <2>1, <3>2, <1>1
      <4> QED
        BY <4>1, SubSeqOfConcat1 DEF b
    <3> QED
      BY <3>1, <3>2
  <2> QED
    BY <2>3, <2>4 DEF Raw, m
<1>3. ASSUME Ended(a), NEW i \in 1..Len(c) PROVE Raw(b, Len(a) + i) = Raw(c, i)
  <2> DEFINE m == LineStart(c, i)
             k == Len(a) + m
             l == Len(a) + i
  <2>1. m \in 1..i /\ (m = 1 \/ c[m - 1] = NL) /\ \A j \in m..(i - 1) : c[j] # NL
    BY LineStartIs
  <2> HIDE DEF m, b
  <2>2. k \in 1..l /\ l \in 1..Len(b) /\ i \in Nat /\ Len(a) \in Nat
    BY <1>1, <2>1
  <2>3. k = 1 \/ b[k - 1] = NL
    <3>1. CASE m = 1
      <4>1. k - 1 = Len(a)
        BY <1>1, <3>1
      <4>2. a = <<>> => k = 1
        BY <1>1, <4>1
      <4>3. a # <<>> => b[Len(a)] = a[Len(a)]
        BY <1>1
      <4> QED
        BY <1>3, <4>1, <4>2, <4>3 DEF Ended
    <3>2. CASE m # 1
      <4>1. m - 1 \in 1..Len(c) /\ k - 1 = Len(a) + (m - 1)
        BY <1>1, <2>1, <3>2
      <4> QED
        BY <1>1, <2>1, <3>2, <4>1
    <3> QED
      BY <3>1, <3>2
  <2>4. ASSUME NEW j \in k..(l - 1) PROVE b[j] # NL
    <3>1. j - Len(a) \in m..(i - 1) /\ j - Len(a) \in 1..Len(c) /\ j = Len(a) + (j - Len(a))
      BY <1>1, <2>1
    <3> QED
      BY <1>1, <2>1, <3>1
  <2>5. LineStart(b, l) = k
    <3> HIDE DEF k, l
    <3> QED
      BY <1>1, <2>2, <2>3, <2>4, LineStartUnique
  <2>6. SubSeq(b, k, l - 1) = SubSeq(c, m, i - 1)
    <3>1. CASE m = i
      <4>1. l - 1 < k /\ i - 1 < m /\ k \in Int /\ l - 1 \in Int /\ m \in Int /\ i - 1 \in Int
        BY <1>1, <2>1, <3>1
      <4> QED
        BY <4>1, SubSeqEmpty
    <3>2. CASE m # i
      <4>1. /\ k \in (Len(a) + 1)..(Len(a) + Len(c)) /\ l - 1 \in (Len(a) + 1)..(Len(a) + Len(c))
            /\ k - Len(a) = m /\ l - 1 - Len(a) = i - 1
        BY <2>1, <3>2, <1>1
      <4>2. SubSeq(b, k, l - 1) = SubSeq(c, k - Len(a), l - 1 - Len(a))
        <5> HIDE DEF k, l
        <5> QED
          BY <4>1, SubSeqOfConcat2 DEF b
      <4> QED
        BY <4>1, <4>2
    <3> QED
      BY <3>1, <3>2
  <2> QED
    BY <2>5, <2>6 DEF Raw, m
<1> QED
  BY <1>2, <1>3

\* The partial results of joining a sequence of sequences.
Joins(E, s) ==
  {r \in [0..Len(s) -> Seq(E)] :
     r[0] = <<>> /\ (\A i \in 1..Len(s) : r[i] = r[i - 1] \o s[i]) /\ FlattenSeq(s) = r[Len(s)]}

\* A sequence of n sequences has its n + 1 partial results.
LEMMA JoinsExist ==
  ASSUME NEW E, NEW s \in Seq(Seq(E))
  PROVE  Joins(E, s) # {}
<1> DEFINE n == Len(s)
           D == Seq(E)
           F == [i \in 1..n |-> [c \in D |-> c \o s[i]]]
           is(f) == f = [i \in 1..n |-> IF i = 1 THEN s[i] ELSE f[i - 1] \o s[i]]
           to == CHOOSE f : is(f)
<1>1. n \in Nat /\ \A i \in 1..n : s[i] \in Seq(E)
  OBVIOUS
<1>2. PICK r \in [0..n -> D] : r[0] = <<>> /\ \A i \in 1..n : r[i] = F[i][r[i - 1]]
  <2>1. F \in [1..n -> [D -> D]]
    <3>1. \A i \in 1..n : \A c \in D : c \o s[i] \in D
      BY <1>1
    <3> HIDE DEF D
    <3> QED
      BY <3>1
  <2>2. <<>> \in D
    OBVIOUS
  <2> HIDE DEF D, F, n
  <2>3. Runs(n, D, <<>>, F) # {}
    BY <1>1, <2>1, <2>2, LoopRuns
  <2> QED
    BY <2>3 DEF Runs
<1>3. ASSUME NEW i \in 1..n PROVE r[i] = r[i - 1] \o s[i] /\ i - 1 \in 0..n
  <2>1. i - 1 \in 0..n
    BY <1>1
  <2>2. r[i - 1] \in D
    <3> HIDE DEF D, n, F
    <3> QED
      BY <1>2, <2>1
  <2> QED
    BY <1>2, <2>1, <2>2
<1> HIDE DEF F, D
<1>4. CASE n = 0
  <2>1. FlattenSeq(s) = <<>>
    BY <1>4 DEF FlattenSeq
  <2> QED
    <3>1. r \in [0..n -> Seq(E)]
      BY <1>2 DEF D
    <3> QED
      BY <1>2, <1>3, <1>4, <2>1, <3>1 DEF Joins
<1>5. CASE n # 0
  <2> DEFINE q == [i \in 1..n |-> r[i]]
  <2>1. is(q)
    <3>1. ASSUME NEW i \in 1..n
          PROVE  r[i] = IF i = 1 THEN s[i] ELSE q[i - 1] \o s[i]
      <4>1. CASE i = 1
        <5>1. r[i] = <<>> \o s[i] /\ s[i] \in Seq(E)
          <6>1. r[i] = r[i - 1] \o s[i] /\ i - 1 = 0 /\ s[i] \in Seq(E)
            <7>1. r[i] = r[i - 1] \o s[i]
              BY <1>3
            <7>2. s[i] \in Seq(E)
              BY <1>1
            <7> QED
              BY <7>1, <7>2, <4>1
          <6> QED
            BY <1>2, <6>1
        <5> QED
          BY <4>1, <5>1, ConcatEmptySeq
      <4>2. CASE i # 1
        <5>1. i - 1 \in 1..n
          BY <1>1, <4>2
        <5> QED
          BY <1>3, <4>2, <5>1
      <4> QED
        BY <4>1, <4>2
    <3> HIDE DEF n
    <3> QED
      BY <3>1
  <2>2. is(to)
    <3> HIDE DEF is, q
    <3> QED
      BY <2>1
  <2>3. FlattenSeq(s) = to[n]
    BY <1>5 DEF FlattenSeq
  <2> HIDE DEF to, q
  <2> DEFINE U == {i \in 0..n : i # 0 => to[i] = r[i]}
  <2>4. \A i \in 0..n : i \in U
    <3>1. 0 \in U
      BY <1>1
    <3>2. ASSUME NEW i \in 1..n, i - 1 \in U PROVE i \in U
      <4>1. to[i] = IF i = 1 THEN s[i] ELSE to[i - 1] \o s[i]
        BY <2>2
      <4>2. CASE i = 1
        <5>1. r[i] = <<>> \o s[i] /\ s[i] \in Seq(E)
          <6>1. r[i] = r[i - 1] \o s[i] /\ i - 1 = 0 /\ s[i] \in Seq(E)
            <7>1. r[i] = r[i - 1] \o s[i]
              BY <1>3
            <7>2. s[i] \in Seq(E)
              BY <1>1
            <7> QED
              BY <7>1, <7>2, <4>2
          <6> QED
            BY <1>2, <6>1
        <5> QED
          BY <1>1, <4>1, <4>2, <5>1, ConcatEmptySeq
      <4>3. CASE i # 1
        <5>1. to[i - 1] = r[i - 1] /\ r[i] = r[i - 1] \o s[i]
          <6>1. i - 1 # 0 /\ r[i] = r[i - 1] \o s[i]
            <7>1. i \in Int
              BY <1>1
            <7>2. r[i] = r[i - 1] \o s[i]
              BY <1>3
            <7> QED
              BY <4>3, <7>1, <7>2
          <6> QED
            BY <3>2, <6>1
        <5>2. to[i] = r[i]
          BY <4>1, <4>3, <5>1
        <5>3. i \in 0..n
          BY <1>1
        <5> QED
          BY <5>2, <5>3
      <4> QED
        <5>1. to[i] = r[i] /\ i \in 0..n
          BY <1>1, <4>2, <4>3
        <5> QED
          BY <5>1
    <3> HIDE DEF U, n
    <3> QED
      BY <1>1, <3>1, <3>2, Induct
  <2>5. to[n] = r[n]
    BY <1>1, <1>5, <2>4
  <2> QED
    <3>1. r \in [0..n -> Seq(E)]
      BY <1>2 DEF D
    <3> QED
      BY <1>2, <1>3, <2>3, <2>5, <3>1 DEF Joins
<1> QED
  BY <1>4, <1>5

\* The last of them is what FlattenSeq gives.
LEMMA FlattenIs ==
  ASSUME NEW E, NEW s \in Seq(Seq(E)), NEW r, r[0] = <<>>,
         \A i \in 1..Len(s) : r[i] = r[i - 1] \o s[i]
  PROVE  FlattenSeq(s) = r[Len(s)]
<1>1. PICK q \in Joins(E, s) : TRUE
  BY JoinsExist
<1>2. q[0] = <<>> /\ (\A i \in 1..Len(s) : q[i] = q[i - 1] \o s[i]) /\ FlattenSeq(s) = q[Len(s)]
  BY <1>1 DEF Joins
<1> DEFINE n == Len(s)
           U == {i \in 0..n : q[i] = r[i]}
<1>3. n \in Nat
  OBVIOUS
<1>4. \A i \in 0..n : i \in U
  <2>1. 0 \in U
    BY <1>2, <1>3
  <2>2. ASSUME NEW i \in 1..n, i - 1 \in U PROVE i \in U
    <3>1. i \in 0..n /\ q[i - 1] = r[i - 1]
      BY <1>3, <2>2
    <3>2. q[i] = q[i - 1] \o s[i] /\ r[i] = r[i - 1] \o s[i]
      BY <1>2
    <3> QED
      BY <3>1, <3>2
  <2> HIDE DEF U, n
  <2> QED
    BY <1>3, <2>1, <2>2, Induct
<1> QED
  BY <1>2, <1>3, <1>4

\* FlattenSeq of a concatenation is that of its two parts.
LEMMA FlattenConcat ==
  ASSUME NEW E, NEW s \in Seq(Seq(E)), NEW t \in Seq(Seq(E))
  PROVE  /\ FlattenSeq(s) \in Seq(E)
         /\ FlattenSeq(s \o t) = FlattenSeq(s) \o FlattenSeq(t)
<1>1. PICK p \in Joins(E, s) : TRUE
  BY JoinsExist
<1>2. PICK q \in Joins(E, t) : TRUE
  BY JoinsExist
<1> DEFINE m == Len(s)
           n == Len(t)
           u == s \o t
           r == [i \in 0..(m + n) |-> IF i <= m THEN p[i] ELSE p[m] \o q[i - m]]
<1>3. /\ p \in [0..m -> Seq(E)] /\ p[0] = <<>> /\ \A i \in 1..m : p[i] = p[i - 1] \o s[i]
      /\ FlattenSeq(s) = p[m]
  BY <1>1 DEF Joins
<1>4. /\ q \in [0..n -> Seq(E)] /\ q[0] = <<>> /\ \A i \in 1..n : q[i] = q[i - 1] \o t[i]
      /\ FlattenSeq(t) = q[n]
  BY <1>2 DEF Joins
<1>5. /\ m \in Nat /\ n \in Nat /\ u \in Seq(Seq(E)) /\ Len(u) = m + n
      /\ \A i \in 1..m : u[i] = s[i]
      /\ \A i \in (m + 1)..(m + n) : u[i] = t[i - m]
      /\ \A i \in 1..n : t[i] \in Seq(E)
  OBVIOUS
<1>6. p[m] \in Seq(E) /\ q[n] \in Seq(E) /\ p[m] \o q[0] = p[m]
  <2>1. p[m] \in Seq(E) /\ q[n] \in Seq(E)
    <3>1. m \in 0..m /\ n \in 0..n
      BY <1>5
    <3> HIDE DEF m, n
    <3> QED
      BY <1>3, <1>4, <3>1
  <2> QED
    BY <1>4, <2>1, ConcatEmptySeq
<1> HIDE DEF u
<1>7. ASSUME NEW i \in 1..(m + n) PROVE r[i] = r[i - 1] \o u[i]
  <2>1. CASE i <= m
    <3>1. i \in 1..m /\ i - 1 \in 0..(m + n) /\ i - 1 <= m /\ i \in 0..(m + n)
      BY <1>5, <2>1
    <3> HIDE DEF m, n
    <3> QED
      BY <1>3, <1>5, <2>1, <3>1
  <2>2. CASE ~ (i <= m)
    <3> DEFINE k == i - m
    <3>1. k \in 1..n /\ k - 1 \in 0..n /\ i \in (m + 1)..(m + n) /\ i - 1 \in 0..(m + n)
          /\ (i - 1) - m = k - 1 /\ i \in 0..(m + n)
      BY <1>5, <2>2
    <3>2. r[i] = p[m] \o (q[k - 1] \o t[k]) /\ u[i] = t[k]
      <4>1. q[k] = q[k - 1] \o t[k]
        <5> HIDE DEF k
        <5> QED
          BY <1>4, <3>1
      <4>2. r[i] = p[m] \o q[k]
        BY <2>2, <3>1
      <4>3. u[i] = t[k]
        BY <1>5, <3>1
      <4> QED
        BY <4>1, <4>2, <4>3
    <3>3. q[k - 1] \in Seq(E) /\ t[k] \in Seq(E)
      BY <1>4, <1>5, <3>1
    <3>4. r[i] = (p[m] \o q[k - 1]) \o t[k]
      <4>1. (p[m] \o q[k - 1]) \o t[k] = p[m] \o (q[k - 1] \o t[k])
        <5>1. p[m] \in Seq(E) /\ q[k - 1] \in Seq(E) /\ t[k] \in Seq(E)
          BY <1>6, <3>3
        <5>2. \A x, y, z \in Seq(E) : (x \o y) \o z = x \o (y \o z)
          BY ConcatAssociative
        <5> HIDE DEF k, m
        <5> QED
          BY <5>1, <5>2, Zenon
      <4> HIDE DEF r, k, m
      <4> QED
        BY <3>2, <4>1
    <3>5. r[i - 1] = p[m] \o q[k - 1]
      <4>1. CASE i - 1 <= m
        <5>1. i - 1 = m /\ k - 1 = 0
          <6>1. i \in Int /\ m \in Int
            BY <1>5
          <6> HIDE DEF m
          <6> QED
            BY <2>2, <4>1, <6>1
        <5> QED
          BY <1>6, <3>1, <4>1, <5>1
      <4>2. CASE ~ (i - 1 <= m)
        BY <3>1, <4>2
      <4> QED
        BY <4>1, <4>2
    <3> QED
      BY <3>2, <3>4, <3>5
  <2> QED
    BY <2>1, <2>2
<1>8. r[0] = <<>> /\ r[m + n] = p[m] \o q[n]
  <2>1. CASE n = 0
    <3>1. r[m + n] = p[m]
      BY <1>5, <2>1
    <3> QED
      BY <1>3, <1>5, <1>6, <2>1, <3>1
  <2>2. CASE n # 0
    <3>1. /\ m + n \in 0..(m + n) /\ ~ (m + n <= m) /\ (m + n) - m = n
          /\ 0 \in 0..(m + n) /\ 0 <= m
      <4>1. m \in Nat /\ n \in Nat
        BY <1>5
      <4> HIDE DEF m, n
      <4> QED
        BY <2>2, <4>1
    <3> HIDE DEF m, n
    <3> QED
      BY <1>3, <3>1
  <2> QED
    BY <2>1, <2>2
<1>9. FlattenSeq(u) = r[m + n]
  <2> HIDE DEF r, m, n
  <2> QED
    BY <1>5, <1>7, <1>8, FlattenIs
<1> QED
  BY <1>3, <1>4, <1>6, <1>8, <1>9 DEF u

\* Joining nothing but empty sequences gives the empty one.
LEMMA FlattenNothing ==
  ASSUME NEW s \in Seq(Seq({})), \A i \in 1..Len(s) : s[i] = <<>>
  PROVE  FlattenSeq(s) = <<>>
<1> DEFINE r == [i \in 0..Len(s) |-> <<>>]
<1>1. Len(s) \in Nat
  OBVIOUS
<1>2. r[0] = <<>> /\ r[Len(s)] = <<>> /\ \A i \in 1..Len(s) : r[i] = r[i - 1] \o s[i]
  <2>1. <<>> \o <<>> = <<>>
    BY ConcatEmptySeq, EmptySeq
  <2> QED
    BY <1>1, <2>1
<1> HIDE DEF r
<1> QED
  BY <1>2, FlattenIs

\* What is emitted: chunks and whole records.
Pieces == UNION {Range(Split(r)) : r \in Seq(Bytes)}

\* A record is split into pieces.
LEMMA SplitIn ==
  ASSUME NEW r \in Seq(Bytes)
  PROVE  Split(r) \in Seq(Pieces)
<1>1. Budget \in Nat /\ Budget > 0 /\ Len(r) \in Nat
  BY TailAssumption
<1>2. PICK n \in Nat : DOMAIN Split(r) = 1..n /\ Split(r) = [k \in 1..n |-> Split(r)[k]]
  <2>1. CASE Len(r) > Budget
    <3> DEFINE n == (Len(r) + Budget - 1) \div Budget
    <3>1. n \in Nat
      BY <1>1
    <3>2. Split(r) = Chunks(r)
      BY <2>1 DEF Split
    <3>3. DOMAIN Chunks(r) = 1..n /\ Chunks(r) = [k \in 1..n |-> Chunks(r)[k]]
      BY DEF Chunks
    <3> HIDE DEF n
    <3> QED
      BY <3>1, <3>2, <3>3
  <2>2. CASE ~ (Len(r) > Budget)
    <3>1. Split(r) = Whole(r)
      BY <2>2 DEF Split
    <3>2. DOMAIN Whole(r) = 1..1 /\ Whole(r) = [k \in 1..1 |-> Whole(r)[k]]
      BY DEF Whole
    <3> QED
      BY <3>1, <3>2
  <2> QED
    BY <2>1, <2>2
<1>3. \A k \in 1..n : Split(r)[k] \in Range(Split(r))
  BY <1>2 DEF Range
<1>4. Range(Split(r)) \subseteq Pieces
  BY DEF Pieces
<1>5. Split(r) \in [1..n -> Pieces]
  BY <1>2, <1>3, <1>4
<1> QED
  BY <1>5

\* The record of a line consists of bytes.
LEMMA RawIn ==
  ASSUME NEW b \in Seq(Bytes), NEW i \in 1..Len(b)
  PROVE  Raw(b, i) \in Seq(Bytes)
<1> DEFINE l == SubSeq(b, LineStart(b, i), i - 1)
           U == {j \in DOMAIN l : l[j] # CR} \union {0}
<1>1. LineStart(b, i) \in 1..i /\ i \in 1..Len(b) /\ Len(b) \in Nat
  BY LineStartIs
<1>2. l \in Seq(Bytes)
  <2>1. \A j \in LineStart(b, i)..(i - 1) : b[j] \in Bytes
    BY <1>1
  <2>2. LineStart(b, i) \in Int /\ i - 1 \in Int
    BY <1>1
  <2> QED
    BY <2>1, <2>2, SubSeqProperties
<1> HIDE DEF l
<1>3. Len(l) \in Nat /\ U \in SUBSET (0..Len(l)) /\ U # {}
  BY <1>2
<1>4. Max(U) \in 0..Len(l)
  <2> HIDE DEF U
  <2>1. Max(U) \in U
    BY <1>3, Greatest
  <2> QED
    BY <1>3, <2>1
<1>5. SubSeq(l, 1, Max(U)) \in Seq(Bytes)
  <2>1. \A j \in 1..Max(U) : l[j] \in Bytes
    BY <1>2, <1>4
  <2>2. 1 \in Int /\ Max(U) \in Int
    BY <1>4
  <2> HIDE DEF U
  <2> QED
    BY <2>1, <2>2, SubSeqProperties
<1>6. Raw(b, i) = SubSeq(l, 1, Max(U))
  BY DEF Raw, TrimCR, l
<1> QED
  BY <1>5, <1>6

\* What each byte of b emits.
Parts(b) == [i \in DOMAIN b |-> EmitAt(b, i)]

\* What each byte emits is a sequence of pieces.
LEMMA PartsIn ==
  ASSUME NEW b \in Seq(Bytes)
  PROVE  /\ Parts(b) \in Seq(Seq(Pieces)) /\ Len(Parts(b)) = Len(b)
         /\ \A i \in 1..Len(b) : Parts(b)[i] = EmitAt(b, i)
<1>1. ASSUME NEW i \in 1..Len(b) PROVE EmitAt(b, i) \in Seq(Pieces)
  <2>1. Raw(b, i) \in Seq(Bytes)
    BY RawIn
  <2>2. Split(Raw(b, i)) \in Seq(Pieces)
    BY <2>1, SplitIn
  <2>3. <<>> \in Seq(Pieces)
    OBVIOUS
  <2> QED
    BY <2>2, <2>3 DEF EmitAt
<1>2. DOMAIN b = 1..Len(b) /\ Len(b) \in Nat
  OBVIOUS
<1>3. Parts(b) \in [1..Len(b) -> Seq(Pieces)] /\ DOMAIN Parts(b) = 1..Len(b)
      /\ \A i \in 1..Len(b) : Parts(b)[i] = EmitAt(b, i)
  BY <1>1, <1>2 DEF Parts
<1> QED
  BY <1>2, <1>3

\* A pass over two buffers of whole lines emits what two passes emit.
LEMMA EmitConcat ==
  ASSUME NEW a \in Seq(Bytes), NEW c \in Seq(Bytes), Ended(a)
  PROVE  /\ Emit(a) \in Seq(Pieces)
         /\ Emit(a \o c) = Emit(a) \o Emit(c)
<1>1. /\ a \o c \in Seq(Bytes) /\ Len(a \o c) = Len(a) + Len(c) /\ Len(a) \in Nat /\ Len(c) \in Nat
      /\ \A i \in 1..Len(a) : (a \o c)[i] = a[i]
      /\ \A i \in 1..Len(c) : (a \o c)[Len(a) + i] = c[i]
  OBVIOUS
<1>2. /\ \A i \in 1..Len(a) : Raw(a \o c, i) = Raw(a, i)
      /\ \A i \in 1..Len(c) : Raw(a \o c, Len(a) + i) = Raw(c, i)
  BY RawConcat
<1>3. \A i \in 1..Len(a) : EmitAt(a \o c, i) = EmitAt(a, i)
  BY <1>1, <1>2 DEF EmitAt
<1>4. \A i \in 1..Len(c) : EmitAt(a \o c, Len(a) + i) = EmitAt(c, i)
  BY <1>1, <1>2 DEF EmitAt
<1>5. /\ Parts(a) \in Seq(Seq(Pieces)) /\ Len(Parts(a)) = Len(a)
      /\ \A i \in 1..Len(a) : Parts(a)[i] = EmitAt(a, i)
  BY PartsIn
<1>6. /\ Parts(c) \in Seq(Seq(Pieces)) /\ Len(Parts(c)) = Len(c)
      /\ \A i \in 1..Len(c) : Parts(c)[i] = EmitAt(c, i)
  BY PartsIn
<1>7. /\ Parts(a \o c) \in Seq(Seq(Pieces)) /\ Len(Parts(a \o c)) = Len(a) + Len(c)
      /\ \A i \in 1..(Len(a) + Len(c)) : Parts(a \o c)[i] = EmitAt(a \o c, i)
  BY <1>1, PartsIn
<1> DEFINE p == Parts(a)
           q == Parts(c)
           m == Len(a)
           n == Len(c)
<1>8. /\ p \o q \in Seq(Seq(Pieces)) /\ Len(p \o q) = m + n
      /\ \A i \in 1..(m + n) : (p \o q)[i] = IF i <= m THEN p[i] ELSE q[i - m]
  <2> HIDE DEF p, q
  <2>1. p \in Seq(Seq(Pieces)) /\ q \in Seq(Seq(Pieces)) /\ Len(p) = m /\ Len(q) = n
    BY <1>5, <1>6 DEF p, q
  <2>2. /\ p \o q \in Seq(Seq(Pieces)) /\ Len(p \o q) = Len(p) + Len(q)
        /\ \A i \in 1..(Len(p) + Len(q)) : (p \o q)[i] = IF i <= Len(p) THEN p[i] ELSE q[i - Len(p)]
    BY <2>1, ConcatProperties
  <2> QED
    BY <2>1, <2>2
<1>9. ASSUME NEW i \in 1..(m + n) PROVE Parts(a \o c)[i] = (p \o q)[i]
  <2>1. CASE i <= m
    <3>1. i \in 1..m
      BY <1>1, <2>1
    <3> QED
      BY <1>3, <1>5, <1>7, <1>8, <2>1, <3>1
  <2>2. CASE ~ (i <= m)
    <3>1. i - m \in 1..n /\ i = m + (i - m)
      BY <1>1, <2>2
    <3>2. Parts(a \o c)[i] = EmitAt(a \o c, m + (i - m))
      BY <1>7, <3>1
    <3>3. Parts(c)[i - m] = EmitAt(c, i - m) /\ EmitAt(a \o c, m + (i - m)) = EmitAt(c, i - m)
      BY <1>4, <1>6, <3>1
    <3> QED
      BY <1>8, <2>2, <3>2, <3>3
  <2> QED
    BY <2>1, <2>2
<1>10. Parts(a \o c) = p \o q
  <2> DEFINE u == Parts(a \o c)
             v == p \o q
  <2>1. u \in Seq(Seq(Pieces)) /\ v \in Seq(Seq(Pieces)) /\ Len(u) = m + n /\ Len(v) = m + n
        /\ \A i \in 1..(m + n) : u[i] = v[i]
    BY <1>7, <1>8, <1>9
  <2> HIDE DEF u, v, m, n
  <2>2. u = v
    BY <2>1, SeqEqual
  <2> QED
    BY <2>2 DEF u, v
<1>11. Emit(a) = FlattenSeq(p) /\ Emit(c) = FlattenSeq(q) /\ Emit(a \o c) = FlattenSeq(Parts(a \o c))
  BY DEF Emit, Parts
<1>12. p \in Seq(Seq(Pieces)) /\ q \in Seq(Seq(Pieces))
  BY <1>5, <1>6
<1> HIDE DEF p, q
<1>13. FlattenSeq(p) \in Seq(Pieces) /\ FlattenSeq(p \o q) = FlattenSeq(p) \o FlattenSeq(q)
  BY <1>12, FlattenConcat
<1> QED
  BY <1>10, <1>11, <1>13

\* Bytes that end no record emit nothing.
LEMMA EmitNothing ==
  ASSUME NEW b, NEW n \in Nat, DOMAIN b = 1..n, \A i \in 1..n : EmitAt(b, i) = <<>>
  PROVE  Emit(b) = <<>>
<1> DEFINE p == [i \in DOMAIN b |-> EmitAt(b, i)]
<1>1. p \in Seq(Seq({})) /\ Len(p) = n /\ \A i \in 1..n : p[i] = <<>>
  <2>1. <<>> \in Seq({})
    OBVIOUS
  <2>2. p \in [1..n -> Seq({})] /\ \A i \in 1..n : p[i] = <<>>
    BY <2>1
  <2> HIDE DEF p
  <2> QED
    BY <2>2
<1> HIDE DEF p
<1>2. FlattenSeq(p) = <<>>
  BY <1>1, FlattenNothing
<1> QED
  BY <1>2 DEF Emit, p

\* A pass takes at least one line, up to a newline, and emits all there is:
\* what follows are blank lines and a line without its end.
LEMMA Consumes ==
  ASSUME NEW b \in Seq(Bytes), Ends(b) # {}
  PROVE  /\ Consumed(b) \in 1..Len(b) /\ b[Consumed(b)] = NL
         /\ Emit(b) = Emit(SubSeq(b, 1, Consumed(b)))
<1> DEFINE e == Max(Ends(b) \union {0})
           con == SubSeq(b, 1, e)
           t == Max({i \in DOMAIN con : con[i] # NL} \union {0})
           m == Consumed(b)
<1>1. e \in 1..Len(b) /\ b[e] = NL /\ \A j \in 1..Len(b) : b[j] = NL => j <= e
  <2> DEFINE U == Ends(b) \union {0}
  <2>1. Len(b) \in Nat /\ U \in SUBSET (0..Len(b)) /\ U # {}
    BY DEF Ends
  <2>2. Max(U) \in U /\ \A y \in U : y <= Max(U)
    <3> HIDE DEF U
    <3> QED
      BY <2>1, Greatest
  <2>3. PICK k \in Ends(b) : TRUE
    OBVIOUS
  <2>4. k \in 1..Len(b) /\ k <= Max(U) /\ Max(U) \in 0..Len(b)
    BY <2>1, <2>2 DEF Ends
  <2>5. Max(U) \in Ends(b)
    BY <2>1, <2>2, <2>4
  <2> QED
    BY <2>2, <2>5 DEF Ends
<1> HIDE DEF e
<1>2. con \in Seq(Bytes) /\ Len(con) = e /\ \A i \in 1..e : con[i] = b[i]
  BY <1>1
<1>3. Consumable(b) = con
  BY DEF Consumable, e
<1> HIDE DEF con
<1>4. t \in 0..e /\ (t # 0 => con[t] # NL) /\ \A j \in 1..e : con[j] # NL => j <= t
  <2> DEFINE U == {i \in DOMAIN con : con[i] # NL} \union {0}
  <2>1. e \in Nat /\ U \in SUBSET (0..e) /\ U # {} /\ DOMAIN con = 1..e
    BY <1>1, <1>2
  <2>2. Max(U) \in U /\ \A y \in U : y <= Max(U)
    <3> HIDE DEF U
    <3> QED
      BY <2>1, Greatest
  <2> QED
    BY <2>1, <2>2
<1>5. Len(Trimmed(con)) = t
  <2>1. Trimmed(con) = SubSeq(con, 1, t)
    BY DEF Trimmed
  <2> HIDE DEF t
  <2> QED
    BY <1>1, <1>2, <1>4, <2>1
<1> HIDE DEF t
<1>6. m = t + 1
  BY <1>3, <1>5 DEF Consumed
<1>7. m \in 1..e /\ \A j \in m..e : b[j] = NL
  <2>1. e \in 1..e /\ con[e] = NL
    BY <1>1, <1>2
  <2>2. t # e
    BY <1>1, <1>4, <2>1
  <2>3. \A j \in (t + 1)..e : j \in 1..e /\ ~ (j <= t)
    BY <1>1, <1>4
  <2> QED
    BY <1>1, <1>2, <1>4, <1>6, <2>2, <2>3
<1> HIDE DEF m
<1> DEFINE a == SubSeq(b, 1, m)
           c == SubSeq(b, m + 1, Len(b))
<1>8. /\ a \in Seq(Bytes) /\ Len(a) = m /\ a[m] = b[m]
      /\ c \in Seq(Bytes) /\ Len(c) = Len(b) - m /\ \A i \in 1..(Len(b) - m) : c[i] = b[m + i]
  BY <1>1, <1>7
<1>9. a \o c = b
  <2>1. SubSeq(b, 1, m) \o SubSeq(b, m + 1, Len(b)) = SubSeq(b, 1, Len(b))
    <3>1. 1 \in 1..(Len(b) + 1) /\ m \in (1 - 1)..Len(b) /\ Len(b) \in m..Len(b)
      BY <1>1, <1>7
    <3> QED
      BY <3>1, ConcatAdjacentSubSeq
  <2> QED
    BY <2>1, SubSeqFull
<1>10. Ended(a)
  BY <1>1, <1>7, <1>8 DEF Ended
<1> HIDE DEF a, c
<1>11. ASSUME NEW i \in 1..(Len(b) - m) PROVE EmitAt(c, i) = <<>>
  <2> SUFFICES ASSUME c[i] = NL PROVE Raw(c, i) = <<>>
    BY DEF EmitAt
  <2>1. m + i <= e /\ i \in 1..Len(c)
    <3>1. i \in 1..Len(c) /\ c[i] = b[m + i]
      BY <1>1, <1>7, <1>8
    <3>2. m + i \in 1..Len(b) /\ b[m + i] = NL
      BY <1>1, <1>7, <3>1
    <3> QED
      BY <1>1, <3>1, <3>2
  <2>2. i = 1 \/ c[i - 1] = NL
    <3>1. i # 1 => i - 1 \in 1..(Len(b) - m) /\ m + (i - 1) \in m..e
      BY <1>1, <1>7, <2>1
    <3> QED
      BY <1>7, <1>8, <3>1
  <2>3. LineStart(c, i) = i
    <3>1. i \in 1..i /\ \A j \in i..(i - 1) : c[j] # NL
      BY <2>1
    <3> QED
      BY <1>8, <2>1, <2>2, <3>1, LineStartUnique
  <2>4. SubSeq(c, i, i - 1) = <<>>
    BY <2>1, SubSeqEmpty
  <2>5. TrimCR(<<>>) = <<>>
    <3> DEFINE U == {j \in DOMAIN <<>> : <<>>[j] # CR} \union {0}
    <3>1. U = {0} /\ U \in SUBSET (0..0)
      OBVIOUS
    <3>2. Max(U) = 0
      <4> HIDE DEF U
      <4>1. Max(U) \in U
        BY <3>1, Greatest
      <4> QED
        BY <3>1, <4>1
    <3> QED
      BY <3>2, SubSeqEmpty DEF TrimCR
  <2> QED
    BY <2>3, <2>4, <2>5 DEF Raw
<1>12. Emit(c) = <<>>
  <2>1. DOMAIN c = 1..(Len(b) - m) /\ Len(b) - m \in Nat
    BY <1>1, <1>7, <1>8
  <2> QED
    BY <1>11, <2>1, EmitNothing
<1>13. Emit(b) = Emit(a)
  <2>1. Emit(a) \in Seq(Pieces) /\ Emit(a \o c) = Emit(a) \o Emit(c)
    BY <1>8, <1>10, EmitConcat
  <2> QED
    BY <1>9, <1>12, <2>1, ConcatEmptySeq
<1> QED
  BY <1>1, <1>7, <1>13 DEF a, m

\* Without the mark bytes are bytes, at most one fewer.
LEMMA UnmarkedIn ==
  ASSUME NEW S, NEW s \in Seq(S)
  PROVE  /\ Unmarked(s) \in Seq(S) /\ Len(Unmarked(s)) \in {Len(s), Len(s) - 1}
         /\ s = <<>> => Unmarked(s) = <<>>
BY DEF Unmarked

\* The mark goes from the first of two parts.
LEMMA UnmarkedConcat ==
  ASSUME NEW S, NEW s \in Seq(S), NEW t \in Seq(S), s # <<>>
  PROVE  Unmarked(s \o t) = Unmarked(s) \o t
<1>1. /\ s \o t \in Seq(S) /\ Len(s \o t) = Len(s) + Len(t) /\ s \o t # <<>>
      /\ Head(s \o t) = Head(s) /\ Len(s) \in Nat /\ Len(s) > 0 /\ Len(t) \in Nat
  OBVIOUS
<1>2. Tail(s \o t) = Tail(s) \o t
  <2> DEFINE u == s \o t
  <2>1. u \in Seq(S) /\ u # <<>> /\ Len(u) = Len(s) + Len(t)
        /\ \A i \in 1..Len(u) : u[i] = IF i <= Len(s) THEN s[i] ELSE t[i - Len(s)]
    BY <1>1, ConcatProperties
  <2> HIDE DEF u
  <2>2. Tail(u) \in Seq(S) /\ Len(Tail(u)) = Len(u) - 1 /\ \A i \in 1..Len(Tail(u)) : Tail(u)[i] = u[i + 1]
    BY <2>1, HeadTailProperties
  <2>3. Tail(s) \in Seq(S) /\ Len(Tail(s)) = Len(s) - 1 /\ \A i \in 1..Len(Tail(s)) : Tail(s)[i] = s[i + 1]
    BY HeadTailProperties
  <2>4. /\ Tail(s) \o t \in Seq(S) /\ Len(Tail(s) \o t) = Len(s) - 1 + Len(t)
        /\ \A i \in 1..(Len(s) - 1 + Len(t)) :
             (Tail(s) \o t)[i] = IF i <= Len(s) - 1 THEN Tail(s)[i] ELSE t[i - (Len(s) - 1)]
    <3> DEFINE w == Tail(s)
    <3>1. w \in Seq(S) /\ Len(w) = Len(s) - 1
      BY <2>3
    <3> HIDE DEF w
    <3>2. /\ w \o t \in Seq(S) /\ Len(w \o t) = Len(w) + Len(t)
          /\ \A i \in 1..(Len(w) + Len(t)) : (w \o t)[i] = IF i <= Len(w) THEN w[i] ELSE t[i - Len(w)]
      BY <3>1, ConcatProperties
    <3> QED
      BY <3>1, <3>2 DEF w
  <2>5. ASSUME NEW i \in 1..Len(Tail(u)) PROVE Tail(u)[i] = (Tail(s) \o t)[i]
    <3>1. i \in 1..(Len(s) - 1 + Len(t)) /\ i + 1 \in 1..Len(u)
      BY <1>1, <2>1, <2>2
    <3>2. Tail(u)[i] = IF i + 1 <= Len(s) THEN s[i + 1] ELSE t[i + 1 - Len(s)]
      BY <2>1, <2>2, <3>1
    <3>3. (Tail(s) \o t)[i] = IF i <= Len(s) - 1 THEN Tail(s)[i] ELSE t[i - (Len(s) - 1)]
      BY <2>4, <3>1
    <3>4. CASE i + 1 <= Len(s)
      <4>1. i <= Len(s) - 1 /\ i \in 1..Len(Tail(s))
        BY <1>1, <2>3, <3>1, <3>4
      <4> QED
        BY <2>3, <3>2, <3>3, <3>4, <4>1
    <3>5. CASE ~ (i + 1 <= Len(s))
      <4>1. ~ (i <= Len(s) - 1) /\ i + 1 - Len(s) = i - (Len(s) - 1)
        BY <1>1, <3>1, <3>5
      <4> QED
        BY <3>2, <3>3, <3>5, <4>1
    <3> QED
      BY <3>4, <3>5
  <2>6. Tail(u) = Tail(s) \o t
    <3> DEFINE w == Tail(s) \o t
               v == Tail(u)
    <3>1. w \in Seq(S) /\ v \in Seq(S) /\ Len(v) = Len(w) /\ \A i \in 1..Len(v) : v[i] = w[i]
      BY <1>1, <2>1, <2>2, <2>4, <2>5
    <3> HIDE DEF w, v
    <3>2. v = w
      BY <3>1, SeqEqual
    <3> QED
      BY <3>2 DEF v, w
  <2> QED
    BY <2>6 DEF u
<1> QED
  BY <1>1, <1>2 DEF Unmarked

\* The bytes up to p without the mark.
PastOf(f, p) == Unmarked(SubSeq(f, 1, p))

\* The past grows by the bytes that follow it.
LEMMA PastGrows ==
  ASSUME NEW S, NEW f \in Seq(S), NEW p \in 1..Len(f), NEW n \in p..Len(f)
  PROVE  PastOf(f, n) = PastOf(f, p) \o SubSeq(f, p + 1, n)
<1> DEFINE g == SubSeq(f, 1, p)
           h == SubSeq(f, p + 1, n)
<1>1. g \in Seq(S) /\ Len(g) = p /\ g # <<>> /\ h \in Seq(S)
  OBVIOUS
<1>2. SubSeq(f, 1, n) = g \o h
  <2>1. 1 \in 1..(Len(f) + 1) /\ p \in (1 - 1)..Len(f) /\ n \in p..Len(f)
    OBVIOUS
  <2> QED
    BY <2>1, ConcatAdjacentSubSeq
<1> HIDE DEF g, h
<1>3. Unmarked(g \o h) = Unmarked(g) \o h
  BY <1>1, UnmarkedConcat
<1> QED
  BY <1>2, <1>3 DEF PastOf, g, h

\* Nothing is before the first byte.
LEMMA PastOfNone == ASSUME NEW f PROVE PastOf(f, 0) = <<>>
BY SubSeqEmpty DEF PastOf, Unmarked

\* The past consists of bytes.
LEMMA PastIn ==
  ASSUME NEW S, NEW f \in Seq(S), NEW p \in 0..Len(f)
  PROVE  PastOf(f, p) \in Seq(S)
<1>1. SubSeq(f, 1, p) \in Seq(S)
  OBVIOUS
<1> QED
  BY <1>1, UnmarkedIn DEF PastOf

\* What is appended leaves the past.
LEMMA PastOfAppend ==
  ASSUME NEW S, NEW f \in Seq(S), NEW x \in S, NEW p \in 0..Len(f)
  PROVE  PastOf(Append(f, x), p) = PastOf(f, p)
<1>1. SubSeq(Append(f, x), 1, p) = SubSeq(f, 1, p)
  OBVIOUS
<1> QED
  BY <1>1 DEF PastOf

\* What a pass over the bytes after p up to k reads, and where it starts.
BodyOf(f, p, k) == IF p = 0 THEN Unmarked(SubSeq(f, p + 1, k)) ELSE SubSeq(f, p + 1, k)
StartOf(f, p, k) == p + Len(SubSeq(f, p + 1, k)) - Len(BodyOf(f, p, k))

\* A pass from p that takes n bytes of its body moves the past by these.
LEMMA PassTakes ==
  ASSUME NEW S, NEW f \in Seq(S), NEW p \in Nat, NEW k \in (p + 1)..Len(f),
         NEW n \in 0..Len(BodyOf(f, p, k))
  PROVE  /\ BodyOf(f, p, k) \in Seq(S)
         /\ StartOf(f, p, k) \in Nat /\ StartOf(f, p, k) >= p
         /\ StartOf(f, p, k) + Len(BodyOf(f, p, k)) = k
         /\ PastOf(f, StartOf(f, p, k) + n) = PastOf(f, p) \o SubSeq(BodyOf(f, p, k), 1, n)
<1> DEFINE g == SubSeq(f, p + 1, k)
           w == BodyOf(f, p, k)
<1>1. Len(f) \in Nat /\ k \in 1..Len(f) /\ g \in Seq(S) /\ Len(g) = k - p
      /\ \A i \in 1..(k - p) : g[i] = f[p + i]
  OBVIOUS
<1>2. PastOf(f, p) \in Seq(S)
  <2>1. p \in 0..Len(f)
    BY <1>1
  <2> QED
    BY <2>1, PastIn
<1>3. ASSUME NEW j \in Nat, j < k, NEW q \in 0..(k - j)
      PROVE  SubSeq(SubSeq(f, j + 1, k), 1, q) = SubSeq(f, j + 1, j + q)
  <2>1. CASE q = 0
    BY <1>1, <2>1, SubSeqEmpty
  <2>2. CASE q # 0
    <3>1. j + 1 \in 1..Len(f) /\ k \in 1..Len(f) /\ 1 \in 1..(k - (j + 1) + 1)
          /\ q \in 1..(k - (j + 1) + 1) /\ (j + 1) + 1 - 1 = j + 1 /\ (j + 1) + q - 1 = j + q
      BY <1>1, <1>3, <2>2
    <3>2. SubSeq(SubSeq(f, j + 1, k), 1, q) = SubSeq(f, (j + 1) + 1 - 1, (j + 1) + q - 1)
      BY <3>1, SubSeqOfSubSeq
    <3> QED
      BY <3>1, <3>2
  <2> QED
    BY <2>1, <2>2
<1>4. CASE p # 0
  <2>1. w = g /\ StartOf(f, p, k) = p
    <3>1. BodyOf(f, p, k) = SubSeq(f, p + 1, k)
      BY <1>4 DEF BodyOf
    <3>2. Len(SubSeq(f, p + 1, k)) \in Nat
      BY <1>1
    <3> QED
      BY <3>1, <3>2 DEF StartOf
  <2>2. n \in 0..(k - p)
    BY <1>1, <2>1
  <2>3. PastOf(f, p + n) = PastOf(f, p) \o SubSeq(f, p + 1, p + n)
    <3>1. p \in 1..Len(f) /\ p + n \in p..Len(f)
      BY <1>1, <1>4, <2>2
    <3> QED
      BY <3>1, PastGrows
  <2>4. SubSeq(g, 1, n) = SubSeq(f, p + 1, p + n)
    <3>1. p < k
      OBVIOUS
    <3> QED
      BY <1>3, <2>2, <3>1
  <2>5. PastOf(f, p + n) = PastOf(f, p) \o SubSeq(w, 1, n)
    BY <2>1, <2>3, <2>4
  <2>6. p + Len(w) = k /\ w \in Seq(S)
    BY <1>1, <2>1
  <2> HIDE DEF w, g
  <2> QED
    BY <2>1, <2>5, <2>6 DEF w
<1>5. CASE p = 0
  <2>1. PastOf(f, p) = <<>> /\ w = Unmarked(g) /\ g = SubSeq(f, 1, k) /\ Len(g) = k
    BY <1>1, <1>5, PastOfNone DEF BodyOf
  <2>2. w \in Seq(S)
    BY <1>1, <2>1, UnmarkedIn
  <2>3. StartOf(f, p, k) = k - Len(w)
    BY <1>5, <2>1 DEF StartOf
  <2>4. Head(g) = f[1] /\ g # <<>>
    BY <1>1, <1>5
  <2>5. CASE f[1] = BOM
    <3>1. w = SubSeq(f, 2, k) /\ Len(w) = k - 1
      <4>1. w = Tail(g)
        BY <2>1, <2>4, <2>5 DEF Unmarked
      <4>2. Tail(g) = SubSeq(f, 2, k)
        <5>1. 1 \in 1..Len(f) /\ k \in 1..Len(f) /\ 1 + 1 = 2
          BY <1>1
        <5>2. Tail(SubSeq(f, 1, k)) = SubSeq(f, 1 + 1, k)
          BY <5>1, HeadTailOfSubSeq
        <5> QED
          BY <2>1, <5>1, <5>2
      <4>3. Len(SubSeq(f, 2, k)) = k - 1
        BY <1>1
      <4> HIDE DEF w, g
      <4> QED
        BY <4>1, <4>2, <4>3
    <3>2. n \in 0..(k - 1) /\ StartOf(f, p, k) = 1
      BY <1>1, <2>3, <3>1
    <3>3. PastOf(f, 1) = <<>>
      <4>1. Head(SubSeq(f, 1, 1)) = f[1] /\ Tail(SubSeq(f, 1, 1)) = SubSeq(f, 1 + 1, 1)
        <5>1. 1 \in 1..Len(f) /\ 1 \in 1..1
          BY <1>1
        <5> QED
          BY <5>1, HeadTailOfSubSeq
      <4>2. SubSeq(f, 1 + 1, 1) = <<>> /\ (SubSeq(f, 1, 1) = <<>> => Tail(SubSeq(f, 1, 1)) = <<>>)
        BY <4>1, SubSeqEmpty
      <4>3. SubSeq(f, 1, 1) # <<>> /\ Head(SubSeq(f, 1, 1)) = BOM
        BY <1>1, <2>5, <4>1
      <4> QED
        BY <4>1, <4>2, <4>3 DEF PastOf, Unmarked
    <3>4. PastOf(f, 1 + n) = PastOf(f, 1) \o SubSeq(f, 1 + 1, 1 + n)
      <4>1. 1 \in 1..Len(f) /\ 1 + n \in 1..Len(f)
        BY <1>1, <3>2
      <4> QED
        BY <4>1, PastGrows
    <3>5. SubSeq(w, 1, n) = SubSeq(f, 1 + 1, 1 + n)
      <4>1. CASE k = 1
        <5>1. n = 0
          BY <3>2, <4>1
        <5> QED
          BY <5>1, SubSeqEmpty
      <4>2. CASE k # 1
        <5>1. 1 \in Nat /\ 1 < k
          BY <1>1, <4>2
        <5> QED
          BY <1>3, <3>1, <3>2, <5>1
      <4> QED
        BY <4>1, <4>2
    <3>6. PastOf(f, 1 + n) = PastOf(f, p) \o SubSeq(w, 1, n)
      BY <2>1, <3>3, <3>4, <3>5
    <3>7. StartOf(f, p, k) + Len(w) = k
      <4> HIDE DEF w
      <4> QED
        BY <1>1, <3>1, <3>2
    <3> HIDE DEF w, g
    <3> QED
      BY <1>5, <2>2, <3>2, <3>6, <3>7 DEF w
  <2>6. CASE f[1] # BOM
    <3>1. w = g /\ StartOf(f, p, k) = 0 /\ n \in 0..k
      <4>1. w = g
        BY <2>1, <2>4, <2>6 DEF Unmarked
      <4>2. StartOf(f, p, k) = 0 + Len(g) - Len(w)
        BY <1>5 DEF StartOf
      <4>3. Len(g) = k /\ k \in Nat
        BY <1>1, <1>5
      <4>4. n \in 0..Len(w)
        OBVIOUS
      <4> HIDE DEF g, w
      <4> QED
        BY <4>1, <4>2, <4>3, <4>4
    <3>2. SubSeq(w, 1, n) = SubSeq(f, 1, n)
      <4>1. 0 \in Nat /\ 0 < k /\ n \in 0..(k - 0) /\ 0 + 1 = 1 /\ 0 + n = n
        BY <1>1, <3>1
      <4>2. SubSeq(SubSeq(f, 0 + 1, k), 1, n) = SubSeq(f, 0 + 1, 0 + n)
        BY <1>3, <4>1
      <4> QED
        BY <2>1, <3>1, <4>1, <4>2
    <3>3. PastOf(f, n) = SubSeq(f, 1, n)
      <4>1. SubSeq(f, 1, n) = <<>> \/ Head(SubSeq(f, 1, n)) = f[1]
        <5>1. CASE n = 0
          BY <5>1, SubSeqEmpty
        <5>2. CASE n # 0
          <6>1. 1 \in 1..Len(f) /\ n \in 1..Len(f)
            BY <1>1, <3>1, <5>2
          <6> QED
            BY <6>1, HeadTailOfSubSeq
        <5> QED
          BY <5>1, <5>2
      <4> QED
        BY <2>6, <4>1 DEF PastOf, Unmarked
    <3>4. SubSeq(f, 1, n) \in Seq(S) /\ <<>> \o SubSeq(f, 1, n) = SubSeq(f, 1, n)
      <4>1. SubSeq(f, 1, n) \in Seq(S)
        BY <1>1, <3>1
      <4> QED
        BY <4>1, ConcatEmptySeq
    <3>5. PastOf(f, 0 + n) = PastOf(f, p) \o SubSeq(w, 1, n)
      BY <2>1, <3>1, <3>2, <3>3, <3>4
    <3> HIDE DEF w, g
    <3>6. StartOf(f, p, k) + Len(w) = k
      <4>1. Len(w) = k /\ k \in Nat
        BY <1>1, <2>1, <3>1
      <4> QED
        BY <3>1, <4>1
    <3> QED
      BY <1>5, <2>2, <3>1, <3>5, <3>6 DEF w
  <2> QED
    BY <2>5, <2>6
<1> QED
  BY <1>4, <1>5

(***************************************************************************)
(* The invariant.  It speaks of Pos, where the next bytes come from, which is *)
(* the offset or, while a pass is under way, where that pass began.        *)
(***************************************************************************)
TailTypes ==
  /\ transcript \in Seq(Bytes) /\ offset \in Nat
  /\ pass \in [size : Nat, from : Nat] /\ lapses \in Nat

\* No byte was skipped and no pass repeated.
Faithful == ~lost /\ lapses = 0

\* Where the next bytes are emitted from.
Pos == IF pass = Idle THEN offset ELSE pass.from

\* A pass starts at the offset or over, and what it saw is still there.
PassInv ==
  /\ pass # Idle => pass.size > 0 /\ pass.from <= pass.size /\ pass.from \in {0, offset}
  /\ ~swapped /\ pass # Idle => pass.size <= Len(transcript)
  /\ ~swapped /\ pass = Idle /\ lapses = 0 => offset <= Len(transcript)

\* Before the first byte nothing has been emitted.
StartInv == Faithful /\ Pos = 0 => engrams = <<>>

\* The past ends with a line.
LineInv == Faithful /\ ~swapped => Ended(PastOf(transcript, Pos))

\* The engrams are those of the past.
EmitInv == Faithful /\ ~swapped => engrams = Emit(PastOf(transcript, Pos))

TailInv == TailTypes /\ PassInv /\ StartInv /\ LineInv /\ EmitInv

\* No bytes emit nothing, and end no line.
LEMMA EmitEmpty == Emit(<<>>) = <<>> /\ Ended(<<>>)
<1>1. DOMAIN <<>> = 1..0 /\ 0 \in Nat
  OBVIOUS
<1> QED
  BY <1>1, EmitNothing DEF Ended

\* The invariant holds of an empty transcript.
LEMMA TailInit == Init => TailInv
<1> SUFFICES ASSUME Init PROVE TailInv
  OBVIOUS
<1>1. /\ transcript = <<>> /\ offset = 0 /\ pass = Idle /\ engrams = <<>> /\ lapses = 0 /\ <<>> \in Seq(Bytes)
      /\ Len(transcript) = 0
  BY DEF Init
<1>2. TailTypes /\ PassInv /\ StartInv
  BY <1>1 DEF TailTypes, PassInv, StartInv, Idle
<1>3. Pos = 0 /\ PastOf(transcript, 0) = <<>>
  BY <1>1, PastOfNone DEF Pos
<1> QED
  BY <1>1, <1>2, <1>3, EmitEmpty DEF TailInv, LineInv, EmitInv

\* A byte written after what was seen changes none of it.
LEMMA WriteKeeps == ASSUME TailInv, Write PROVE TailInv'
<1> USE DEF TailInv
<1>1. PICK b \in Bytes : transcript' = Append(transcript, b)
  BY DEF Write
<1>2. /\ UNCHANGED <<offset, pass, engrams, swapped, lost, lapses>>
      /\ transcript \in Seq(Bytes) /\ transcript' \in Seq(Bytes) /\ Len(transcript) \in Nat /\ Len(transcript') = Len(transcript) + 1
      /\ offset \in Nat /\ pass.size \in Nat /\ pass.from \in Nat
  BY <1>1 DEF Write, TailTypes
<1>3. TailTypes' /\ PassInv'
  BY <1>2 DEF TailTypes, PassInv
<1>4. Faithful' = Faithful /\ Pos' = Pos
  BY <1>2 DEF Faithful, Pos
<1>5. StartInv'
  BY <1>2, <1>4 DEF StartInv
<1>6. ASSUME Faithful, ~swapped PROVE PastOf(transcript', Pos) = PastOf(transcript, Pos)
  <2>1. Pos \in 0..Len(transcript)
    BY <1>2, <1>6 DEF Pos, PassInv, Faithful
  <2> QED
    BY <1>1, <1>2, <2>1, PastOfAppend
<1> QED
  BY <1>2, <1>3, <1>4, <1>5, <1>6 DEF LineInv, EmitInv

\* After a replacement nothing is said until the next look at the file.
LEMMA SwapKeeps == ASSUME TailInv, Swap PROVE TailInv'
<1> USE DEF TailInv
<1>1. /\ UNCHANGED <<offset, pass, engrams, lost, lapses>> /\ transcript' = <<>> /\ swapped'
      /\ <<>> \in Seq(Bytes)
  BY DEF Swap
<1> QED
  BY <1>1 DEF TailTypes, PassInv, StartInv, LineInv, EmitInv, Faithful, Pos

\* Parse starts over exactly when the file is shorter than the offset.
LEMMA StatKeeps == ASSUME TailInv, Stat PROVE TailInv'
<1> USE DEF TailInv
<1>1. /\ pass = Idle /\ ~swapped' /\ lost' = (Missed \/ TooLong) /\ UNCHANGED <<transcript, lapses>>
      /\ engrams' = (IF offset > Len(transcript) THEN <<>> ELSE engrams)
      /\ transcript \in Seq(Bytes) /\ Len(transcript) \in Nat /\ offset \in Nat /\ lapses \in Nat
  BY DEF Stat, TailTypes
<1>2. \/ offset' = Len(transcript) /\ pass' = pass /\ (transcript = <<>> \/ TooLong)
      \/ pass' = [size |-> Len(transcript), from |-> From] /\ offset' = offset /\ transcript # <<>>
  BY DEF Stat
<1>3. From \in Nat /\ From <= Len(transcript) /\ From \in {0, offset} /\ (offset <= Len(transcript) => From = offset)
  BY <1>1 DEF From
<1>4. (transcript = <<>> <=> Len(transcript) = 0)
  BY <1>1
<1>5. TailTypes' /\ PassInv'
  <2>1. CASE offset' = Len(transcript) /\ pass' = pass
    BY <1>1, <2>1 DEF TailTypes, PassInv
  <2>2. CASE pass' = [size |-> Len(transcript), from |-> From] /\ offset' = offset /\ transcript # <<>>
    <3>1. pass'.size = Len(transcript) /\ pass'.from = From /\ Len(transcript) > 0
      BY <1>1, <1>4, <2>2
    <3> QED
      BY <1>1, <1>3, <2>2, <3>1 DEF TailTypes, PassInv, Idle
  <2> QED
    BY <1>2, <2>1, <2>2
<1>6. Faithful' => Pos' = From
  <2>1. CASE transcript = <<>> /\ offset' = Len(transcript) /\ pass' = pass
    <3>1. Len(transcript) = 0
      BY <1>4, <2>1
    <3>2. From = 0 /\ offset' = 0
      BY <1>3, <2>1, <3>1
    <3>3. pass' = Idle
      BY <1>1, <2>1
    <3> QED
      BY <3>2, <3>3 DEF Pos
  <2>2. CASE TooLong
    BY <1>1, <2>2 DEF Faithful
  <2>3. CASE pass' = [size |-> Len(transcript), from |-> From] /\ offset' = offset /\ transcript # <<>>
    <3>1. pass'.size = Len(transcript) /\ pass'.from = From /\ Len(transcript) # 0
      BY <1>4, <2>3
    <3>2. pass' # Idle
      BY <3>1 DEF Idle
    <3> QED
      BY <3>1, <3>2 DEF Pos
  <2> QED
    BY <1>2, <2>1, <2>2, <2>3
<1>10. Faithful' => lapses = 0 /\ ~Missed
  BY <1>1 DEF Faithful
<1>11. offset <= Len(transcript) => Missed = (lost \/ (swapped /\ offset > 0))
  <2>1. offset <= Len(transcript) => ~(offset > Len(transcript))
    BY <1>1
  <2> QED
    BY <2>1 DEF Missed
<1>12. Faithful' /\ offset <= Len(transcript) => Faithful /\ ~(swapped /\ offset > 0)
  BY <1>10, <1>11 DEF Faithful
<1>13. Pos = offset
  BY <1>1 DEF Pos
<1>7. ASSUME Faithful', From = 0 PROVE engrams' = <<>>
  <2>1. CASE offset > Len(transcript)
    BY <1>1, <2>1
  <2>2. CASE offset <= Len(transcript)
    <3>1. offset = 0
      BY <1>3, <1>7, <2>2
    <3>2. engrams = <<>>
      BY <1>7, <1>12, <1>13, <2>2, <3>1 DEF StartInv
    <3> QED
      BY <1>1, <3>2
  <2> QED
    BY <1>1, <2>1, <2>2
<1>8. ASSUME Faithful', From # 0
      PROVE  Faithful /\ ~swapped /\ Pos = From /\ engrams' = engrams
  <2>1. offset <= Len(transcript) /\ From = offset /\ offset > 0
    BY <1>1, <1>8 DEF From
  <2>2. ~(offset > Len(transcript))
    BY <1>1, <2>1
  <2>3. Faithful /\ ~swapped
    BY <1>8, <1>12, <2>1
  <2> QED
    BY <1>1, <1>13, <2>1, <2>2, <2>3
<1>9. Faithful' => Ended(PastOf(transcript, From)) /\ engrams' = Emit(PastOf(transcript, From))
  <2>1. CASE From = 0
    BY <1>7, <2>1, PastOfNone, EmitEmpty
  <2>2. CASE From # 0
    BY <1>8, <2>2 DEF LineInv, EmitInv
  <2> QED
    BY <2>1, <2>2
<1> QED
  BY <1>1, <1>5, <1>6, <1>7, <1>9 DEF StartInv, LineInv, EmitInv

\* What was seen can all be gone only if the file was replaced, or nothing was new.
LEMMA NothingLeft ==
  ASSUME TailTypes, PassInv, ReadNothing, ~swapped
  PROVE  pass.from = pass.size /\ pass.from = offset /\ offset <= Len(transcript)
<1>1. /\ pass # Idle /\ Buffer = <<>> /\ transcript \in Seq(Bytes) /\ Len(transcript) \in Nat
      /\ pass.size \in Nat /\ pass.from \in Nat
  BY DEF ReadNothing, TailTypes
<1>2. /\ pass.size > 0 /\ pass.from <= pass.size /\ pass.from \in {0, offset}
      /\ pass.size <= Len(transcript)
  BY <1>1 DEF PassInv
<1>6. (IF pass.size < Len(transcript) THEN pass.size ELSE Len(transcript)) = pass.size
  BY <1>1, <1>2
<1>3. Buffer = SubSeq(transcript, pass.from + 1, pass.size)
  BY <1>6 DEF Buffer
<1>4. pass.from < pass.size => Len(SubSeq(transcript, pass.from + 1, pass.size)) = pass.size - pass.from
  BY <1>1, <1>2
<1>7. Len(<<>>) = 0
  OBVIOUS
<1>8. ~(pass.from < pass.size)
  <2> SUFFICES ASSUME pass.from < pass.size PROVE FALSE
    OBVIOUS
  <2>1. Len(Buffer) = pass.size - pass.from
    BY <1>3, <1>4
  <2>2. Len(Buffer) = 0
    BY <1>1, <1>7
  <2> QED
    BY <1>1, <2>1, <2>2
<1>5. pass.from = pass.size
  BY <1>1, <1>2, <1>8
<1>9. pass.from = offset
  BY <1>1, <1>2, <1>5
<1> QED
  BY <1>1, <1>2, <1>5, <1>9

\* A pass that finds nothing leaves everything as it was.
LEMMA ReadNothingKeeps == ASSUME TailInv, ReadNothing PROVE TailInv'
<1> USE DEF TailInv
<1>1. /\ pass # Idle /\ pass' = Idle
      /\ UNCHANGED <<transcript, offset, engrams, swapped, lost, lapses>>
      /\ transcript \in Seq(Bytes) /\ offset \in Nat
  BY DEF ReadNothing, TailTypes
<1>2. pass.from \in {0, offset}
  BY <1>1 DEF PassInv
<1>3. ~swapped => pass.from = offset /\ offset <= Len(transcript)
  BY NothingLeft
<1>4. TailTypes' /\ PassInv'
  BY <1>1, <1>3 DEF TailTypes, PassInv, Idle
<1>5. Faithful' = Faithful /\ Pos' = offset /\ Pos = pass.from
  BY <1>1 DEF Faithful, Pos
<1>6. StartInv'
  BY <1>1, <1>2, <1>5 DEF StartInv
<1> QED
  BY <1>1, <1>3, <1>4, <1>5, <1>6 DEF LineInv, EmitInv

\* The emitted part of a pass's body: whole lines.
Taken == IF Ends(Body) = {} THEN 0 ELSE Consumed(Body)

\* What a pass reads and takes.
LEMMA PassShape ==
  ASSUME TailTypes, Buffer # <<>>
  PROVE  /\ PastOf(transcript, pass.from) \in Seq(Bytes) /\ Body \in Seq(Bytes)
         /\ Taken \in 0..Len(Body) /\ (Taken # 0 => Body[Taken] = NL)
         /\ Emit(Body) = Emit(SubSeq(Body, 1, Taken))
         /\ NewOffset \in pass.from..Len(transcript)
         /\ PastOf(transcript, NewOffset) = PastOf(transcript, pass.from) \o SubSeq(Body, 1, Taken)
         /\ pass.size <= Len(transcript) => PastOf(transcript, pass.size) = PastOf(transcript, pass.from) \o Body
<1> DEFINE p == pass.from
           k == IF pass.size < Len(transcript) THEN pass.size ELSE Len(transcript)
<1>1. transcript \in Seq(Bytes) /\ Len(transcript) \in Nat /\ p \in Nat /\ pass.size \in Nat
  BY DEF TailTypes
<1>2. Buffer = SubSeq(transcript, p + 1, k)
  BY DEF Buffer
<1>3. k \in (p + 1)..Len(transcript)
  <2>1. k \in Nat /\ k <= Len(transcript)
    BY <1>1
  <2>2. k < p + 1 => Buffer = <<>>
    <3> HIDE DEF k, p
    <3> QED
      BY <1>1, <1>2, <2>1, SubSeqEmpty
  <2> HIDE DEF k, p
  <2> QED
    BY <1>1, <2>1, <2>2
<1>4. Body = BodyOf(transcript, p, k)
  BY <1>2 DEF Body, BodyOf
<1>5. Start = StartOf(transcript, p, k)
  BY <1>2, <1>4 DEF Start, StartOf
<1> HIDE DEF p, k
<1>7. PastOf(transcript, p) \in Seq(Bytes)
  <2>1. p \in 0..Len(transcript)
    BY <1>1, <1>3
  <2> QED
    BY <1>1, <2>1, PastIn
<1>8. Body \in Seq(Bytes) /\ Len(Body) \in Nat
  <2>1. 0 \in 0..Len(BodyOf(transcript, p, k))
    <3>1. BodyOf(transcript, p, k) \in Seq(Bytes)
      <4>1. SubSeq(transcript, p + 1, k) \in Seq(Bytes)
        BY <1>1, <1>3
      <4> QED
        BY <4>1, UnmarkedIn DEF BodyOf
    <3> QED
      BY <3>1
  <2>2. BodyOf(transcript, p, k) \in Seq(Bytes)
    BY <1>1, <1>3, <2>1, PassTakes
  <2> QED
    BY <1>4, <2>2
<1>9. ASSUME NEW n \in 0..Len(Body)
      PROVE  /\ Start \in Nat /\ Start >= p /\ Start + Len(Body) = k
             /\ PastOf(transcript, Start + n) = PastOf(transcript, p) \o SubSeq(Body, 1, n)
  <2>1. n \in 0..Len(BodyOf(transcript, p, k))
    BY <1>4
  <2> QED
    BY <1>1, <1>3, <1>4, <1>5, <2>1, PassTakes
<1>10. /\ Taken \in 0..Len(Body) /\ NewOffset = Start + Taken
       /\ Emit(Body) = Emit(SubSeq(Body, 1, Taken))
       /\ Taken = 0 => Emit(Body) = <<>>
       /\ Taken # 0 => Body[Taken] = NL
  <2>1. CASE Ends(Body) = {}
    <3>1. Taken = 0 /\ NewOffset = Start
      BY <2>1 DEF Taken, NewOffset
    <3>2. Emit(Body) = <<>>
      <4>1. DOMAIN Body = 1..Len(Body)
        BY <1>8
      <4>2. \A i \in 1..Len(Body) : EmitAt(Body, i) = <<>>
        BY <2>1, <4>1 DEF EmitAt, Ends
      <4> QED
        BY <1>8, <4>1, <4>2, EmitNothing
    <3>3. SubSeq(Body, 1, Taken) = <<>>
      BY <1>8, <3>1
    <3>4. 0 \in 0..Len(Body)
      BY <1>8
    <3>5. Start \in Nat
      BY <1>9, <3>4
    <3>6. Emit(Body) = Emit(SubSeq(Body, 1, Taken))
      BY <3>2, <3>3, EmitEmpty
    <3>7. NewOffset = Start + Taken
      BY <3>1, <3>5
    <3> QED
      BY <3>1, <3>2, <3>4, <3>6, <3>7
  <2>2. CASE Ends(Body) # {}
    <3>1. Taken = Consumed(Body) /\ NewOffset = Start + Taken
      BY <2>2 DEF Taken, NewOffset
    <3>2. /\ Consumed(Body) \in 1..Len(Body) /\ Body[Consumed(Body)] = NL
          /\ Emit(Body) = Emit(SubSeq(Body, 1, Consumed(Body)))
      BY <1>8, <2>2, Consumes
    <3> QED
      BY <1>8, <3>1, <3>2
  <2> QED
    BY <2>1, <2>2
<1> DEFINE s == SubSeq(Body, 1, Taken)
<1>11. s \in Seq(Bytes) /\ Len(s) = Taken /\ (Taken # 0 => s[Taken] = Body[Taken])
  BY <1>8, <1>10
<1>12. PastOf(transcript, NewOffset) = PastOf(transcript, p) \o s
  BY <1>9, <1>10
<1>15. NewOffset \in p..Len(transcript)
  <2>1. Start \in Nat /\ Start >= p /\ Start + Len(Body) = k
    BY <1>8, <1>9
  <2> QED
    BY <1>1, <1>3, <1>8, <1>10, <2>1
<1>16. pass.size <= Len(transcript) => PastOf(transcript, pass.size) = PastOf(transcript, p) \o Body
  <2> SUFFICES ASSUME pass.size <= Len(transcript)
               PROVE  PastOf(transcript, pass.size) = PastOf(transcript, p) \o Body
    OBVIOUS
  <2>1. k = pass.size
    BY <1>1 DEF k
  <2>2. SubSeq(Body, 1, Len(Body)) = Body
    BY <1>8, SubSeqFull
  <2>3. Len(Body) \in 0..Len(Body)
    BY <1>8
  <2>4. Start + Len(Body) = k
    BY <1>9, <2>3
  <2>5. PastOf(transcript, Start + Len(Body)) = PastOf(transcript, p) \o SubSeq(Body, 1, Len(Body))
    BY <1>9, <2>3
  <2> QED
    BY <2>1, <2>2, <2>4, <2>5
<1> QED
  BY <1>7, <1>8, <1>10, <1>12, <1>15, <1>16 DEF p

\* A pass that began where everything before had been emitted.
LEMMA PassEmits ==
  ASSUME TailInv, pass # Idle, Buffer # <<>>, Faithful, pass.from = 0 \/ ~swapped
  PROVE  /\ Ended(PastOf(transcript, NewOffset))
         /\ engrams \o Emit(Body) = Emit(PastOf(transcript, NewOffset))
         /\ NewOffset = 0 => engrams \o Emit(Body) = <<>>
         /\ ~swapped => engrams \o Emit(Body) = Emit(PastOf(transcript, pass.size))
<1> USE DEF TailInv
<1> DEFINE p == pass.from
           s == SubSeq(Body, 1, Taken)
<1>6. engrams = Emit(PastOf(transcript, p)) /\ Ended(PastOf(transcript, p))
  <2>1. CASE p = 0
    <3>1. engrams = <<>>
      BY <2>1 DEF StartInv, Pos
    <3> QED
      BY <2>1, <3>1, PastOfNone, EmitEmpty
  <2>2. CASE p # 0
    BY <2>2 DEF LineInv, EmitInv, Pos
  <2> QED
    BY <2>1, <2>2
<1> HIDE DEF p
<1>7. /\ PastOf(transcript, p) \in Seq(Bytes) /\ Body \in Seq(Bytes)
      /\ Taken \in 0..Len(Body) /\ (Taken # 0 => Body[Taken] = NL)
      /\ Emit(Body) = Emit(s) /\ PastOf(transcript, NewOffset) = PastOf(transcript, p) \o s
      /\ pass.size <= Len(transcript) => PastOf(transcript, pass.size) = PastOf(transcript, p) \o Body
  BY PassShape DEF p
<1>11. s \in Seq(Bytes) /\ Len(s) = Taken /\ (Taken # 0 => s[Taken] = Body[Taken])
  BY <1>7
<1>13. Emit(PastOf(transcript, p) \o s) = Emit(PastOf(transcript, p)) \o Emit(s)
  <2> HIDE DEF s
  <2> QED
    BY <1>6, <1>7, <1>11, EmitConcat
<1>14. Ended(PastOf(transcript, NewOffset))
  <2>1. CASE Taken = 0
    <3>1. s = <<>>
      BY <1>11, <2>1
    <3>2. PastOf(transcript, p) \o s = PastOf(transcript, p)
      BY <1>7, <3>1, ConcatEmptySeq
    <3> QED
      BY <1>6, <1>7, <3>2
  <2>2. CASE Taken # 0
    <3> DEFINE g == PastOf(transcript, p)
    <3>1. g \in Seq(Bytes) /\ s \in Seq(Bytes) /\ Len(s) > 0 /\ s[Len(s)] = NL
      BY <1>7, <1>7, <1>11, <2>2
    <3> HIDE DEF g, s
    <3>2. (g \o s)[Len(g \o s)] = s[Len(s)]
      BY <3>1
    <3> QED
      BY <1>7, <3>1, <3>2 DEF Ended, g
  <2> QED
    BY <2>1, <2>2
<1>16. engrams \o Emit(Body) = Emit(PastOf(transcript, NewOffset))
  BY <1>6, <1>7, <1>13
<1>17. NewOffset = 0 => engrams \o Emit(Body) = <<>>
  BY <1>16, PastOfNone, EmitEmpty
<1>18. ~swapped => engrams \o Emit(Body) = Emit(PastOf(transcript, pass.size))
  <2>1. ~swapped => pass.size <= Len(transcript)
    BY DEF PassInv
  <2>2. Emit(PastOf(transcript, p) \o Body) = Emit(PastOf(transcript, p)) \o Emit(Body)
    BY <1>6, <1>7, EmitConcat
  <2> QED
    BY <1>6, <1>7, <2>1, <2>2
<1> QED
  BY <1>14, <1>16, <1>17, <1>18

\* A pass moves the offset over the lines whose records it emits.
LEMMA ReadKeeps == ASSUME TailInv, ReadBuffer PROVE TailInv'
<1> USE DEF TailInv
<1>1. /\ pass # Idle /\ Buffer # <<>> /\ pass' = Idle /\ engrams' = engrams \o Emit(Body)
      /\ lost' = (lost \/ (swapped /\ pass.from > 0)) /\ ~swapped' /\ UNCHANGED transcript
      /\ transcript \in Seq(Bytes) /\ Len(transcript) \in Nat /\ offset \in Nat /\ pass.from \in Nat
      /\ lapses \in Nat
  BY DEF ReadBuffer, TailTypes
<1>2. \/ offset' = NewOffset /\ lapses' = lapses
      \/ lapses' = lapses + 1 /\ offset' = offset
  BY DEF ReadBuffer
<1>3. ASSUME Faithful'
      PROVE  /\ offset' = NewOffset /\ NewOffset \in Nat /\ NewOffset <= Len(transcript)
             /\ Ended(PastOf(transcript, NewOffset)) /\ engrams' = Emit(PastOf(transcript, NewOffset))
             /\ NewOffset = 0 => engrams' = <<>>
  <2>3. ~lost' /\ lapses' = 0
    BY <1>3 DEF Faithful
  <2>4. offset' = NewOffset /\ lapses = 0
    BY <1>1, <1>2, <2>3
  <2>5. ~lost /\ ~(swapped /\ pass.from > 0)
    BY <1>1, <2>3
  <2>6. pass.from > 0 \/ pass.from = 0
    BY <1>1
  <2>1. Faithful /\ (pass.from = 0 \/ ~swapped) /\ offset' = NewOffset
    BY <2>4, <2>5, <2>6 DEF Faithful
  <2>2. /\ NewOffset \in pass.from..Len(transcript) /\ Ended(PastOf(transcript, NewOffset))
        /\ engrams \o Emit(Body) = Emit(PastOf(transcript, NewOffset))
        /\ NewOffset = 0 => engrams \o Emit(Body) = <<>>
    BY <1>1, <2>1, PassEmits, PassShape
  <2> QED
    BY <1>1, <2>1, <2>2
<1>4. offset' \in Nat /\ lapses' \in Nat
  <2>1. NewOffset \in pass.from..Len(transcript)
    BY <1>1, PassShape
  <2> QED
    BY <1>1, <1>2, <2>1
<1>5. TailTypes'
  BY <1>1, <1>4 DEF TailTypes, Idle
<1>6. Pos' = offset'
  BY <1>1 DEF Pos
<1>7. PassInv'
  <2>1. lapses' = 0 => offset' <= Len(transcript)
    <3>1. lapses' = 0 => offset' = NewOffset
      BY <1>1, <1>2
    <3>2. NewOffset \in pass.from..Len(transcript)
      BY <1>1, PassShape
    <3> QED
      BY <1>1, <3>1, <3>2
  <2> QED
    BY <1>1, <2>1 DEF PassInv
<1> QED
  BY <1>1, <1>3, <1>5, <1>6, <1>7 DEF StartInv, LineInv, EmitInv

\* Every step keeps the invariant.
LEMMA TailStep == TailInv /\ [Next]_jsonlVars => TailInv'
<1> SUFFICES ASSUME TailInv, [Next]_jsonlVars PROVE TailInv'
  OBVIOUS
<1>1. CASE UNCHANGED jsonlVars
  BY <1>1 DEF jsonlVars, TailInv, TailTypes, PassInv, StartInv, LineInv, EmitInv, Faithful, Pos
<1>2. CASE Next
  BY <1>2, WriteKeeps, SwapKeeps, StatKeeps, ReadNothingKeeps, ReadKeeps DEF Next
<1> QED
  BY <1>1, <1>2

\* So it holds of every reachable state.
LEMMA TailInvariant == Spec => []TailInv
BY TailInit, TailStep, PTL DEF Spec

(***************************************************************************)
(* "Each newline-terminated record becomes one engram" (Parse): whatever   *)
(* bytes a pass ended on and however often the file was truncated, what is *)
(* stored is every complete record up to the offset, in order and once,    *)
(* for every alphabet, cap and chunk budget.                               *)
(***************************************************************************)
THEOREM EmitsExactly == Spec => []EmittedExactly
<1>1. TailInv => EmittedExactly
  BY DEF TailInv, EmitInv, Faithful, EmittedExactly, Current, Past, PastOf, Pos
<1> QED
  BY <1>1, TailInvariant, PTL

(***************************************************************************)
(* One pass of Parse takes all complete records that were in the file when *)
(* it began, though its count of a trailing run of newlines falls behind.  *)
(***************************************************************************)
THEOREM OnePass == Spec => OnePassSuffices
<1>1. ASSUME TailInv, [Next]_jsonlVars, pass # Idle, pass' = Idle, Current, lapses = 0
      PROVE  engrams' = Emit(Unmarked(SubSeq(transcript, 1, pass.size)))
  <2>1. Faithful /\ ~swapped
    BY <1>1 DEF Current, Faithful
  <2>2. CASE ReadBuffer
    <3>1. Buffer # <<>> /\ engrams' = engrams \o Emit(Body)
      BY <2>2 DEF ReadBuffer
    <3> QED
      BY <1>1, <2>1, <3>1, PassEmits DEF PastOf
  <2>3. CASE ReadNothing
    <3>2. TailTypes /\ PassInv
      BY <1>1 DEF TailInv
    <3>1. pass.from = pass.size /\ engrams' = engrams
      BY <2>1, <2>3, <3>2, NothingLeft DEF ReadNothing
    <3> QED
      BY <1>1, <2>1, <3>1 DEF TailInv, EmitInv, Pos, PastOf
  <2>4. ReadBuffer \/ ReadNothing
    BY <1>1 DEF Next, Write, Swap, Stat, jsonlVars, Idle
  <2> QED
    BY <2>2, <2>3, <2>4
<1>2. TailInv /\ [Next]_jsonlVars
        => [pass # Idle /\ pass' = Idle /\ Current /\ lapses = 0
              => engrams' = Emit(Unmarked(SubSeq(transcript, 1, pass.size)))]_jsonlVars
  BY <1>1
<1> QED
  BY <1>2, TailInvariant, PTL DEF Spec, OnePassSuffices

(***************************************************************************)
(* Reassembly.  What is emitted of a text is laid out piece by piece       *)
(* (Laid), which no order of the rows changes; rows of one id are those of *)
(* one record (GroupIs), their sequence numbers rank them (MergedIs), and  *)
(* the chunks of a record, encoded one by one, join to the record encoded  *)
(* at once if each ends between characters (ChunksJoin).                   *)
(***************************************************************************)
\* Row i of E is piece sq[i] of record rec[i] of R, and every piece is there once.
Laid(E, R, rec, sq) ==
  /\ rec \in [1..Len(E) -> 1..Len(R)] /\ sq \in [1..Len(E) -> Nat]
  /\ \A i \in 1..Len(E) : sq[i] \in 1..Len(Split(R[rec[i]])) /\ E[i] = Split(R[rec[i]])[sq[i]]
  /\ \A k \in 1..Len(R) : \A j \in 1..Len(Split(R[k])) : \E i \in 1..Len(E) : rec[i] = k /\ sq[i] = j
  /\ \A i, j \in 1..Len(E) : rec[i] = rec[j] /\ sq[i] = sq[j] => i = j

\* The records come in order.
Rising(rec, n) == \A i, j \in 1..n : i <= j => rec[i] <= rec[j]

\* One record more, and its pieces behind all others.
LEMMA LaidGrows ==
  ASSUME NEW E \in Seq(Pieces), NEW R \in Seq(Seq(Bytes)), NEW raw \in Seq(Bytes),
         NEW rec, NEW sq, Laid(E, R, rec, sq), Rising(rec, Len(E))
  PROVE  \E rec2, sq2 : /\ Laid(E \o Split(raw), R \o <<raw>>, rec2, sq2)
                        /\ Rising(rec2, Len(E \o Split(raw)))
<1> DEFINE S == Split(raw)
           t == Len(S)
           m == Len(E)
           n == Len(R)
           F == E \o S
           Q == R \o <<raw>>
           rec2 == [i \in 1..(m + t) |-> IF i <= m THEN rec[i] ELSE n + 1]
           sq2 == [i \in 1..(m + t) |-> IF i <= m THEN sq[i] ELSE i - m]
<1>1. S \in Seq(Pieces) /\ m \in Nat /\ n \in Nat /\ t \in Nat
  BY SplitIn
<1> HIDE DEF S
<1>2. /\ Len(F) = m + t /\ (\A i \in 1..m : F[i] = E[i]) /\ \A i \in 1..t : F[m + i] = S[i]
  BY <1>1
<1>3. /\ Len(Q) = n + 1 /\ (\A k \in 1..n : Q[k] = R[k]) /\ Q[n + 1] = raw
  OBVIOUS
<1> HIDE DEF F, Q, m, n, t
<1>4. /\ rec \in [1..m -> 1..n] /\ sq \in [1..m -> Nat]
      /\ \A i \in 1..m : sq[i] \in 1..Len(Split(R[rec[i]])) /\ E[i] = Split(R[rec[i]])[sq[i]]
      /\ \A k \in 1..n : \A j \in 1..Len(Split(R[k])) : \E i \in 1..m : rec[i] = k /\ sq[i] = j
      /\ \A i, j \in 1..m : rec[i] = rec[j] /\ sq[i] = sq[j] => i = j
      /\ \A i, j \in 1..m : i <= j => rec[i] <= rec[j]
  BY DEF Laid, Rising, m, n
<1>5. \A i \in 1..m : i \in 1..(m + t) /\ rec2[i] = rec[i] /\ sq2[i] = sq[i] /\ rec2[i] \in 1..n
  BY <1>1, <1>4
<1>6. \A i \in 1..t : m + i \in 1..(m + t) /\ rec2[m + i] = n + 1 /\ sq2[m + i] = i
  BY <1>1
<1>7. \A i \in 1..(m + t) : i \in 1..m \/ (i - m \in 1..t /\ m + (i - m) = i)
  BY <1>1
<1>8. rec2 \in [1..(m + t) -> 1..(n + 1)] /\ sq2 \in [1..(m + t) -> Nat]
  <2>1. \A i \in 1..(m + t) : (IF i <= m THEN rec[i] ELSE n + 1) \in 1..(n + 1)
    BY <1>1, <1>4
  <2>2. \A i \in 1..(m + t) : (IF i <= m THEN sq[i] ELSE i - m) \in Nat
    BY <1>1, <1>4
  <2> QED
    BY <2>1, <2>2
<1> HIDE DEF rec2, sq2
<1>15. \A i \in 1..(m + t) : i - m \in 1..t => rec2[i] = n + 1 /\ sq2[i] = i - m
  <2> SUFFICES ASSUME NEW i \in 1..(m + t), i - m \in 1..t
               PROVE  rec2[i] = n + 1 /\ sq2[i] = i - m
    OBVIOUS
  <2>1. m + (i - m) = i
    BY <1>1
  <2>2. rec2[m + (i - m)] = n + 1 /\ sq2[m + (i - m)] = i - m
    BY <1>6
  <2> QED
    BY <2>1, <2>2
<1>9. ASSUME NEW i \in 1..(m + t)
      PROVE  sq2[i] \in 1..Len(Split(Q[rec2[i]])) /\ F[i] = Split(Q[rec2[i]])[sq2[i]]
  <2>1. CASE i \in 1..m
    <3>1. rec2[i] = rec[i] /\ sq2[i] = sq[i] /\ rec[i] \in 1..n /\ F[i] = E[i]
      BY <1>2, <1>4, <1>5, <2>1
    <3>2. Q[rec[i]] = R[rec[i]]
      BY <1>3, <3>1
    <3>3. sq[i] \in 1..Len(Split(R[rec[i]])) /\ E[i] = Split(R[rec[i]])[sq[i]]
      BY <1>4, <2>1
    <3>4. Q[rec2[i]] = R[rec[i]]
      BY <3>1, <3>2
    <3> QED
      BY <3>1, <3>3, <3>4
  <2>2. CASE i - m \in 1..t
    <3>1. rec2[i] = n + 1 /\ sq2[i] = i - m /\ F[i] = S[i - m]
      BY <1>2, <1>6, <1>7, <2>2, <1>1
    <3>2. Split(Q[n + 1]) = S
      BY <1>3 DEF S
    <3> QED
      BY <2>2, <3>1, <3>2 DEF t
  <2> QED
    BY <1>7, <2>1, <2>2
<1>10. ASSUME NEW k \in 1..(n + 1), NEW j \in 1..Len(Split(Q[k]))
       PROVE  \E i \in 1..(m + t) : rec2[i] = k /\ sq2[i] = j
  <2>1. CASE k \in 1..n
    <3>1. Q[k] = R[k]
      BY <1>3, <2>1
    <3>2. PICK i \in 1..m : rec[i] = k /\ sq[i] = j
      BY <1>4, <2>1, <3>1
    <3> QED
      BY <1>5, <3>2
  <2>2. CASE k = n + 1
    <3>1. Split(Q[k]) = S
      BY <1>3, <2>2 DEF S
    <3>2. j \in 1..t
      BY <3>1 DEF t
    <3> QED
      BY <1>6, <2>2, <3>2
  <2> QED
    BY <1>1, <2>1, <2>2
<1>11. ASSUME NEW i \in 1..(m + t), NEW j \in 1..(m + t), rec2[i] = rec2[j], sq2[i] = sq2[j]
       PROVE  i = j
  <2>1. CASE i \in 1..m /\ j \in 1..m
    BY <1>4, <1>5, <1>11, <2>1
  <2>2. CASE i - m \in 1..t /\ j - m \in 1..t
    <3>1. sq2[i] = i - m /\ sq2[j] = j - m
      BY <1>15, <2>2
    <3>2. i - m = j - m
      BY <1>11, <3>1
    <3>3. i \in Int /\ j \in Int /\ m \in Int
      BY <1>1
    <3> QED
      BY <3>2, <3>3
  <2>3. ASSUME NEW a \in 1..m, NEW c \in 1..(m + t), c - m \in 1..t PROVE rec2[a] # rec2[c]
    <3>1. rec2[a] \in 1..n /\ rec2[c] = n + 1
      BY <1>5, <1>15, <2>3
    <3> QED
      BY <1>1, <3>1
  <2> QED
    BY <1>7, <1>11, <2>1, <2>2, <2>3
<1>12. ASSUME NEW i \in 1..(m + t), NEW j \in 1..(m + t), i <= j PROVE rec2[i] <= rec2[j]
  <2>1. CASE j \in 1..m
    <3>1. i \in 1..m
      BY <1>1, <1>12, <2>1
    <3> QED
      BY <1>4, <1>5, <1>12, <2>1, <3>1
  <2>2. CASE j - m \in 1..t
    <3>1. rec2[j] = n + 1 /\ rec2[i] \in 1..(n + 1)
      BY <1>8, <1>15, <2>2
    <3> QED
      BY <1>1, <3>1
  <2> QED
    BY <1>7, <2>1, <2>2
<1>13. Laid(F, Q, rec2, sq2)
  BY <1>2, <1>3, <1>8, <1>9, <1>10, <1>11 DEF Laid
<1>14. Rising(rec2, Len(F))
  BY <1>2, <1>12 DEF Rising
<1> QED
  BY <1>13, <1>14 DEF F, Q, S

\* The records of a text.
Kinds(b) == [i \in DOMAIN b |-> RecordAt(b, i)]

LEMMA KindsIn ==
  ASSUME NEW b \in Seq(Bytes)
  PROVE  /\ Kinds(b) \in Seq(Seq(Seq(Bytes))) /\ Len(Kinds(b)) = Len(b)
         /\ \A i \in 1..Len(b) : Kinds(b)[i] = RecordAt(b, i)
<1>1. ASSUME NEW i \in 1..Len(b) PROVE RecordAt(b, i) \in Seq(Seq(Bytes))
  <2>1. Raw(b, i) \in Seq(Bytes)
    BY RawIn
  <2> QED
    BY <2>1 DEF RecordAt
<1>2. DOMAIN b = 1..Len(b) /\ Len(b) \in Nat
  OBVIOUS
<1>3. Kinds(b) \in [1..Len(b) -> Seq(Seq(Bytes))] /\ DOMAIN Kinds(b) = 1..Len(b)
  BY <1>1, <1>2 DEF Kinds
<1>4. \A i \in 1..Len(b) : Kinds(b)[i] = RecordAt(b, i)
  BY <1>2 DEF Kinds
<1>5. Kinds(b) \in Seq(Seq(Seq(Bytes))) /\ Len(Kinds(b)) = Len(b)
  BY <1>2, <1>3
<1> QED
  BY <1>4, <1>5

\* What is emitted of a text is the pieces of its records, none of which is empty.
LEMMA EmitLaid ==
  ASSUME NEW b \in Seq(Bytes)
  PROVE  /\ Emit(b) \in Seq(Pieces) /\ Records(b) \in Seq(Seq(Bytes))
         /\ \A k \in 1..Len(Records(b)) : Records(b)[k] # <<>>
         /\ \E rec, sq : Laid(Emit(b), Records(b), rec, sq) /\ Rising(rec, Len(Emit(b)))
<1> DEFINE n == Len(b)
           Good(E, R) == /\ E \in Seq(Pieces) /\ R \in Seq(Seq(Bytes))
                         /\ \A k \in 1..Len(R) : R[k] # <<>>
                         /\ \E rec, sq : Laid(E, R, rec, sq) /\ Rising(rec, Len(E))
<1>1. /\ Parts(b) \in Seq(Seq(Pieces)) /\ Len(Parts(b)) = n /\ n \in Nat
      /\ \A i \in 1..n : Parts(b)[i] = EmitAt(b, i)
  BY PartsIn
<1>2. /\ Kinds(b) \in Seq(Seq(Seq(Bytes))) /\ Len(Kinds(b)) = n
      /\ \A i \in 1..n : Kinds(b)[i] = RecordAt(b, i)
  BY KindsIn
<1>3. PICK p \in Joins(Pieces, Parts(b)) : TRUE
  BY <1>1, JoinsExist
<1>4. PICK q \in Joins(Seq(Bytes), Kinds(b)) : TRUE
  BY <1>2, JoinsExist
<1>5. /\ p[0] = <<>> /\ \A i \in 1..n : p[i] = p[i - 1] \o EmitAt(b, i)
      /\ Emit(b) = p[n]
  BY <1>1, <1>3 DEF Joins, Emit, Parts
<1>6. /\ q[0] = <<>> /\ \A i \in 1..n : q[i] = q[i - 1] \o RecordAt(b, i)
      /\ Records(b) = q[n]
  BY <1>2, <1>4 DEF Joins, Records, Kinds
<1> DEFINE U == {i \in 0..n : Good(p[i], q[i])}
<1>7. 0 \in U
  <2>1. <<>> \in Seq(Pieces) /\ <<>> \in Seq(Seq(Bytes)) /\ Len(<<>>) = 0 /\ 1..0 = {}
    OBVIOUS
  <2>2. Laid(<<>>, <<>>, [i \in {} |-> 0], [i \in {} |-> 0]) /\ Rising([i \in {} |-> 0], 0)
    BY <2>1 DEF Laid, Rising
  <2>3. Good(<<>>, <<>>)
    BY <2>1, <2>2
  <2> HIDE DEF Good
  <2> QED
    BY <1>1, <1>5, <1>6, <2>3
<1>8. ASSUME NEW i \in 1..n, i - 1 \in U PROVE i \in U
  <2>1. Good(p[i - 1], q[i - 1])
    BY <1>8
  <2>2. p[i] = p[i - 1] \o EmitAt(b, i) /\ q[i] = q[i - 1] \o RecordAt(b, i)
    BY <1>5, <1>6
  <2> DEFINE E == p[i - 1]
             R == q[i - 1]
  <2>3. E \in Seq(Pieces) /\ R \in Seq(Seq(Bytes)) /\ \A k \in 1..Len(R) : R[k] # <<>>
    BY <2>1
  <2>4. PICK rec, sq : Laid(E, R, rec, sq) /\ Rising(rec, Len(E))
    BY <2>1
  <2> HIDE DEF E, R
  <2>5. CASE b[i] = NL /\ Raw(b, i) # <<>>
    <3>1. Raw(b, i) \in Seq(Bytes)
      BY RawIn
    <3>2. p[i] = E \o Split(Raw(b, i)) /\ q[i] = R \o <<Raw(b, i)>>
      BY <2>2, <2>5 DEF EmitAt, RecordAt, E, R
    <3> DEFINE raw == Raw(b, i)
    <3> HIDE DEF raw
    <3>3. raw \in Seq(Bytes) /\ raw # <<>>
      BY <2>5, <3>1 DEF raw
    <3>4. E \o Split(raw) \in Seq(Pieces)
      BY <2>3, <3>3, SplitIn
    <3>5. R \o <<raw>> \in Seq(Seq(Bytes)) /\ \A k \in 1..Len(R \o <<raw>>) : (R \o <<raw>>)[k] # <<>>
      BY <2>3, <3>3
    <3>6. \E rec2, sq2 : Laid(E \o Split(raw), R \o <<raw>>, rec2, sq2) /\ Rising(rec2, Len(E \o Split(raw)))
      BY <2>3, <2>4, <3>3, LaidGrows
    <3>7. Good(E \o Split(raw), R \o <<raw>>)
      BY <3>4, <3>5, <3>6
    <3>8. p[i] = E \o Split(raw) /\ q[i] = R \o <<raw>>
      BY <3>2 DEF raw
    <3> HIDE DEF Good
    <3>9. Good(p[i], q[i])
      BY <3>7, <3>8
    <3>10. i \in 0..n
      BY <1>1
    <3> QED
      BY <3>9, <3>10
  <2>6. CASE ~ (b[i] = NL /\ Raw(b, i) # <<>>)
    <3>1. p[i] = E \o <<>> /\ q[i] = R \o <<>>
      BY <2>2, <2>6 DEF EmitAt, RecordAt, E, R
    <3>2. p[i] = E /\ q[i] = R
      BY <2>3, <3>1, ConcatEmptySeq
    <3>3. Good(p[i], q[i])
      BY <2>1, <3>2 DEF E, R
    <3> HIDE DEF Good
    <3> QED
      BY <3>3
  <2> QED
    BY <2>5, <2>6
<1>9. n \in U
  <2> HIDE DEF U
  <2>1. \A k \in 0..n : k \in U
    BY <1>1, <1>7, <1>8, Induct
  <2> QED
    BY <1>1, <2>1
<1> QED
  BY <1>5, <1>6, <1>9

\* What a bijection is.
LEMMA BijectionIs ==
  ASSUME NEW S, NEW T, NEW f \in Bijection(S, T)
  PROVE  /\ f \in [S -> T]
         /\ \A a, b \in S : f[a] = f[b] => a = b
         /\ \A y \in T : \E a \in S : f[a] = y
<1>1. f \in Injection(S, T) /\ f \in Surjection(S, T)
  BY DEF Bijection
<1>2. f \in [S -> T] /\ IsInjective(f) /\ DOMAIN f = S
  BY <1>1 DEF Injection
<1>3. \A a, b \in S : f[a] = f[b] => a = b
  BY <1>2 DEF IsInjective
<1>4. \A y \in T : \E a \in S : f[a] = y
  BY <1>1 DEF Surjection
<1> QED
  BY <1>2, <1>3, <1>4

\* The rows in another order.
LEMMA LaidReordered ==
  ASSUME NEW E, NEW n \in Nat, DOMAIN E = 1..n, Len(E) = n, NEW R, NEW rec, NEW sq,
         Laid(E, R, rec, sq), NEW p \in Orders(n)
  PROVE  /\ DOMAIN Reordered(E, p) = 1..n
         /\ Len(Reordered(E, p)) = n
         /\ Laid(Reordered(E, p), R, [i \in 1..n |-> rec[p[i]]], [i \in 1..n |-> sq[p[i]]])
<1> DEFINE W == Reordered(E, p)
           rec2 == [i \in 1..n |-> rec[p[i]]]
           sq2 == [i \in 1..n |-> sq[p[i]]]
<1>1. /\ p \in [1..n -> 1..n] /\ (\A i, j \in 1..n : p[i] = p[j] => i = j)
      /\ \A k \in 1..n : \E i \in 1..n : p[i] = k
  <2> DEFINE T == 1..n
  <2>1. p \in Bijection(T, T)
    BY DEF Orders
  <2> HIDE DEF T
  <2>2. p \in [T -> T] /\ (\A i, j \in T : p[i] = p[j] => i = j) /\ \A k \in T : \E i \in T : p[i] = k
    BY <2>1, BijectionIs
  <2> QED
    BY <2>2 DEF T
<1>2. W = [i \in 1..n |-> E[p[i]]]
  BY DEF Reordered
<1>3. DOMAIN W = 1..n /\ Len(W) = n /\ \A i \in 1..n : W[i] = E[p[i]]
  BY <1>2
<1> HIDE DEF W
<1>4. /\ rec \in [1..n -> 1..Len(R)] /\ sq \in [1..n -> Nat]
      /\ \A i \in 1..n : sq[i] \in 1..Len(Split(R[rec[i]])) /\ E[i] = Split(R[rec[i]])[sq[i]]
      /\ \A k \in 1..Len(R) : \A j \in 1..Len(Split(R[k])) : \E i \in 1..n : rec[i] = k /\ sq[i] = j
      /\ \A i, j \in 1..n : rec[i] = rec[j] /\ sq[i] = sq[j] => i = j
  BY DEF Laid
<1>5. \A i \in 1..n : rec2[i] = rec[p[i]] /\ sq2[i] = sq[p[i]] /\ p[i] \in 1..n
  BY <1>1
<1>6. rec2 \in [1..n -> 1..Len(R)] /\ sq2 \in [1..n -> Nat]
  <2>1. \A i \in 1..n : rec[p[i]] \in 1..Len(R) /\ sq[p[i]] \in Nat
    BY <1>1, <1>4
  <2> QED
    BY <2>1
<1> HIDE DEF rec2, sq2
<1>7. \A i \in 1..n : sq2[i] \in 1..Len(Split(R[rec2[i]])) /\ W[i] = Split(R[rec2[i]])[sq2[i]]
  <2> SUFFICES ASSUME NEW i \in 1..n
               PROVE  sq2[i] \in 1..Len(Split(R[rec2[i]])) /\ W[i] = Split(R[rec2[i]])[sq2[i]]
    OBVIOUS
  <2>1. p[i] \in 1..n /\ W[i] = E[p[i]] /\ rec2[i] = rec[p[i]] /\ sq2[i] = sq[p[i]]
    BY <1>3, <1>5
  <2>2. sq[p[i]] \in 1..Len(Split(R[rec[p[i]]])) /\ E[p[i]] = Split(R[rec[p[i]]])[sq[p[i]]]
    BY <1>4, <2>1
  <2> QED
    BY <2>1, <2>2
<1>8. \A k \in 1..Len(R) : \A j \in 1..Len(Split(R[k])) : \E i \in 1..n : rec2[i] = k /\ sq2[i] = j
  <2> SUFFICES ASSUME NEW k \in 1..Len(R), NEW j \in 1..Len(Split(R[k]))
               PROVE  \E i \in 1..n : rec2[i] = k /\ sq2[i] = j
    OBVIOUS
  <2>1. PICK a \in 1..n : rec[a] = k /\ sq[a] = j
    BY <1>4
  <2>2. PICK i \in 1..n : p[i] = a
    BY <1>1
  <2> QED
    BY <1>5, <2>1, <2>2
<1>9. \A i, j \in 1..n : rec2[i] = rec2[j] /\ sq2[i] = sq2[j] => i = j
  <2> SUFFICES ASSUME NEW i \in 1..n, NEW j \in 1..n, rec2[i] = rec2[j], sq2[i] = sq2[j]
               PROVE  i = j
    OBVIOUS
  <2>1. p[i] = p[j]
    BY <1>4, <1>5
  <2> QED
    BY <1>1, <2>1
<1>10. Laid(W, R, rec2, sq2)
  <2>1. 1..Len(W) = 1..n
    BY <1>3
  <2>2. rec2 \in [1..Len(W) -> 1..Len(R)] /\ sq2 \in [1..Len(W) -> Nat]
    BY <1>6, <2>1, Zenon
  <2>3. \A i \in 1..Len(W) : sq2[i] \in 1..Len(Split(R[rec2[i]])) /\ W[i] = Split(R[rec2[i]])[sq2[i]]
    BY <1>7, <2>1, Zenon
  <2>4. \A k \in 1..Len(R) : \A j \in 1..Len(Split(R[k])) : \E i \in 1..Len(W) : rec2[i] = k /\ sq2[i] = j
    BY <1>8, <2>1
  <2>5. \A i, j \in 1..Len(W) : rec2[i] = rec2[j] /\ sq2[i] = sq2[j] => i = j
    BY <1>9, <2>1, Zenon
  <2> QED
    BY <2>2, <2>3, <2>4, <2>5, Zenon DEF Laid
<1> QED
  BY <1>3, <1>10 DEF W, rec2, sq2

\* What is numbered from 1 has as many below it as its number says.
LEMMA CountBelow ==
  ASSUME NEW G, NEW t \in Nat, NEW s \in Bijection(G, 1..t)
  PROVE  /\ Cardinality(G) = t
         /\ \A k \in G : Cardinality({j \in G : s[j] <= s[k]}) = s[k]
<1>1. /\ s \in [G -> 1..t] /\ (\A a, b \in G : s[a] = s[b] => a = b)
      /\ \A n \in 1..t : \E a \in G : s[a] = n
  <2> DEFINE T == 1..t
  <2>1. s \in Bijection(G, T)
    OBVIOUS
  <2> HIDE DEF T
  <2>2. s \in [G -> T] /\ (\A a, b \in G : s[a] = s[b] => a = b) /\ \A y \in T : \E a \in G : s[a] = y
    BY <2>1, BijectionIs
  <2> QED
    BY <2>2 DEF T
<1>2. ExistsBijection(1..t, G)
  BY Fun_ExistsBijSymmetric, Fun_ExistsBij
<1>3. Cardinality(G) = t
  BY <1>2, FS_CountingElements
<1>4. ASSUME NEW k \in G PROVE Cardinality({j \in G : s[j] <= s[k]}) = s[k]
  <2> DEFINE C == {j \in G : s[j] <= s[k]}
             n == s[k]
             f == [j \in C |-> s[j]]
  <2>1. n \in 1..t /\ n \in Nat
    BY <1>1
  <2>2. f \in [C -> 1..n]
    <3>1. \A j \in C : s[j] \in 1..n
      BY <1>1, <2>1
    <3> QED
      BY <3>1
  <2>3. \A a, b \in C : f[a] = f[b] => a = b
    BY <1>1
  <2>4. \A i \in 1..n : \E a \in C : f[a] = i
    <3> SUFFICES ASSUME NEW i \in 1..n PROVE \E a \in C : f[a] = i
      OBVIOUS
    <3>1. i \in 1..t /\ i <= n
      BY <2>1
    <3>2. PICK a \in G : s[a] = i
      BY <1>1, <3>1
    <3>3. a \in C
      BY <3>1, <3>2
    <3> QED
      BY <3>2, <3>3
  <2> HIDE DEF C, f, n
  <2>5. f \in Bijection(C, 1..n)
    BY <2>2, <2>3, <2>4, Fun_IsBij
  <2>6. ExistsBijection(1..n, C)
    BY <2>5, Fun_ExistsBijSymmetric, Fun_ExistsBij
  <2> QED
    BY <2>1, <2>6, FS_CountingElements DEF C, n
<1> QED
  BY <1>3, <1>4

\* The numbers of a set in their order.
LEMMA NthIs ==
  ASSUME NEW n \in Nat, NEW H \in SUBSET (1..n)
  PROVE  LET c == Cardinality(H)
             e == [h \in 1..c |-> Nth(H, h)]
         IN  /\ IsFiniteSet(H) /\ c \in Nat
             /\ e \in Bijection(1..c, H)
             /\ \A g, h \in 1..c : g < h => e[g] < e[h]
<1> DEFINE c == Cardinality(H)
           e == [h \in 1..c |-> Nth(H, h)]
           Upto(k) == {j \in H : j <= k}
           r == [k \in H |-> Cardinality(Upto(k))]
<1>1. IsFiniteSet(H) /\ c \in Nat
  <2>1. IsFiniteSet(1..n)
    BY FS_Interval
  <2> QED
    BY <2>1, FS_Subset, FS_CardinalityType
<1>2. \A k \in H : k \in Nat
  OBVIOUS
<1>3. ASSUME NEW k \in H PROVE r[k] \in 1..c
  <2>1. Upto(k) \in SUBSET H /\ k \in Upto(k)
    BY <1>2
  <2> HIDE DEF Upto, c
  <2>2. IsFiniteSet(Upto(k)) /\ Cardinality(Upto(k)) <= c
    BY <1>1, <2>1, FS_Subset DEF c
  <2>3. Cardinality(Upto(k)) \in Nat /\ Cardinality(Upto(k)) # 0
    BY <2>1, <2>2, FS_CardinalityType, FS_EmptySet
  <2> QED
    BY <1>1, <2>2, <2>3
<1>4. ASSUME NEW j \in H, NEW k \in H, j < k PROVE r[j] < r[k]
  <2>1. Upto(j) \in SUBSET Upto(k) /\ k \in Upto(k) /\ k \notin Upto(j) /\ Upto(k) \in SUBSET H
    <3>1. j \in Nat /\ k \in Nat
      BY <1>2
    <3>2. ASSUME NEW i \in Upto(j) PROVE i \in Upto(k)
      <4>1. i \in Nat /\ i \in H /\ i <= j
        BY <1>2
      <4> QED
        BY <1>4, <3>1, <4>1
    <3>3. k \in Upto(k) /\ k \notin Upto(j)
      BY <1>4, <3>1
    <3> QED
      BY <3>2, <3>3
  <2> HIDE DEF Upto
  <2>2. IsFiniteSet(Upto(k))
    BY <1>1, <2>1, FS_Subset
  <2>3. Cardinality(Upto(j)) <= Cardinality(Upto(k)) /\ Cardinality(Upto(j)) # Cardinality(Upto(k))
    BY <2>1, <2>2, FS_Subset
  <2>4. r[j] \in 1..c /\ r[k] \in 1..c
    BY <1>3
  <2> HIDE DEF c
  <2> QED
    BY <1>1, <2>3, <2>4
<1>5. r \in [H -> 1..c]
  BY <1>3
<1>6. \A j, k \in H : r[j] = r[k] => j = k
  <2> SUFFICES ASSUME NEW j \in H, NEW k \in H, r[j] = r[k], j # k PROVE FALSE
    OBVIOUS
  <2>1. j < k \/ k < j
    BY <1>2
  <2>2. r[j] < r[k] \/ r[k] < r[j]
    BY <1>4, <2>1
  <2>3. r[j] \in Nat /\ r[k] \in Nat
    BY <1>1, <1>3
  <2> HIDE DEF r
  <2> QED
    BY <2>2, <2>3
<1> HIDE DEF r, c
<1>7. r \in Injection(H, 1..c)
  BY <1>5, <1>6, Fun_IsInj
<1>8. Cardinality(1..c) = c /\ IsFiniteSet(1..c)
  BY <1>1, FS_Interval
<1>9. r \in Surjection(H, 1..c)
  BY <1>7, <1>8, FS_Injection DEF c
<1>10. \A h \in 1..c : \E k \in H : r[k] = h
  BY <1>9, Fun_SurjectionProperties
<1>11. ASSUME NEW h \in 1..c PROVE e[h] \in H /\ r[e[h]] = h
  <2>1. PICK k \in H : r[k] = h
    BY <1>10
  <2>2. \A j \in H : r[j] = Cardinality({i \in H : i <= j})
    BY DEF r
  <2>3. Nth(H, h) \in H /\ Cardinality({i \in H : i <= Nth(H, h)}) = h
    BY <2>1, <2>2 DEF Nth
  <2> QED
    BY <2>2, <2>3
<1> HIDE DEF e
<1>12. e \in Bijection(1..c, H)
  <2>1. e \in [1..c -> H]
    <3>1. e = [h \in 1..c |-> e[h]]
      BY DEF e
    <3> QED
      BY <1>11, <3>1
  <2>2. \A g, h \in 1..c : e[g] = e[h] => g = h
    BY <1>11
  <2>3. \A k \in H : \E h \in 1..c : e[h] = k
    <3> SUFFICES ASSUME NEW k \in H PROVE \E h \in 1..c : e[h] = k
      OBVIOUS
    <3>1. r[k] \in 1..c /\ e[r[k]] \in H /\ r[e[r[k]]] = r[k]
      BY <1>5, <1>11
    <3>2. e[r[k]] = k
      BY <1>6, <3>1
    <3> QED
      BY <3>1, <3>2
  <2> QED
    BY <2>1, <2>2, <2>3, Fun_IsBij
<1>13. \A g, h \in 1..c : g < h => e[g] < e[h]
  <2> SUFFICES ASSUME NEW g \in 1..c, NEW h \in 1..c, g < h PROVE e[g] < e[h]
    OBVIOUS
  <2>1. e[g] \in H /\ e[h] \in H /\ r[e[g]] = g /\ r[e[h]] = h
    BY <1>11
  <2>2. e[g] \in Nat /\ e[h] \in Nat /\ g \in Nat /\ h \in Nat
    <3>1. e[g] \in Nat /\ e[h] \in Nat
      BY <1>2, <2>1
    <3>2. g \in Nat /\ h \in Nat
      BY <1>1
    <3> QED
      BY <3>1, <3>2
  <2>3. ~ (e[h] < e[g])
    <3> SUFFICES ASSUME e[h] < e[g] PROVE FALSE
      OBVIOUS
    <3>1. \A j, k \in H : j < k => r[j] < r[k]
      BY <1>4 DEF r
    <3>2. h < g
      BY <2>1, <3>1
    <3> QED
      BY <2>2, <3>2
  <2>4. e[h] # e[g]
    BY <2>1, <2>2
  <2> QED
    BY <2>2, <2>3, <2>4
<1> QED
  BY <1>1, <1>12, <1>13 DEF c, e

\* No character is divided behind byte c.
Clean(s, c) == c = 0 \/ c = Len(s) \/ s[c] # Lead \/ s[c + 1] # Trail

\* What is cut between characters is written as it is in the whole.
LEMMA EncodePart ==
  ASSUME NEW S, NEW raw \in Seq(S), NEW a \in Nat, NEW e \in (a + 1)..Len(raw),
         Clean(raw, a), Clean(raw, e)
  PROVE  Encode(SubSeq(raw, a + 1, e)) = SubSeq(Encode(raw), a + 1, e)
<1> DEFINE P == SubSeq(raw, a + 1, e)
           n == Len(raw)
           X == Encode(raw)
           Y == SubSeq(X, a + 1, e)
<1>1. n \in Nat /\ a \in Nat /\ e \in (a + 1)..n /\ e - a \in Nat /\ DOMAIN raw = 1..n
  OBVIOUS
<1>2. Len(P) = e - a /\ DOMAIN P = 1..(e - a) /\ \A i \in 1..(e - a) : P[i] = raw[a + i]
  BY <1>1
<1>3. DOMAIN X = 1..n /\ \A i \in 1..n : X[i] = IF Halved(raw, i) THEN Bad ELSE raw[i]
  BY DEF Encode
<1>4. Len(X) = n /\ X \in Seq(S \union {Bad})
  <2>1. X \in [1..n -> S \union {Bad}]
    <3>1. \A i \in 1..n : X[i] \in S \union {Bad}
      BY <1>1, <1>3
    <3>2. X = [i \in 1..n |-> X[i]]
      BY <1>1 DEF Encode
    <3> HIDE DEF X, n
    <3> QED
      BY <3>1, <3>2
  <2> HIDE DEF X, n
  <2> QED
    BY <1>1, <2>1
<1> HIDE DEF X
<1>5. Len(Y) = e - a /\ DOMAIN Y = 1..(e - a) /\ \A i \in 1..(e - a) : Y[i] = X[a + i]
  BY <1>1, <1>4
<1>6. Encode(P) = [i \in 1..(e - a) |-> IF Halved(P, i) THEN Bad ELSE P[i]]
  BY <1>2 DEF Encode
<1> HIDE DEF P, Y
<1>7. ASSUME NEW i \in 1..(e - a) PROVE Halved(P, i) <=> Halved(raw, a + i)
  <2>1. P[i] = raw[a + i] /\ i \in Int
    BY <1>1, <1>2
  <2>2. P[i] = Lead => ((i = e - a \/ P[i + 1] # Trail) <=> (a + i = n \/ raw[a + i + 1] # Trail))
    <3>1. CASE i = e - a
      <4>1. a + i = e /\ e # 0
        BY <1>1, <3>1
      <4>2. raw[e] # Lead \/ e = n \/ raw[e + 1] # Trail
        BY <4>1 DEF Clean
      <4>3. P[i] = raw[e] /\ raw[a + i + 1] = raw[e + 1] /\ (a + i = n <=> e = n)
        BY <2>1, <4>1
      <4> HIDE DEF n
      <4> QED
        BY <3>1, <4>2, <4>3
    <3>2. CASE i # e - a
      <4>1. i + 1 \in 1..(e - a) /\ a + (i + 1) = a + i + 1 /\ a + i # n
        <5>1. i \in Int /\ i < e - a /\ 1 <= i
          BY <1>1, <3>2
        <5> HIDE DEF n
        <5> QED
          BY <1>1, <5>1
      <4>2. P[i + 1] = raw[a + (i + 1)]
        BY <1>2, <4>1
      <4>3. P[i + 1] = raw[a + i + 1]
        BY <4>1, <4>2
      <4> QED
        BY <3>2, <4>1, <4>3
    <3> QED
      BY <3>1, <3>2
  <2>3. P[i] = Trail => ((i = 1 \/ P[i - 1] # Lead) <=> (a + i = 1 \/ raw[a + i - 1] # Lead))
    <3>1. CASE i = 1
      <4>1. a + i - 1 = a /\ a + i = a + 1 /\ a # n /\ (a = 0 <=> a + i = 1)
        <5> HIDE DEF n
        <5> QED
          BY <1>1, <3>1
      <4>2. raw[a] # Lead \/ a = 0 \/ raw[a + 1] # Trail
        BY <4>1 DEF Clean
      <4>3. P[i] = raw[a + 1] /\ raw[a + i - 1] = raw[a]
        BY <2>1, <4>1
      <4> HIDE DEF n
      <4> QED
        BY <3>1, <4>1, <4>2, <4>3
    <3>2. CASE i # 1
      <4>1. i - 1 \in 1..(e - a) /\ a + (i - 1) = a + i - 1 /\ a + i # 1
        BY <1>1, <3>2
      <4>2. P[i - 1] = raw[a + (i - 1)]
        BY <1>2, <4>1
      <4>3. P[i - 1] = raw[a + i - 1]
        BY <4>1, <4>2
      <4> QED
        BY <3>2, <4>1, <4>3
    <3> QED
      BY <3>1, <3>2
  <2>4. Halved(P, i) <=> \/ P[i] = Lead /\ (i = e - a \/ P[i + 1] # Trail)
                         \/ P[i] = Trail /\ (i = 1 \/ P[i - 1] # Lead)
    BY <1>2 DEF Halved
  <2>5. Halved(raw, a + i) <=> \/ P[i] = Lead /\ (a + i = n \/ raw[a + i + 1] # Trail)
                               \/ P[i] = Trail /\ (a + i = 1 \/ raw[a + i - 1] # Lead)
    BY <2>1 DEF Halved
  <2> QED
    BY <2>2, <2>3, <2>4, <2>5
<1>8. \A i \in 1..(e - a) : (IF Halved(P, i) THEN Bad ELSE P[i]) = Y[i]
  <2> SUFFICES ASSUME NEW i \in 1..(e - a) PROVE (IF Halved(P, i) THEN Bad ELSE P[i]) = Y[i]
    OBVIOUS
  <2>1. a + i \in 1..n
    BY <1>1
  <2>3. P[i] = raw[a + i] /\ Y[i] = X[a + i]
    BY <1>2, <1>5
  <2>2. X[a + i] = IF Halved(raw, a + i) THEN Bad ELSE raw[a + i]
    BY <1>3, <2>1
  <2> QED
    BY <1>7, <2>2, <2>3
<1>9. Y = [i \in 1..(e - a) |-> Y[i]]
  BY <1>1, <1>4 DEF Y
<1>10. Encode(P) = Y
  BY <1>6, <1>8, <1>9
<1> QED
  BY <1>10 DEF P, Y, X

\* Where the chunks of n bytes end.
Pieced(n) == (n + Budget - 1) \div Budget
Upto(n, j) == IF j * Budget < n THEN j * Budget ELSE n

\* Chunks follow each other up to the last byte.
LEMMA Boundaries ==
  ASSUME NEW n \in Nat, n > 0
  PROVE  /\ Pieced(n) \in Nat /\ Pieced(n) >= 1
         /\ \A j \in 1..Pieced(n) : /\ (j - 1) * Budget \in Nat /\ (j - 1) * Budget < n
                                    /\ Upto(n, j - 1) = (j - 1) * Budget
                                    /\ Upto(n, j) \in ((j - 1) * Budget + 1)..n
         /\ Upto(n, 0) = 0 /\ Upto(n, Pieced(n)) = n
<1> DEFINE t == Pieced(n)
<1>1. Budget \in Nat /\ Budget >= 1
  BY TailAssumption
<1>2. t \in Nat /\ t * Budget <= n + Budget - 1 /\ n + Budget - 1 < t * Budget + Budget
  BY <1>1 DEF Pieced
<1>3. t * Budget >= n
  BY <1>1, <1>2
<1>4. t >= 1
  <2>1. t = 0 => t * Budget = 0
    BY <1>1
  <2> QED
    BY <1>2, <1>3, <2>1
<1> HIDE DEF t
<1>5. ASSUME NEW j \in 1..t
      PROVE  /\ (j - 1) * Budget \in Nat /\ (j - 1) * Budget < n
             /\ j * Budget = (j - 1) * Budget + Budget
  <2>1. j - 1 \in Nat /\ j \in Nat /\ t - j \in Nat
    BY <1>2
  <2>2. (j - 1) * Budget \in Nat /\ j * Budget \in Nat /\ (t - j) * Budget \in Nat
    BY <1>1, <2>1
  <2>3. j * Budget = (j - 1) * Budget + Budget
    BY <1>1, <2>1
  <2>4. t * Budget = j * Budget + (t - j) * Budget
    BY <1>1, <1>2, <2>1
  <2>5. t * Budget \in Nat
    BY <1>1, <1>2
  <2> DEFINE x == (j - 1) * Budget
             y == j * Budget
             z == (t - j) * Budget
             u == t * Budget
  <2>6. x \in Nat /\ y \in Nat /\ z \in Nat /\ u \in Nat /\ y = x + Budget /\ u = y + z /\ u <= n + Budget - 1
    BY <1>2, <2>2, <2>3, <2>4, <2>5
  <2> HIDE DEF x, y, z, u
  <2>7. x < n
    BY <1>1, <2>6
  <2> QED
    BY <2>2, <2>3, <2>7 DEF x
<1>6. ASSUME NEW j \in 1..t
      PROVE  Upto(n, j - 1) = (j - 1) * Budget /\ Upto(n, j) \in ((j - 1) * Budget + 1)..n
  <2> DEFINE x == (j - 1) * Budget
             y == j * Budget
  <2>1. x \in Nat /\ x < n /\ y = x + Budget
    BY <1>5
  <2>2. Upto(n, j - 1) = (IF x < n THEN x ELSE n) /\ Upto(n, j) = (IF y < n THEN y ELSE n)
    BY DEF Upto
  <2> HIDE DEF x, y
  <2>3. Upto(n, j - 1) = x /\ Upto(n, j) \in (x + 1)..n
    BY <1>1, <2>1, <2>2
  <2> QED
    BY <2>3 DEF x
<1>7. Upto(n, 0) = 0
  <2>1. 0 * Budget = 0
    BY <1>1
  <2> QED
    BY <2>1 DEF Upto
<1>8. Upto(n, t) = n
  BY <1>1, <1>2, <1>3 DEF Upto
<1> QED
  BY <1>2, <1>4, <1>5, <1>6, <1>7, <1>8 DEF t

\* The pieces of a record above the budget, and of one that is not.
LEMMA SplitIs ==
  ASSUME NEW raw \in Seq(Bytes)
  PROVE  /\ Len(raw) > Budget =>
              /\ Len(Split(raw)) = Pieced(Len(raw)) /\ Pieced(Len(raw)) \in Nat
              /\ \A j \in 1..Pieced(Len(raw)) :
                   /\ Split(raw)[j].id = raw /\ Split(raw)[j].seq = j - 1
                   /\ Split(raw)[j].payload = SubSeq(raw, (j - 1) * Budget + 1, Upto(Len(raw), j))
         /\ ~ (Len(raw) > Budget) =>
              Len(Split(raw)) = 1 /\ Split(raw)[1].id = <<>> /\ Split(raw)[1].payload = raw
<1> DEFINE n == Len(raw)
           t == Pieced(n)
<1>1. n \in Nat /\ Budget \in Nat /\ Budget > 0
  BY TailAssumption
<1>2. ASSUME n > Budget
      PROVE  /\ Len(Split(raw)) = t /\ t \in Nat
             /\ \A j \in 1..t : /\ Split(raw)[j].id = raw /\ Split(raw)[j].seq = j - 1
                                /\ Split(raw)[j].payload = SubSeq(raw, (j - 1) * Budget + 1, Upto(n, j))
  <2>1. t \in Nat
    BY <1>1, <1>2, Boundaries
  <2>2. Split(raw) = Chunks(raw)
    BY <1>2 DEF Split
  <2>3. Chunks(raw) = [k \in 1..t |-> [id |-> raw, seq |-> k - 1, total |-> t,
                                      payload |-> SubSeq(raw, (k - 1) * Budget + 1, Upto(n, k))]]
    BY DEF Chunks, Pieced, Upto
  <2> HIDE DEF t, n
  <2>4. Len(Chunks(raw)) = t
    BY <2>1, <2>3
  <2>5. ASSUME NEW j \in 1..t
        PROVE  /\ Chunks(raw)[j].id = raw /\ Chunks(raw)[j].seq = j - 1
               /\ Chunks(raw)[j].payload = SubSeq(raw, (j - 1) * Budget + 1, Upto(n, j))
    BY <2>3
  <2> QED
    BY <2>1, <2>2, <2>4, <2>5
<1>3. ASSUME ~ (n > Budget)
      PROVE  Len(Split(raw)) = 1 /\ Split(raw)[1].id = <<>> /\ Split(raw)[1].payload = raw
  BY <1>3 DEF Split, Whole
<1> QED
  BY <1>2, <1>3

\* The chunks of a record, written one by one, are the record written at once.
LEMMA ChunksJoin ==
  ASSUME NEW raw \in Seq(Bytes), Len(raw) > Budget, ~ Cut(raw)
  PROVE  FlattenSeq([j \in 1..Len(Split(raw)) |-> Encode(Split(raw)[j].payload)]) = Encode(raw)
<1> DEFINE n == Len(raw)
           t == Pieced(n)
           D == Bytes \union {Bad}
           X == Encode(raw)
           r == [j \in 0..t |-> SubSeq(X, 1, Upto(n, j))]
           s == [j \in 1..t |-> Encode(Split(raw)[j].payload)]
<1>1. n \in Nat /\ n > 0 /\ Budget \in Nat /\ Budget >= 1
  BY TailAssumption
<1>2. X \in Seq(D) /\ Len(X) = n
  <2>1. \A i \in 1..n : (IF Halved(raw, i) THEN Bad ELSE raw[i]) \in D
    BY <1>1
  <2>2. DOMAIN raw = 1..n
    OBVIOUS
  <2>3. X \in [1..n -> D]
    BY <2>1, <2>2 DEF Encode
  <2> HIDE DEF X, D, n
  <2> QED
    BY <1>1, <2>3
<1>3. /\ t \in Nat /\ t >= 1 /\ Upto(n, 0) = 0 /\ Upto(n, t) = n
      /\ \A j \in 1..t : /\ (j - 1) * Budget \in Nat /\ (j - 1) * Budget < n
                         /\ Upto(n, j - 1) = (j - 1) * Budget
                         /\ Upto(n, j) \in ((j - 1) * Budget + 1)..n
  <2> HIDE DEF n
  <2> QED
    BY <1>1, Boundaries
<1> HIDE DEF X, D
<1>4. ASSUME NEW j \in 1..t
      PROVE  s[j] = SubSeq(X, Upto(n, j - 1) + 1, Upto(n, j)) /\ s[j] \in Seq(D)
  <2> DEFINE a == (j - 1) * Budget
             e == Upto(n, j)
  <2>1. a \in Nat /\ a < n /\ Upto(n, j - 1) = a /\ e \in (a + 1)..n
    BY <1>3
  <2>2. Clean(raw, a)
    <3>1. CASE j = 1
      <4>1. a = 0
        BY <1>1, <3>1
      <4> QED
        BY <4>1 DEF Clean
    <3>2. CASE j # 1
      <4>1. j - 1 \in 1..n
        <5>1. j - 1 \in Nat /\ j - 1 >= 1
          BY <1>3, <3>2
        <5>2. j - 1 <= (j - 1) * Budget
          BY <1>1, <5>1
        <5> HIDE DEF n
        <5> QED
          BY <1>1, <2>1, <5>1, <5>2
      <4>2. (j - 1) * Budget < Len(raw)
        BY <2>1
      <4> QED
        BY <4>1, <4>2 DEF Cut, Clean
    <3> QED
      BY <3>1, <3>2
  <2>3. Clean(raw, e)
    <3>1. CASE j * Budget < n
      <4>1. e = j * Budget
        BY <3>1 DEF Upto
      <4>2. j \in 1..n
        <5>1. j \in Nat /\ j >= 1
          BY <1>3
        <5>2. j <= j * Budget
          BY <1>1, <5>1
        <5>3. j * Budget \in Nat
          BY <1>1, <5>1
        <5> HIDE DEF n
        <5> QED
          BY <1>1, <3>1, <5>1, <5>2, <5>3
      <4> QED
        BY <3>1, <4>1, <4>2 DEF Cut, Clean
    <3>2. CASE ~ (j * Budget < n)
      BY <3>2 DEF Upto, Clean
    <3> QED
      BY <3>1, <3>2
  <2>4. Split(raw)[j].payload = SubSeq(raw, a + 1, e)
    BY SplitIs
  <2> HIDE DEF a, e
  <2>5. Encode(SubSeq(raw, a + 1, e)) = SubSeq(X, a + 1, e)
    BY <2>1, <2>2, <2>3, EncodePart DEF X
  <2>6. SubSeq(X, a + 1, e) \in Seq(D)
    <3>1. \A i \in (a + 1)..e : X[i] \in D
      <4>1. \A i \in (a + 1)..e : i \in 1..Len(X)
        BY <1>1, <1>2, <2>1
      <4> QED
        BY <1>2, <4>1
    <3>2. a + 1 \in Int /\ e \in Int
      BY <1>1, <2>1
    <3> QED
      BY <3>1, <3>2, SubSeqProperties
  <2>7. s[j] = SubSeq(X, a + 1, e)
    BY <2>4, <2>5
  <2> HIDE DEF s
  <2> QED
    BY <2>1, <2>6, <2>7 DEF e
<1>5. s \in Seq(Seq(D)) /\ Len(s) = t
  <2>1. s \in [1..t -> Seq(D)]
    <3>1. \A j \in 1..t : s[j] \in Seq(D)
      BY <1>4
    <3>2. s = [j \in 1..t |-> s[j]]
      OBVIOUS
    <3> HIDE DEF s, t
    <3> QED
      BY <3>1, <3>2
  <2> HIDE DEF s, t
  <2> QED
    BY <1>3, <2>1
<1> HIDE DEF s
<1>6. ASSUME NEW j \in 1..t PROVE r[j] = r[j - 1] \o s[j]
  <2> DEFINE a == Upto(n, j - 1)
             e == Upto(n, j)
  <2>1. a \in 0..n /\ e \in a..n /\ s[j] = SubSeq(X, a + 1, e)
    <3>1. Upto(n, j - 1) \in Nat /\ Upto(n, j - 1) < n /\ Upto(n, j) \in (Upto(n, j - 1) + 1)..n
      BY <1>3
    <3>2. a \in 0..n /\ e \in a..n
      <4> DEFINE x == Upto(n, j - 1)
                 y == Upto(n, j)
      <4>1. x \in Nat /\ x < n /\ y \in (x + 1)..n
        BY <3>1
      <4> HIDE DEF x, y, n
      <4>2. x \in 0..n /\ y \in x..n
        BY <1>1, <4>1
      <4> QED
        BY <4>2 DEF x, y
    <3> QED
      BY <1>4, <3>2
  <2>2. j \in 0..t /\ j - 1 \in 0..t
    BY <1>3
  <2> HIDE DEF n, t
  <2>3. r[j] = SubSeq(X, 1, e) /\ r[j - 1] = SubSeq(X, 1, a)
    BY <2>2
  <2> HIDE DEF a, e, r
  <2>4. SubSeq(X, 1, e) = SubSeq(X, 1, a) \o SubSeq(X, a + 1, e)
    <3>1. 1 \in 1..(Len(X) + 1) /\ a \in (1 - 1)..Len(X) /\ e \in a..Len(X)
      BY <1>1, <1>2, <2>1
    <3> QED
      BY <1>2, <3>1, ConcatAdjacentSubSeq
  <2> QED
    BY <2>1, <2>3, <2>4
<1>7. r[0] = <<>> /\ r[t] = X
  <2>1. 0 \in 0..t /\ t \in 0..t
    BY <1>3
  <2>2. r[0] = SubSeq(X, 1, 0) /\ r[t] = SubSeq(X, 1, n)
    <3> HIDE DEF n, t
    <3> QED
      BY <1>3, <2>1
  <2>3. SubSeq(X, 1, 0) = <<>> /\ SubSeq(X, 1, Len(X)) = X
    BY <1>2
  <2> QED
    BY <1>2, <2>2, <2>3
<1> HIDE DEF r
<1>8. FlattenSeq(s) = r[Len(s)]
  <2> HIDE DEF t
  <2>1. \A j \in 1..Len(s) : r[j] = r[j - 1] \o s[j]
    BY <1>5, <1>6
  <2> QED
    BY <1>5, <1>7, <2>1, FlattenIs
<1>9. Len(Split(raw)) = t
  BY SplitIs
<1> QED
  BY <1>5, <1>7, <1>8, <1>9 DEF s, X

\* s numbers the rows of G as their sequence numbers do, and Y has their payloads.
Numbered(rows, G, s, Y) == \A k \in G : rows[k].seq = s[k] - 1 /\ rows[k].payload = Y[s[k]]

\* Rows numbered by their sequence numbers are merged in the order of these.
LEMMA MergedIs ==
  ASSUME NEW rows, NEW G \in SUBSET Nat, NEW t \in Nat, NEW s \in Bijection(G, 1..t), NEW Y,
         Numbered(rows, G, s, Y)
  PROVE  Merged(rows, G) = FlattenSeq([n \in 1..t |-> Y[n]])
<1> DEFINE T == 1..t
<1>1. s \in Bijection(G, T)
  OBVIOUS
<1> HIDE DEF T
<1>2. s \in [G -> T] /\ (\A a, b \in G : s[a] = s[b] => a = b) /\ \A n \in T : \E a \in G : s[a] = n
  BY <1>1, BijectionIs
<1>3. Cardinality(G) = t /\ \A k \in G : Cardinality({j \in G : s[j] <= s[k]}) = s[k]
  BY CountBelow
<1>4. ASSUME NEW k \in G PROVE Rank(rows, G, k) = s[k]
  <2>1. ASSUME NEW j \in G
        PROVE  (rows[j].seq < rows[k].seq \/ (rows[j].seq = rows[k].seq /\ j <= k)) <=> s[j] <= s[k]
    <3>1. s[j] \in Nat /\ s[k] \in Nat
      BY <1>2 DEF T
    <3>2. rows[j].seq = s[j] - 1 /\ rows[k].seq = s[k] - 1
      BY DEF Numbered
    <3>3. s[j] = s[k] => j = k
      BY <1>2
    <3>4. j \in Nat /\ k \in Nat
      OBVIOUS
    <3> QED
      BY <3>1, <3>2, <3>3, <3>4
  <2>2. {j \in G : \/ rows[j].seq < rows[k].seq
                   \/ rows[j].seq = rows[k].seq /\ j <= k} = {j \in G : s[j] <= s[k]}
    BY <2>1
  <2> QED
    BY <1>3, <2>2 DEF Rank
<1>5. ASSUME NEW n \in T PROVE rows[Ranked(rows, G, n)].payload = Y[n]
  <2>1. \E k \in G : Rank(rows, G, k) = n
    BY <1>2, <1>4
  <2>2. Ranked(rows, G, n) \in G /\ Rank(rows, G, Ranked(rows, G, n)) = n
    BY <2>1 DEF Ranked
  <2>3. s[Ranked(rows, G, n)] = n
    BY <1>4, <2>2
  <2> QED
    BY <2>2, <2>3 DEF Numbered
<1>6. [n \in T |-> rows[Ranked(rows, G, n)].payload] = [n \in T |-> Y[n]]
  BY <1>5
<1> QED
  BY <1>3, <1>6 DEF Merged, T

\* A bijection that keeps the order is the identity.
LEMMA InOrder ==
  ASSUME NEW n \in Nat, NEW q \in Orders(n), \A g, h \in 1..n : g <= h => q[g] <= q[h]
  PROVE  \A h \in 1..n : q[h] = h
<1> DEFINE T == 1..n
<1>1. q \in Bijection(T, T)
  BY DEF Orders
<1>2. \A k \in T : Cardinality({j \in T : q[j] <= q[k]}) = q[k]
  BY <1>1, CountBelow
<1> HIDE DEF T
<1>3. q \in [T -> T] /\ \A a, b \in T : q[a] = q[b] => a = b
  BY <1>1, BijectionIs
<1>4. ASSUME NEW h \in T PROVE q[h] = h
  <2>1. ASSUME NEW j \in T PROVE q[j] <= q[h] <=> j <= h
    <3>1. j \in Nat /\ h \in Nat /\ q[j] \in Nat /\ q[h] \in Nat
      BY <1>3 DEF T
    <3>2. j <= h => q[j] <= q[h]
      BY DEF T
    <3>3. h <= j => q[h] <= q[j]
      BY DEF T
    <3>4. q[j] = q[h] => j = h
      BY <1>3
    <3> QED
      BY <3>1, <3>2, <3>3, <3>4
  <2>2. {j \in T : q[j] <= q[h]} = 1..h
    <3>1. {j \in T : q[j] <= q[h]} = {j \in T : j <= h}
      BY <2>1
    <3>2. {j \in T : j <= h} = 1..h
      BY DEF T
    <3> QED
      BY <3>1, <3>2
  <2>3. h \in Nat /\ Cardinality(1..h) = h
    <3>1. h \in Nat /\ h >= 1 /\ 1 \in Int /\ h \in Int
      BY DEF T
    <3>2. Cardinality(1..h) = IF 1 > h THEN 0 ELSE h - 1 + 1
      BY <3>1, FS_Interval
    <3> QED
      BY <3>1, <3>2
  <2> QED
    BY <1>2, <2>2, <2>3
<1> QED
  BY <1>4 DEF T

\* The fields of a piece.
LEMMA PieceIs ==
  ASSUME NEW raw \in Seq(Bytes), NEW j \in 1..Len(Split(raw))
  PROVE  \E i, s, t, p : Split(raw)[j] = [id |-> i, seq |-> s, total |-> t, payload |-> p]
<1>1. CASE Len(raw) > Budget
  <2> DEFINE t == Pieced(Len(raw))
  <2>1. Chunks(raw) = [k \in 1..t |-> [id |-> raw, seq |-> k - 1, total |-> t,
                                      payload |-> SubSeq(raw, (k - 1) * Budget + 1, Upto(Len(raw), k))]]
    BY DEF Chunks, Pieced, Upto
  <2>2. Len(Split(raw)) = t
    BY <1>1, SplitIs
  <2> HIDE DEF t
  <2>3. Split(raw)[j] = [id |-> raw, seq |-> j - 1, total |-> t,
                         payload |-> SubSeq(raw, (j - 1) * Budget + 1, Upto(Len(raw), j))]
    BY <1>1, <2>1, <2>2 DEF Split
  <2> QED
    BY <2>3
<1>2. CASE ~ (Len(raw) > Budget)
  <2>1. Len(Split(raw)) = 1
    BY <1>2, SplitIs
  <2>2. Split(raw)[1] = [id |-> <<>>, seq |-> 0, total |-> 1, payload |-> raw]
    BY <1>2 DEF Split, Whole
  <2>3. j = 1
    BY <2>1
  <2> QED
    BY <2>2, <2>3
<1> QED
  BY <1>1, <1>2

\* m rows that are the pieces of records.
Rows(W, m, R, rec, sq) ==
  /\ m \in Nat /\ DOMAIN W = 1..m /\ Len(W) = m
  /\ R \in Seq(Seq(Bytes)) /\ Laid(W, R, rec, sq)

\* What is served of row k.
Serves(W, R, rec, sq, k) ==
  /\ R[rec[k]] \in Seq(Bytes) /\ rec[k] \in 1..Len(R) /\ sq[k] \in 1..Len(Split(R[rec[k]]))
  /\ Len(R[rec[k]]) > Budget =>
       /\ Served(W)[k].id = R[rec[k]] /\ Served(W)[k].seq = sq[k] - 1
       /\ Served(W)[k].payload = Encode(Split(R[rec[k]])[sq[k]].payload)
  /\ ~ (Len(R[rec[k]]) > Budget) =>
       Served(W)[k].id = <<>> /\ Served(W)[k].payload = Encode(R[rec[k]]) /\ sq[k] = 1

\* It is a piece of its record.
LEMMA ServedIs ==
  ASSUME NEW W, NEW m, NEW R, NEW rec, NEW sq, Rows(W, m, R, rec, sq), NEW k \in 1..m
  PROVE  Serves(W, R, rec, sq, k)
<1> DEFINE v == Served(W)[k]
           raw == R[rec[k]]
           w == W[k]
<1>0. m \in Nat /\ DOMAIN W = 1..m /\ Len(W) = m /\ Laid(W, R, rec, sq) /\ R \in Seq(Seq(Bytes))
  BY DEF Rows
<1>1. rec[k] \in 1..Len(R) /\ sq[k] \in 1..Len(Split(raw)) /\ w = Split(raw)[sq[k]]
  <2>1. /\ rec \in [1..m -> 1..Len(R)]
        /\ \A i \in 1..m : sq[i] \in 1..Len(Split(R[rec[i]])) /\ W[i] = Split(R[rec[i]])[sq[i]]
    BY <1>0 DEF Laid
  <2> QED
    BY <2>1
<1>2. raw \in Seq(Bytes)
  BY <1>0, <1>1
<1> HIDE DEF raw
<1>3. PICK i, s, t, p : w = [id |-> i, seq |-> s, total |-> t, payload |-> p]
  <2> DEFINE j == sq[k]
  <2>1. j \in 1..Len(Split(raw)) /\ w = Split(raw)[j]
    BY <1>1
  <2> HIDE DEF j, w
  <2>2. \E i, s, t, p : Split(raw)[j] = [id |-> i, seq |-> s, total |-> t, payload |-> p]
    BY <1>2, <2>1, PieceIs, Zenon
  <2> QED
    BY <2>1, <2>2
<1>4. v = [w EXCEPT !.payload = Encode(@)]
  BY <1>0 DEF Served
<1> HIDE DEF v, w
<1>5. v.id = w.id /\ v.seq = w.seq /\ v.payload = Encode(w.payload)
  BY <1>3, <1>4
<1>6. ASSUME Len(raw) > Budget
      PROVE  v.id = raw /\ v.seq = sq[k] - 1 /\ v.payload = Encode(Split(raw)[sq[k]].payload)
  <2> DEFINE t2 == Pieced(Len(raw))
             j == sq[k]
  <2>1. Len(Split(raw)) = t2 /\ \A x \in 1..t2 : Split(raw)[x].id = raw /\ Split(raw)[x].seq = x - 1
    BY <1>2, <1>6, SplitIs
  <2>2. j \in 1..t2
    BY <1>1, <2>1
  <2> HIDE DEF t2, j
  <2>3. Split(raw)[j].id = raw /\ Split(raw)[j].seq = j - 1
    BY <2>1, <2>2
  <2> QED
    BY <1>1, <1>5, <2>3 DEF j
<1>7. ASSUME ~ (Len(raw) > Budget)
      PROVE  v.id = <<>> /\ v.payload = Encode(raw) /\ sq[k] = 1
  <2>1. Len(Split(raw)) = 1 /\ Split(raw)[1].id = <<>> /\ Split(raw)[1].payload = raw
    BY <1>2, <1>7, SplitIs
  <2>2. sq[k] = 1
    BY <1>1, <2>1
  <2> QED
    BY <1>1, <1>5, <2>1, <2>2
<1> QED
  BY <1>1, <1>2, <1>6, <1>7 DEF Serves, v, raw

\* The records come back from their pieces only if chunked ones differ and no
\* chunk ends inside a character.
Restorable(R) ==
  /\ R \in Seq(Seq(Bytes)) /\ Distinct(R)
  /\ \A k \in 1..Len(R) : R[k] # <<>> /\ ~ Cut(R[k])

\* The rows of one chunk id are the pieces of one record.
LEMMA GroupIs ==
  ASSUME NEW W, NEW m, NEW R, NEW rec, NEW sq, Rows(W, m, R, rec, sq), Restorable(R),
         NEW k \in 1..m, Len(R[rec[k]]) > Budget
  PROVE  Group(Served(W), Served(W)[k].id) = {i \in 1..m : rec[i] = rec[k]}
<1> DEFINE V == Served(W)
           raw == R[rec[k]]
<1>1. /\ m \in Nat /\ DOMAIN W = 1..m /\ Len(W) = m /\ Laid(W, R, rec, sq)
      /\ R \in Seq(Seq(Bytes)) /\ DOMAIN R = 1..Len(R)
  BY DEF Rows, Restorable
<1>2. DOMAIN V = 1..m
  BY <1>1 DEF Served
<1>3. V[k].id = raw /\ raw # <<>> /\ rec[k] \in 1..Len(R)
  <2>1. Serves(W, R, rec, sq, k)
    BY ServedIs
  <2>2. V[k].id = raw /\ rec[k] \in 1..Len(R)
    BY <2>1 DEF Serves
  <2> QED
    BY <2>2 DEF Restorable
<1>4. ASSUME NEW i \in 1..m PROVE V[i].id = raw <=> rec[i] = rec[k]
  <2>1. /\ rec[i] \in 1..Len(R)
        /\ Len(R[rec[i]]) > Budget => V[i].id = R[rec[i]]
        /\ ~ (Len(R[rec[i]]) > Budget) => V[i].id = <<>>
    <3>1. Serves(W, R, rec, sq, i)
      BY ServedIs
    <3> QED
      BY <3>1 DEF Serves
  <2>2. ASSUME V[i].id = raw PROVE rec[i] = rec[k]
    <3>1. Len(R[rec[i]]) > Budget /\ R[rec[i]] = R[rec[k]]
      BY <1>3, <2>1, <2>2
    <3>2. rec[i] \in Chunked(R) /\ rec[k] \in Chunked(R)
      BY <1>1, <1>3, <2>1, <3>1 DEF Chunked
    <3> QED
      BY <3>1, <3>2 DEF Restorable, Distinct
  <2>3. ASSUME rec[i] = rec[k] PROVE V[i].id = raw
    BY <2>1, <2>3
  <2> QED
    BY <2>2, <2>3
<1> HIDE DEF V, raw
<1>5. Group(V, raw) = {i \in 1..m : rec[i] = rec[k]}
  BY <1>2, <1>4 DEF Group
<1> QED
  BY <1>3, <1>5 DEF V

\* A row stands for its record, which is merged from its pieces.
LEMMA RowIs ==
  ASSUME NEW W, NEW m, NEW R, NEW rec, NEW sq, Rows(W, m, R, rec, sq), Restorable(R),
         NEW k \in 1..m
  PROVE  RowAt(Served(W), k) = Encode(R[rec[k]])
<1> DEFINE V == Served(W)
           raw == R[rec[k]]
           t == Len(Split(raw))
           G == {i \in 1..m : rec[i] = rec[k]}
           s == [i \in G |-> sq[i]]
           Y == [j \in 1..t |-> Encode(Split(raw)[j].payload)]
<1>1. /\ m \in Nat /\ DOMAIN W = 1..m /\ Len(W) = m /\ Laid(W, R, rec, sq)
      /\ R \in Seq(Seq(Bytes))
  BY DEF Rows, Restorable
<1>2. /\ raw \in Seq(Bytes) /\ rec[k] \in 1..Len(R) /\ sq[k] \in 1..t
      /\ Len(raw) > Budget => V[k].id = raw
      /\ ~ (Len(raw) > Budget) => V[k].id = <<>> /\ V[k].payload = Encode(raw)
  <2>1. Serves(W, R, rec, sq, k)
    BY ServedIs
  <2> QED
    BY <2>1 DEF Serves
<1>3. raw # <<>> /\ ~ Cut(raw)
  BY <1>2 DEF Restorable
<1>4. CASE ~ (Len(raw) > Budget)
  <2>1. V[k].id = <<>> /\ V[k].payload = Encode(raw)
    BY <1>2, <1>4
  <2> HIDE DEF V, raw
  <2> QED
    BY <2>1 DEF RowAt, V, raw
<1>5. CASE Len(raw) > Budget
  <2>1. Group(V, V[k].id) = G
    BY <1>5, GroupIs
  <2>2. RowAt(V, k) = Merged(V, G)
    <3> HIDE DEF V, raw, G
    <3> QED
      BY <1>2, <1>3, <1>5, <2>1 DEF RowAt
  <2>3. t \in Nat
    BY <1>2, <1>5, SplitIs
  <2>4. /\ \A i \in 1..m : sq[i] \in 1..Len(Split(R[rec[i]]))
        /\ \A x \in 1..Len(R) : \A j \in 1..Len(Split(R[x])) : \E i \in 1..m : rec[i] = x /\ sq[i] = j
        /\ \A i, j \in 1..m : rec[i] = rec[j] /\ sq[i] = sq[j] => i = j
    BY <1>1 DEF Laid
  <2>5. s \in Bijection(G, 1..t)
    <3>1. s \in [G -> 1..t]
      <4>1. \A i \in G : sq[i] \in 1..t
        <5> SUFFICES ASSUME NEW i \in 1..m, rec[i] = rec[k] PROVE sq[i] \in 1..t
          OBVIOUS
        <5>1. sq[i] \in 1..Len(Split(R[rec[i]]))
          BY <2>4
        <5> QED
          BY <5>1
      <4> HIDE DEF G, t
      <4> QED
        BY <4>1
    <3>2. \A i, j \in G : s[i] = s[j] => i = j
      BY <2>4
    <3>3. \A j \in 1..t : \E i \in G : s[i] = j
      <4> SUFFICES ASSUME NEW j \in 1..t PROVE \E i \in G : s[i] = j
        OBVIOUS
      <4>1. PICK i \in 1..m : rec[i] = rec[k] /\ sq[i] = j
        BY <1>2, <2>4
      <4>2. i \in G /\ s[i] = j
        BY <4>1
      <4> QED
        BY <4>2
    <3> HIDE DEF s, G, t
    <3> QED
      BY <3>1, <3>2, <3>3, Fun_IsBij
  <2>6. Numbered(V, G, s, Y)
    <3> SUFFICES ASSUME NEW i \in G
                 PROVE  V[i].seq = s[i] - 1 /\ V[i].payload = Y[s[i]]
      BY DEF Numbered
    <3>1. i \in 1..m /\ rec[i] = rec[k] /\ s[i] = sq[i]
      OBVIOUS
    <3>2. R[rec[i]] = raw
      BY <3>1
    <3>3. V[i].seq = sq[i] - 1 /\ V[i].payload = Encode(Split(raw)[sq[i]].payload) /\ sq[i] \in 1..t
      <4>1. Serves(W, R, rec, sq, i)
        BY <3>1, ServedIs
      <4> QED
        BY <1>5, <3>2, <4>1 DEF Serves
    <3> HIDE DEF V, raw, t
    <3> QED
      BY <3>1, <3>3
  <2>7. G \in SUBSET Nat
    BY <1>1
  <2>8. Merged(V, G) = FlattenSeq([n \in 1..t |-> Y[n]])
    <3> HIDE DEF V, G, s, Y, t
    <3> QED
      BY <2>3, <2>5, <2>6, <2>7, MergedIs
  <2>9. [n \in 1..t |-> Y[n]] = Y
    OBVIOUS
  <2>10. FlattenSeq(Y) = Encode(raw)
    <3> HIDE DEF raw
    <3> QED
      BY <1>2, <1>3, <1>5, ChunksJoin
  <2> HIDE DEF V, G, s, Y, t, raw
  <2> QED
    BY <2>2, <2>8, <2>9, <2>10 DEF V, raw
<1> QED
  BY <1>4, <1>5

\* The first row of every record is a head, and no other is.
LEMMA HeadsAre ==
  ASSUME NEW W, NEW m, NEW R, NEW rec, NEW sq, Rows(W, m, R, rec, sq), Restorable(R)
  PROVE  LET H == Heads(Served(W))
         IN  H \in SUBSET (1..m) /\ [k \in H |-> rec[k]] \in Bijection(H, 1..Len(R))
<1> DEFINE V == Served(W)
           H == Heads(V)
           f == [k \in H |-> rec[k]]
           n == Len(R)
<1>1. /\ m \in Nat /\ DOMAIN W = 1..m /\ Len(W) = m /\ Laid(W, R, rec, sq)
      /\ R \in Seq(Seq(Bytes)) /\ n \in Nat
  BY DEF Rows, Restorable
<1>2. DOMAIN V = 1..m
  BY <1>1 DEF Served
<1>3. H = {k \in 1..m : V[k].id = <<>> \/ \A j \in 1..(k - 1) : V[j].id # V[k].id}
  BY <1>2 DEF Heads
<1>4. /\ \A i \in 1..m : rec[i] \in 1..n /\ R[rec[i]] \in Seq(Bytes) /\ R[rec[i]] # <<>>
      /\ \A i \in 1..m : ~ (Len(R[rec[i]]) > Budget) => V[i].id = <<>> /\ sq[i] = 1
      /\ \A i \in 1..m : Len(R[rec[i]]) > Budget => V[i].id = R[rec[i]]
  <2> SUFFICES ASSUME NEW i \in 1..m
               PROVE  /\ rec[i] \in 1..n /\ R[rec[i]] \in Seq(Bytes) /\ R[rec[i]] # <<>>
                      /\ ~ (Len(R[rec[i]]) > Budget) => V[i].id = <<>> /\ sq[i] = 1
                      /\ Len(R[rec[i]]) > Budget => V[i].id = R[rec[i]]
    OBVIOUS
  <2>1. /\ rec[i] \in 1..n /\ R[rec[i]] \in Seq(Bytes)
        /\ ~ (Len(R[rec[i]]) > Budget) => V[i].id = <<>> /\ sq[i] = 1
        /\ Len(R[rec[i]]) > Budget => V[i].id = R[rec[i]]
    <3>1. Serves(W, R, rec, sq, i)
      BY ServedIs
    <3> QED
      BY <3>1 DEF Serves
  <2>2. R[rec[i]] # <<>>
    BY <2>1 DEF Restorable
  <2> QED
    BY <2>1, <2>2
<1>5. /\ \A x \in 1..n : \A j \in 1..Len(Split(R[x])) : \E i \in 1..m : rec[i] = x /\ sq[i] = j
      /\ \A i, j \in 1..m : rec[i] = rec[j] /\ sq[i] = sq[j] => i = j
  BY <1>1 DEF Laid
<1> HIDE DEF V, H, n
<1>6. f \in [H -> 1..n]
  <2>1. \A k \in H : rec[k] \in 1..n
    BY <1>3, <1>4
  <2> QED
    BY <2>1
<1>7. \A i, j \in H : f[i] = f[j] => i = j
  <2> SUFFICES ASSUME NEW i \in H, NEW j \in H, rec[i] = rec[j] PROVE i = j
    OBVIOUS
  <2>1. i \in 1..m /\ j \in 1..m
    BY <1>3
  <2>2. CASE ~ (Len(R[rec[i]]) > Budget)
    <3>1. sq[i] = 1 /\ sq[j] = 1
      BY <1>4, <2>1, <2>2
    <3> QED
      BY <1>5, <2>1, <3>1
  <2>3. CASE Len(R[rec[i]]) > Budget
    <3>1. V[i].id = V[j].id /\ V[i].id # <<>>
      BY <1>4, <2>1, <2>3
    <3>2. ~ (i < j) /\ ~ (j < i)
      <4>1. ASSUME NEW a \in H, NEW c \in H, V[a].id = V[c].id, V[a].id # <<>>, a < c PROVE FALSE
        <5>1. a \in 1..m /\ c \in 1..m /\ \A x \in 1..(c - 1) : V[x].id # V[c].id
          BY <1>3, <4>1
        <5>2. a \in 1..(c - 1)
          BY <1>1, <4>1, <5>1
        <5> QED
          BY <4>1, <5>1, <5>2
      <4> QED
        BY <3>1, <4>1
    <3> QED
      BY <1>1, <2>1, <3>2
  <2> QED
    BY <2>2, <2>3
<1>8. \A x \in 1..n : \E k \in H : f[k] = x
  <2> SUFFICES ASSUME NEW x \in 1..n PROVE \E k \in H : rec[k] = x
    OBVIOUS
  <2> DEFINE G == {i \in 1..m : rec[i] = x}
  <2>1. R[x] \in Seq(Bytes)
    BY <1>1 DEF n
  <2>2. 1 \in 1..Len(Split(R[x]))
    <3>1. Len(R[x]) \in Nat /\ Budget \in Nat /\ Budget > 0
      BY <2>1, TailAssumption
    <3>2. CASE Len(R[x]) > Budget
      <4>1. Pieced(Len(R[x])) \in Nat /\ Pieced(Len(R[x])) >= 1
        <5>1. Len(R[x]) > 0
          BY <3>1, <3>2
        <5> QED
          BY <3>1, <5>1, Boundaries
      <4>2. Len(Split(R[x])) = Pieced(Len(R[x]))
        BY <2>1, <3>2, SplitIs
      <4> QED
        BY <4>1, <4>2
    <3>3. CASE ~ (Len(R[x]) > Budget)
      <4>1. Len(Split(R[x])) = 1
        BY <2>1, <3>3, SplitIs
      <4> QED
        BY <4>1
    <3> QED
      BY <3>2, <3>3
  <2>3. G # {}
    BY <1>5, <2>2
  <2>4. G \in SUBSET (1..m) /\ G \in SUBSET Nat
    BY <1>1
  <2>5. IsFiniteSet(G)
    <3>1. IsFiniteSet(1..m)
      BY <1>1, FS_Interval
    <3> HIDE DEF G
    <3> QED
      BY <2>4, <3>1, FS_Subset
  <2>6. PICK k \in G : \A j \in G : k <= j
    <3> HIDE DEF G
    <3> QED
      BY <2>3, <2>4, <2>5, Least
  <2>7. k \in 1..m /\ rec[k] = x
    BY <2>6
  <2>8. k \in H
    <3>1. CASE ~ (Len(R[x]) > Budget)
      <4>1. V[k].id = <<>>
        BY <1>4, <2>7, <3>1
      <4> QED
        BY <1>3, <2>7, <4>1
    <3>2. CASE Len(R[x]) > Budget
      <4>1. ASSUME NEW j \in 1..(k - 1), V[j].id = V[k].id PROVE FALSE
        <5>1. j \in 1..m /\ j < k /\ k \in Nat /\ j \in Nat
          BY <1>1, <2>7
        <5>2. V[k].id = R[x]
          BY <1>4, <2>7, <3>2
        <5>3. Group(V, V[k].id) = {i \in 1..m : rec[i] = rec[k]}
          BY <2>7, <3>2, GroupIs DEF V
        <5>4. j \in Group(V, V[k].id)
          BY <1>2, <4>1, <5>1 DEF Group
        <5>5. j \in G
          BY <2>7, <5>3, <5>4
        <5>6. k <= j
          BY <2>6, <5>5
        <5> QED
          BY <5>1, <5>6
      <4> QED
        BY <1>3, <2>7, <4>1
    <3> QED
      BY <3>1, <3>2
  <2> QED
    BY <2>7, <2>8
<1>9. H \in SUBSET (1..m)
  BY <1>3
<1>10. f \in Bijection(H, 1..n)
  <2> HIDE DEF f
  <2> QED
    BY <1>6, <1>7, <1>8, Fun_IsBij
<1> QED
  BY <1>9, <1>10 DEF H, V, n

\* The records come back, one for each head.
LEMMA Returned ==
  ASSUME NEW W, NEW m, NEW R, NEW rec, NEW sq, Rows(W, m, R, rec, sq), Restorable(R)
  PROVE  LET H == Heads(Served(W))
             q == [h \in 1..Len(R) |-> rec[Nth(H, h)]]
         IN  /\ q \in Orders(Len(R))
             /\ Reassemble(Served(W)) = Reordered(Texted(R), q)
             /\ Rising(rec, m) => \A h \in 1..Len(R) : q[h] = h
<1> DEFINE V == Served(W)
           H == Heads(V)
           n == Len(R)
           f == [k \in H |-> rec[k]]
           e == [h \in 1..n |-> Nth(H, h)]
           q == [h \in 1..n |-> rec[Nth(H, h)]]
<1>1. m \in Nat /\ n \in Nat /\ DOMAIN R = 1..n
  BY DEF Rows, Restorable
<1>2. H \in SUBSET (1..m) /\ f \in Bijection(H, 1..n)
  BY HeadsAre
<1> HIDE DEF V, H, n
<1>3. Cardinality(H) = n
  <2> HIDE DEF f
  <2> QED
    BY <1>1, <1>2, CountBelow
<1>4. e \in Bijection(1..n, H) /\ \A g, h \in 1..n : g < h => e[g] < e[h]
  <2>1. LET c == Cardinality(H)
            x == [h \in 1..c |-> Nth(H, h)]
        IN  x \in Bijection(1..c, H) /\ \A g, h \in 1..c : g < h => x[g] < x[h]
    BY <1>1, <1>2, NthIs
  <2> QED
    BY <1>3, <2>1
<1>5. \A h \in 1..n : e[h] \in H /\ e[h] \in 1..m /\ e[h] = Nth(H, h) /\ q[h] = rec[e[h]]
  <2> DEFINE T == 1..n
  <2>1. e \in Bijection(T, H)
    BY <1>4
  <2> HIDE DEF T, e
  <2>2. e \in [T -> H]
    BY <2>1, BijectionIs
  <2>3. \A h \in T : e[h] \in H /\ e[h] \in 1..m
    BY <1>2, <2>2
  <2>4. \A h \in T : e[h] = Nth(H, h) /\ q[h] = rec[e[h]]
    BY DEF T, e
  <2> QED
    BY <2>3, <2>4 DEF T
<1>6. q \in Orders(n)
  <2>1. [h \in 1..n |-> f[e[h]]] \in Bijection(1..n, 1..n)
    <3> HIDE DEF f, e
    <3> QED
      BY <1>2, <1>4, Fun_BijTransitive
  <2>2. q = [h \in 1..n |-> f[e[h]]]
    BY <1>5
  <2> QED
    BY <2>1, <2>2 DEF Orders
<1>7. Reassemble(V) = Reordered(Texted(R), q)
  <2>1. Reassemble(V) = [h \in 1..n |-> RowAt(V, Nth(H, h))]
    BY <1>3 DEF Reassemble, H
  <2>2. \A h \in 1..n : RowAt(V, Nth(H, h)) = Encode(R[q[h]])
    <3> SUFFICES ASSUME NEW h \in 1..n PROVE RowAt(V, Nth(H, h)) = Encode(R[q[h]])
      OBVIOUS
    <3>1. e[h] \in 1..m /\ e[h] = Nth(H, h) /\ q[h] = rec[e[h]]
      BY <1>5
    <3> HIDE DEF e, q
    <3>2. RowAt(Served(W), e[h]) = Encode(R[rec[e[h]]])
      BY <3>1, RowIs
    <3> QED
      BY <3>1, <3>2 DEF V
  <2>3. Texted(R) = [k \in 1..n |-> Encode(R[k])]
    BY <1>1 DEF Texted
  <2>4. Reordered(Texted(R), q) = [h \in 1..n |-> Texted(R)[q[h]]]
    BY <2>3 DEF Reordered
  <2>5. \A h \in 1..n : q[h] \in 1..n
    <3> DEFINE T == 1..n
    <3>1. q \in Bijection(T, T)
      BY <1>6 DEF Orders
    <3> HIDE DEF T, q
    <3>2. q \in [T -> T]
      BY <3>1, BijectionIs
    <3> QED
      BY <3>2 DEF T
  <2>6. \A h \in 1..n : Texted(R)[q[h]] = Encode(R[q[h]])
    <3> HIDE DEF q
    <3> QED
      BY <2>3, <2>5
  <2> HIDE DEF q
  <2> QED
    BY <2>1, <2>2, <2>4, <2>6
<1>8. ASSUME Rising(rec, m) PROVE \A h \in 1..n : q[h] = h
  <2>1. ASSUME NEW g \in 1..n, NEW h \in 1..n, g <= h PROVE q[g] <= q[h]
    <3>1. e[g] \in 1..m /\ e[h] \in 1..m /\ q[g] = rec[e[g]] /\ q[h] = rec[e[h]]
      BY <1>5
    <3>2. e[g] <= e[h]
      <4>1. g = h \/ g < h
        BY <1>1, <2>1
      <4>2. g < h => e[g] < e[h]
        BY <1>4
      <4> HIDE DEF e
      <4> QED
        BY <1>1, <3>1, <4>1, <4>2
    <3> HIDE DEF e, q
    <3> QED
      BY <1>8, <3>1, <3>2 DEF Rising
  <2> HIDE DEF q
  <2> QED
    BY <1>1, <1>6, <2>1, InOrder
<1> HIDE DEF q
<1>9. q \in Orders(Len(R)) /\ Reassemble(Served(W)) = Reordered(Texted(R), q)
      /\ (Rising(rec, m) => \A h \in 1..Len(R) : q[h] = h)
  BY <1>6, <1>7, <1>8 DEF V, n
<1> QED
  BY <1>9 DEF q, H, V, n

\* What is emitted of a text is restored, in its order and in any other.
LEMMA EmittedComesBack ==
  ASSUME NEW b \in Seq(Bytes), Distinct(Records(b)), \A k \in DOMAIN Records(b) : ~ Cut(Records(b)[k])
  PROVE  /\ Reassemble(Served(Emit(b))) = Texted(Records(b))
         /\ \A p \in Orders(Len(Emit(b))) : \E q \in Orders(Len(Records(b))) :
              Reassemble(Served(Reordered(Emit(b), p))) = Reordered(Texted(Records(b)), q)
<1> DEFINE E == Emit(b)
           R == Records(b)
           m == Len(E)
<1>1. /\ E \in Seq(Pieces) /\ R \in Seq(Seq(Bytes))
      /\ \A k \in 1..Len(R) : R[k] # <<>>
      /\ \E rec, sq : Laid(E, R, rec, sq) /\ Rising(rec, m)
  BY EmitLaid
<1>2. PICK rec, sq : Laid(E, R, rec, sq) /\ Rising(rec, m)
  BY <1>1
<1>3. Distinct(R) /\ \A k \in DOMAIN R : ~ Cut(R[k])
  OBVIOUS
<1> HIDE DEF E, R
<1>4. Restorable(R)
  <2>1. DOMAIN R = 1..Len(R)
    BY <1>1
  <2> QED
    BY <1>1, <1>3, <2>1 DEF Restorable
<1>5. m \in Nat /\ DOMAIN E = 1..m /\ Len(E) = m
  BY <1>1
<1> HIDE DEF m
<1>6. Rows(E, m, R, rec, sq)
  BY <1>1, <1>2, <1>5 DEF Rows
<1>7. Reassemble(Served(E)) = Texted(R)
  <2> DEFINE q == [h \in 1..Len(R) |-> rec[Nth(Heads(Served(E)), h)]]
  <2>1. Reassemble(Served(E)) = Reordered(Texted(R), q) /\ \A h \in 1..Len(R) : q[h] = h
    BY <1>2, <1>4, <1>6, Returned
  <2> HIDE DEF q
  <2>2. DOMAIN R = 1..Len(R)
    BY <1>1
  <2>3. Texted(R) = [k \in 1..Len(R) |-> Encode(R[k])]
    BY <2>2 DEF Texted
  <2>4. Reordered(Texted(R), q) = [k \in 1..Len(R) |-> Texted(R)[q[k]]]
    BY <2>3 DEF Reordered
  <2>5. \A h \in 1..Len(R) : Texted(R)[q[h]] = Encode(R[h])
    BY <2>1, <2>3
  <2> QED
    BY <2>1, <2>3, <2>4, <2>5
<1>8. ASSUME NEW p \in Orders(m)
      PROVE  \E q \in Orders(Len(R)) : Reassemble(Served(Reordered(E, p))) = Reordered(Texted(R), q)
  <2> DEFINE W == Reordered(E, p)
             rec2 == [i \in 1..m |-> rec[p[i]]]
             sq2 == [i \in 1..m |-> sq[p[i]]]
             q == [h \in 1..Len(R) |-> rec2[Nth(Heads(Served(W)), h)]]
  <2>1. DOMAIN W = 1..m /\ Len(W) = m /\ Laid(W, R, rec2, sq2)
    BY <1>2, <1>5, LaidReordered
  <2> HIDE DEF W, rec2, sq2
  <2>2. Rows(W, m, R, rec2, sq2)
    BY <1>1, <1>5, <2>1 DEF Rows
  <2>3. q \in Orders(Len(R)) /\ Reassemble(Served(W)) = Reordered(Texted(R), q)
    BY <1>4, <2>2, Returned
  <2> HIDE DEF q
  <2> QED
    BY <2>3 DEF W
<1> QED
  BY <1>7, <1>8 DEF E, R, m

(***************************************************************************)
(* "Sort by chunk_seq, concatenate payload" (reassemble_chunks): from what *)
(* Parse stored the bridge returns the records up to the offset, in their  *)
(* order, and in some order when the rows come in another.  Chunked ones   *)
(* are to differ, and no chunk is to end inside a character: TextSurvives  *)
(* and OnlyRecords are violated by what happens otherwise.                 *)
(***************************************************************************)
THEOREM ReassemblesExactly == Spec => []ReassembledExactly
<1>1. TailInv => ReassembledExactly
  <2> SUFFICES ASSUME TailInv, Current, lapses = 0, Distinct(Records(Past)),
                      \A k \in DOMAIN Records(Past) : ~ Cut(Records(Past)[k])
               PROVE  Restored(Records(Past))
    BY DEF ReassembledExactly
  <2>1. Faithful /\ ~swapped
    BY DEF Current, Faithful
  <2>2. engrams = Emit(PastOf(transcript, Pos)) /\ Past = PastOf(transcript, Pos)
    BY <2>1 DEF TailInv, EmitInv, Past, PastOf, Pos
  <2>3. Past \in Seq(Bytes)
    <3>1. transcript \in Seq(Bytes) /\ Pos \in 0..Len(transcript)
      BY <2>1 DEF TailInv, TailTypes, PassInv, LineInv, StartInv, Pos
    <3> QED
      BY <2>2, <3>1, PastIn
  <2>4. engrams = Emit(Past)
    BY <2>2
  <2> DEFINE b == Past
  <2> HIDE DEF b
  <2>5. Restored(Records(b))
    BY <2>3, <2>4, EmittedComesBack DEF Restored, b
  <2> QED
    BY <2>5 DEF b
<1> QED
  BY <1>1, TailInvariant, PTL

=============================================================================
