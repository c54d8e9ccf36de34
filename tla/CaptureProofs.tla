--------------------------- MODULE CaptureProofs ---------------------------
(***************************************************************************)
(* Proofs about Capture, for every set of files and timers and every       *)
(* bound: its types, the exactness of the WaitGroup, the shutdown contract *)
(* and the coverage of the offsets; that it implements the abstract tail   *)
(* of TailLog; and what a record stored twice and a clean stop say of the  *)
(* offsets saved.                                                          *)
(***************************************************************************)
EXTENDS Capture, FiniteSetTheorems, TLAPS

USE DEF Records, Phases, Steps, Holding, NoJob, Threads

Busy == {t \in Threads : ~Idle(t)}

---------------------------------------------------------------------------
(* The number of busy threads *)

\* The set of threads, and so the set of busy ones, is finite.
LEMMA BusyFinite == IsFiniteSet(Busy)
<1>1. IsFiniteSet(Threads)
  BY ConstantsAssumption, FS_AddElement
<1>2. Busy \in SUBSET Threads
  BY DEF Busy
<1> QED
  BY <1>1, <1>2, FS_Subset

\* One more thread is busy.
LEMMA BusyAdd ==
  ASSUME NEW t \in Threads, Idle(t), Busy' = Busy \cup {t}
  PROVE  Cardinality(Busy') = Cardinality(Busy) + 1
<1>1. t \notin Busy
  BY DEF Busy
<1> QED
  BY <1>1, BusyFinite, FS_AddElement

\* One thread fewer is busy.
LEMMA BusyRemove ==
  ASSUME NEW t \in Threads, ~Idle(t), Busy' = Busy \ {t}
  PROVE  Cardinality(Busy') = Cardinality(Busy) - 1
<1>1. t \in Busy
  BY DEF Busy
<1> QED
  BY <1>1, BusyFinite, FS_RemoveElement

\* A thread that ends is counted out.
LEMMA FinishCounts ==
  ASSUME JobsOK, InflightCounts, NEW t \in Threads, ~Idle(t), Finish(t)
  PROVE  InflightCounts'
<1>1. Busy' = Busy \ {t}
  BY DEF Busy, Idle, Finish, JobsOK
<1>2. Cardinality(Busy') = Cardinality(Busy) - 1
  BY <1>1, BusyRemove
<1> QED
  BY <1>2 DEF InflightCounts, Finish, Busy

\* A step within a thread's life leaves the count.
LEMMA StayCounts ==
  ASSUME JobsOK, InflightCounts, NEW t \in Threads, ~Idle(t), UNCHANGED inflight,
         NEW s \in Steps \ {"idle"}, pc' = [pc EXCEPT ![t] = s]
  PROVE  InflightCounts'
<1>1. Busy' = Busy
  BY DEF Busy, Idle, JobsOK
<1> QED
  BY <1>1 DEF InflightCounts, Busy

LEMMA OnWriteCounts ==
  ASSUME JobsOK, InflightCounts, NEW p \in Paths, OnWrite(p)
  PROVE  InflightCounts'
<1>1. PICK new \in {t \in Slots : Idle(t)} :
        LET stopped == {pending[p]} \cap {t \in Slots : pc[t] = "armed"}
        IN  /\ pc' = [t \in Threads |-> IF t = new THEN "armed"
                                        ELSE IF t \in stopped THEN "idle" ELSE pc[t]]
            /\ inflight' = inflight - Cardinality(stopped) + 1
  BY DEF OnWrite
<1> DEFINE stopped == {pending[p]} \cap {t \in Slots : pc[t] = "armed"}
           rest    == Busy \ stopped
<1>2. new \in Threads /\ new \notin stopped /\ new \notin Busy
  BY <1>1 DEF Idle, Busy
<1>3. Busy' = rest \cup {new}
  <2>1. ASSUME NEW t \in Threads
        PROVE  t \in Busy' <=> t \in rest \cup {new}
    <3>1. pc'[t] = IF t = new THEN "armed" ELSE IF t \in stopped THEN "idle" ELSE pc[t]
      BY <1>1
    <3>2. t \in Busy' <=> pc'[t] # "idle"
      BY DEF Busy, Idle
    <3>3. t \in Busy <=> pc[t] # "idle"
      BY DEF Busy, Idle
    <3> QED
      BY <1>2, <3>1, <3>2, <3>3
  <2>2. Busy' \subseteq Threads /\ rest \cup {new} \subseteq Threads
    BY <1>2 DEF Busy
  <2> QED
    BY <2>1, <2>2
<1>4. IsFiniteSet(rest) /\ Cardinality(rest) = Cardinality(Busy) - Cardinality(stopped)
  <2>1. CASE stopped = {}
    <3>1. rest = Busy /\ Cardinality(stopped) = 0
      BY <2>1, FS_EmptySet
    <3>2. Cardinality(Busy) \in Nat
      BY BusyFinite, FS_CardinalityType
    <3> HIDE DEF stopped, rest
    <3> QED
      BY <3>1, <3>2, BusyFinite
  <2>2. CASE stopped # {}
    <3>1. stopped = {pending[p]} /\ pending[p] \in Busy
      BY <2>2 DEF Busy, Idle
    <3>2. Cardinality(stopped) = 1
      BY <3>1, FS_Singleton
    <3> QED
      BY <3>1, <3>2, BusyFinite, FS_RemoveElement
  <2> QED
    BY <2>1, <2>2
<1>5. Cardinality(Busy') = Cardinality(rest) + 1
  BY <1>2, <1>3, <1>4, FS_AddElement
<1>6. Cardinality(stopped) \in Nat
  <2>1. stopped = {} \/ stopped = {pending[p]}
    OBVIOUS
  <2>2. IsFiniteSet({}) /\ IsFiniteSet({pending[p]})
    BY FS_EmptySet, FS_Singleton
  <2>3. IsFiniteSet(stopped)
    <3> HIDE DEF stopped
    <3> QED
      BY <2>1, <2>2
  <2> QED
    BY <2>3, FS_CardinalityType
<1>7. Cardinality(Busy) \in Nat /\ Cardinality(Busy) = inflight
  BY BusyFinite, FS_CardinalityType DEF InflightCounts, Busy
<1> QED
  BY <1>1, <1>4, <1>5, <1>6, <1>7 DEF InflightCounts, Busy

\* The WaitGroup stays exact in every step.
LEMMA CountStep ==
  ASSUME JobsOK, InflightCounts, [Next]_vars
  PROVE  InflightCounts'
<1> USE DEF Idle
<1>1. CASE UNCHANGED <<pc, inflight>>
  BY <1>1 DEF InflightCounts
<1>2. ASSUME NEW p \in Paths, OnWrite(p)
      PROVE  InflightCounts'
  BY <1>2, OnWriteCounts
<1>3. ASSUME NEW p \in Paths, ScanFile(p)
      PROVE  InflightCounts'
  <2>1. Busy' = Busy \cup {Scanner}
    BY <1>3 DEF ScanFile, Busy, JobsOK
  <2>2. Cardinality(Busy') = Cardinality(Busy) + 1
    BY <1>3, <2>1, BusyAdd DEF ScanFile
  <2> QED
    BY <1>3, <2>2 DEF InflightCounts, ScanFile, Busy
<1>4. ASSUME NEW t \in Threads, ThreadStep(t)
      PROVE  InflightCounts'
  <2>1. CASE Fire(t)
    BY <2>1, StayCounts DEF Fire
  <2>2. CASE Unregister(t)
    BY <2>2, StayCounts DEF Unregister
  <2>3. CASE Parse(t)
    <3>1. CASE Finish(t)
      BY <2>3, <3>1, FinishCounts DEF Parse
    <3>2. CASE ~Finish(t)
      BY <2>3, <3>2, StayCounts DEF Parse
    <3> QED
      BY <3>1, <3>2
  <2>4. CASE Insert(t)
    BY <2>4, StayCounts DEF Insert
  <2>5. CASE SetOffset(t)
    BY <2>5, StayCounts DEF SetOffset
  <2>6. CASE SaveOffset(t)
    BY <2>6, FinishCounts DEF SaveOffset
  <2> QED
    BY <1>4, <2>1, <2>2, <2>3, <2>4, <2>5, <2>6 DEF ThreadStep
<1>5. ASSUME NEW t \in Threads, ParseFails(t) \/ InsertFails(t) \/ SaveFails(t)
      PROVE  InflightCounts'
  BY <1>5, FinishCounts DEF ParseFails, InsertFails, SaveFails
<1>6. ASSUME NEW t \in Slots, FlushStop(t)
      PROVE  InflightCounts'
  <2>1. CASE pc[t] = "armed"
    BY <1>6, <2>1, FinishCounts DEF FlushStop
  <2>2. CASE pc[t] # "armed"
    BY <1>6, <2>2, <1>1 DEF FlushStop
  <2> QED
    BY <2>1, <2>2
<1>7. CASE Die
  <2>1. {t \in Threads : ~Idle(t)}' = {}
    BY <1>7 DEF Die
  <2> QED
    BY <1>7, <2>1, FS_EmptySet DEF InflightCounts, Die
<1> QED
  <2>1. CASE \E p \in Paths : Append1(p) \/ MakeDir(p) \/ OnMakeDir(p) \/ LoseEvent(p)
    BY <2>1, <1>1 DEF Append1, MakeDir, OnMakeDir, LoseEvent, jobVars
  <2>2. CASE \/ AddRoot \/ BeginScan \/ EndScan \/ FlushTake \/ FlushSave \/ Drained
             \/ CloseStore \/ Boot \/ Cancel
    BY <2>2, <1>1 DEF AddRoot, BeginScan, EndScan, FlushTake, FlushSave, Drained,
                      CloseStore, Boot, Cancel, jobVars
  <2>3. CASE Exit \/ Crash
    BY <2>3, <1>7 DEF Exit, Crash
  <2>4. CASE UNCHANGED vars
    BY <2>4, <1>1 DEF vars, jobVars
  <2> QED
    BY <1>2, <1>3, <1>4, <1>5, <1>6, <2>1, <2>2, <2>3, <2>4 DEF Next, RunStep

---------------------------------------------------------------------------
(* Types *)

LEMMA Bounds == MaxRecords \in Nat /\ MaxBoots \in Nat /\ MaxFaults \in Nat
BY ConstantsAssumption

LEMMA TypeInit == Init => TypeOK /\ InflightCounts
<1> SUFFICES ASSUME Init PROVE TypeOK /\ InflightCounts
  OBVIOUS
<1> USE Bounds DEF Init
<1>1. FlagsOK
  BY Zenon DEF FlagsOK
<1>2. FilesOK /\ RunOK /\ StoreOK /\ BoundsOK
  BY DEF FilesOK, RunOK, StoreOK, BoundsOK
<1>3. JobsOK
  BY DEF JobsOK, Idle
<1>4. {t \in Threads : ~Idle(t)} = {}
  BY DEF Idle
<1>5. InflightCounts /\ inflight \in Nat
  BY <1>4, FS_EmptySet DEF InflightCounts
<1> QED
  BY <1>1, <1>2, <1>3, <1>5 DEF TypeOK

LEMMA FlagsStep ==
  ASSUME FlagsOK, [Next]_vars
  PROVE  FlagsOK'
<1> USE DEF FlagsOK, runVars, stateVars, storeVars
<1>1. ASSUME NEW p \in Paths,
             Append1(p) \/ MakeDir(p) \/ OnMakeDir(p) \/ LoseEvent(p) \/ OnWrite(p)
             \/ ScanFile(p)
      PROVE  FlagsOK'
  BY <1>1, Zenon DEF Append1, MakeDir, OnMakeDir, LoseEvent, OnWrite, ScanFile
<1>2. ASSUME NEW t \in Threads, ThreadStep(t)
      PROVE  FlagsOK'
  BY <1>2, Zenon DEF ThreadStep, Fire, Unregister, Parse, Insert, SetOffset, SaveOffset, Save
<1>3. ASSUME NEW t \in Threads,
             ParseFails(t) \/ InsertFails(t) \/ SaveFails(t)
      PROVE  FlagsOK'
  BY <1>3, Zenon DEF ParseFails, InsertFails, SaveFails
<1>4. ASSUME NEW t \in Slots, FlushStop(t)
      PROVE  FlagsOK'
  BY <1>4, Zenon DEF FlushStop
<1>5. CASE AddRoot \/ BeginScan \/ EndScan \/ FlushTake \/ FlushSave
  BY <1>5, Zenon DEF AddRoot, BeginScan, EndScan, FlushTake, FlushSave, Save
<1>6. CASE Drained \/ CloseStore \/ Boot \/ Cancel
  BY <1>6, Zenon DEF Drained, CloseStore, Boot, Cancel
<1>7. CASE Exit \/ Crash
  BY <1>7, Zenon DEF Exit, Crash, Die
<1>8. CASE UNCHANGED vars
  BY <1>8, Zenon DEF vars
<1> QED
  BY <1>1, <1>2, <1>3, <1>4, <1>5, <1>6, <1>7, <1>8, Zenon DEF Next, RunStep

LEMMA FilesStep ==
  ASSUME FilesOK, JobsOK, [Next]_vars
  PROVE  FilesOK'
<1> USE Bounds DEF FilesOK
<1>1. CASE UNCHANGED <<written, disk, mem>>
  BY <1>1
<1>2. ASSUME NEW p \in Paths, Append1(p)
      PROVE  FilesOK'
  BY <1>2 DEF Append1, stateVars
<1>3. ASSUME NEW t \in Threads, SetOffset(t)
      PROVE  FilesOK'
  BY <1>3 DEF SetOffset, JobsOK, fsVars
<1>4. CASE Save /\ UNCHANGED <<written, mem>>
  BY <1>4 DEF Save
<1>5. CASE mem' = disk /\ UNCHANGED <<written, disk>>
  BY <1>5
<1> QED
  <2> USE DEF fsVars, stateVars
  <2>1. CASE \E p \in Paths : MakeDir(p) \/ OnMakeDir(p) \/ LoseEvent(p) \/ OnWrite(p)
                                \/ ScanFile(p)
    BY <2>1, <1>1 DEF MakeDir, OnMakeDir, LoseEvent, OnWrite, ScanFile
  <2>2. ASSUME NEW t \in Threads, ThreadStep(t)
        PROVE  FilesOK'
    BY <2>2, <1>1, <1>3, <1>4
       DEF ThreadStep, Fire, Unregister, Parse, Insert, SaveOffset
  <2>3. CASE \/ \E t \in Threads : ParseFails(t) \/ InsertFails(t) \/ SaveFails(t)
             \/ \E t \in Slots : FlushStop(t)
    BY <2>3, <1>1 DEF ParseFails, InsertFails, SaveFails, FlushStop
  <2>4. CASE AddRoot \/ BeginScan \/ EndScan \/ FlushTake \/ Drained \/ CloseStore \/ Cancel
    BY <2>4, <1>1 DEF AddRoot, BeginScan, EndScan, FlushTake, Drained, CloseStore, Cancel
  <2>5. CASE FlushSave
    BY <2>5, <1>1, <1>4 DEF FlushSave
  <2>6. CASE Boot \/ Exit \/ Crash
    BY <2>6, <1>5 DEF Boot, Exit, Crash, Die
  <2>7. CASE UNCHANGED vars
    BY <2>7, <1>1 DEF vars
  <2> QED
    BY <1>2, <2>1, <2>2, <2>3, <2>4, <2>5, <2>6, <2>7 DEF Next, RunStep

LEMMA RunTypeStep ==
  ASSUME RunOK, JobsOK, [Next]_vars
  PROVE  RunOK'
<1> USE DEF RunOK, fsVars, eventVars, runVars
<1>1. ASSUME NEW p \in Paths,
             Append1(p) \/ MakeDir(p) \/ OnMakeDir(p) \/ LoseEvent(p)
      PROVE  RunOK'
  BY <1>1 DEF Append1, MakeDir, OnMakeDir, LoseEvent
<1>2. ASSUME NEW p \in Paths, OnWrite(p) \/ ScanFile(p)
      PROVE  RunOK'
  BY <1>2 DEF OnWrite, ScanFile
<1>3. ASSUME NEW t \in Threads, ThreadStep(t)
      PROVE  RunOK'
  BY <1>3 DEF ThreadStep, Fire, Unregister, Parse, Insert, SetOffset, SaveOffset
<1>4. ASSUME NEW t \in Threads, ParseFails(t) \/ InsertFails(t) \/ SaveFails(t)
      PROVE  RunOK'
  BY <1>4 DEF ParseFails, InsertFails, SaveFails
<1>5. ASSUME NEW t \in Slots, FlushStop(t)
      PROVE  RunOK'
  BY <1>5 DEF FlushStop
<1>6. CASE AddRoot
  BY <1>6 DEF AddRoot
<1>7. CASE BeginScan \/ EndScan \/ FlushSave
  BY <1>7 DEF BeginScan, EndScan, FlushSave
<1>8. CASE Drained \/ CloseStore \/ Boot \/ Cancel
  BY <1>8 DEF Drained, CloseStore, Boot, Cancel
<1>9. CASE FlushTake
  BY <1>9 DEF FlushTake, JobsOK
<1>10. CASE Exit \/ Crash
  BY <1>10 DEF Exit, Crash, Die
<1>11. CASE UNCHANGED vars
  BY <1>11 DEF vars
<1> QED
  BY <1>1, <1>2, <1>3, <1>4, <1>5, <1>6, <1>7, <1>8, <1>9, <1>10, <1>11 DEF Next, RunStep

LEMMA JobsStep ==
  ASSUME JobsOK, FilesOK, [Next]_vars
  PROVE  JobsOK'
<1> USE Bounds DEF JobsOK, Idle
<1>1. CASE UNCHANGED <<pc, job, pending>>
  BY <1>1
<1>2. ASSUME NEW t \in Threads, Finish(t), UNCHANGED pending
      PROVE  JobsOK'
  BY <1>2 DEF Finish
<1>3. ASSUME NEW t \in Threads, ~Idle(t), NEW st \in Steps, pc' = [pc EXCEPT ![t] = st],
             UNCHANGED <<job, pending>>
      PROVE  JobsOK'
  BY <1>3
<1>4. ASSUME NEW t \in Threads, ThreadStep(t)
      PROVE  JobsOK'
  <2>1. CASE Fire(t)
    BY <2>1, <1>3 DEF Fire
  <2>2. CASE Unregister(t)
    BY <2>2 DEF Unregister
  <2>3. CASE Parse(t)
    <3>1. CASE Finish(t)
      BY <2>3, <3>1, <1>2 DEF Parse
    <3>2. CASE ~Finish(t)
      <4>1. /\ job' = [job EXCEPT ![t].from = mem[job[t].path],
                                  ![t].to = written[job[t].path]]
            /\ pc' = [pc EXCEPT ![t] = "insert"] /\ UNCHANGED pending
        BY <2>3, <3>2 DEF Parse
      <4>2. mem[job[t].path] \in 0..MaxRecords /\ written[job[t].path] \in 0..MaxRecords
        BY <2>3 DEF Parse, FilesOK
      <4> QED
        BY <2>3, <4>1, <4>2 DEF Parse
    <3> QED
      BY <3>1, <3>2
  <2>4. CASE Insert(t) \/ SetOffset(t)
    BY <2>4, <1>3 DEF Insert, SetOffset
  <2>5. CASE SaveOffset(t)
    BY <2>5, <1>2 DEF SaveOffset
  <2> QED
    BY <1>4, <2>1, <2>2, <2>3, <2>4, <2>5 DEF ThreadStep
<1>5. ASSUME NEW p \in Paths, OnWrite(p)
      PROVE  JobsOK'
  BY <1>5 DEF OnWrite
<1>6. ASSUME NEW p \in Paths, ScanFile(p)
      PROVE  JobsOK'
  BY <1>6 DEF ScanFile
<1>7. CASE FlushTake
  BY <1>7 DEF FlushTake
<1>8. CASE Exit \/ Crash
  BY <1>8 DEF Exit, Crash, Die
<1> QED
  <2> USE DEF jobVars
  <2>1. CASE \E p \in Paths : Append1(p) \/ MakeDir(p) \/ OnMakeDir(p) \/ LoseEvent(p)
    BY <2>1, <1>1 DEF Append1, MakeDir, OnMakeDir, LoseEvent
  <2>2. CASE \E t \in Threads : ParseFails(t) \/ InsertFails(t) \/ SaveFails(t)
    BY <2>2, <1>2 DEF ParseFails, InsertFails, SaveFails
  <2>3. CASE \E t \in Slots : FlushStop(t)
    BY <2>3, <1>1, <1>2 DEF FlushStop
  <2>4. CASE \/ AddRoot \/ BeginScan \/ EndScan \/ FlushSave \/ Drained \/ CloseStore
             \/ Boot \/ Cancel
    BY <2>4, <1>1 DEF AddRoot, BeginScan, EndScan, FlushSave, Drained, CloseStore,
                      Boot, Cancel
  <2>5. CASE UNCHANGED vars
    BY <2>5, <1>1 DEF vars
  <2> QED
    BY <1>4, <1>5, <1>6, <1>7, <1>8, <2>1, <2>2, <2>3, <2>4, <2>5 DEF Next, RunStep

LEMMA StoreStep ==
  ASSUME StoreOK, JobsOK, [Next]_vars
  PROVE  StoreOK'
<1> USE DEF StoreOK
<1>1. CASE UNCHANGED copies
  BY <1>1
<1>2. ASSUME NEW t \in Threads, ThreadStep(t)
      PROVE  StoreOK'
  <2>1. CASE Insert(t)
    <3> DEFINE p == job[t].path
    <3>1. p \in Paths /\ copies[p] \in [Records -> Nat]
      BY <2>1 DEF Insert, JobsOK, Idle
    <3>2. [i \in Records |-> IF i \in Filtered(t) THEN copies[p][i] + 1 ELSE copies[p][i]]
            \in [Records -> Nat]
      <4>1. \A i \in Records : copies[p][i] \in Nat
        BY <3>1
      <4> HIDE DEF p
      <4> QED
        BY <4>1
    <3> QED
      BY <2>1, <3>1, <3>2 DEF Insert
  <2>2. CASE UNCHANGED copies
    BY <2>2
  <2> QED
    BY <1>2, <2>1, <2>2
       DEF ThreadStep, Fire, Unregister, Parse, SetOffset, SaveOffset, storeVars
<1> QED
  <2> USE DEF storeVars
  <2>1. CASE \E p \in Paths : Append1(p) \/ MakeDir(p) \/ OnMakeDir(p) \/ LoseEvent(p)
                                \/ OnWrite(p) \/ ScanFile(p)
    BY <2>1, <1>1 DEF Append1, MakeDir, OnMakeDir, LoseEvent, OnWrite, ScanFile
  <2>2. CASE \/ \E t \in Threads : ParseFails(t) \/ InsertFails(t) \/ SaveFails(t)
             \/ \E t \in Slots : FlushStop(t)
    BY <2>2, <1>1 DEF ParseFails, InsertFails, SaveFails, FlushStop
  <2>3. CASE \/ AddRoot \/ BeginScan \/ EndScan \/ FlushTake \/ FlushSave \/ Drained
             \/ CloseStore
    BY <2>3, <1>1 DEF AddRoot, BeginScan, EndScan, FlushTake, FlushSave, Drained,
                      CloseStore
  <2>4. CASE Boot \/ Cancel \/ Exit \/ Crash
    BY <2>4, <1>1 DEF Boot, Cancel, Exit, Crash, Die
  <2>5. CASE UNCHANGED vars
    BY <2>5, <1>1 DEF vars
  <2> QED
    BY <1>2, <2>1, <2>2, <2>3, <2>4, <2>5 DEF Next, RunStep

LEMMA BoundsStep ==
  ASSUME BoundsOK, [Next]_vars
  PROVE  BoundsOK'
<1> USE Bounds DEF BoundsOK, boundVars
<1>1. CASE \E p \in Paths : Append1(p) \/ MakeDir(p) \/ OnMakeDir(p) \/ LoseEvent(p)
                              \/ OnWrite(p) \/ ScanFile(p)
  BY <1>1 DEF Append1, MakeDir, OnMakeDir, LoseEvent, OnWrite, ScanFile, Fault
<1>2. CASE \E t \in Threads : ThreadStep(t)
  BY <1>2 DEF ThreadStep, Fire, Unregister, Parse, Insert, SetOffset, SaveOffset
<1>3. CASE \/ \E t \in Threads : ParseFails(t) \/ InsertFails(t) \/ SaveFails(t)
           \/ \E t \in Slots : FlushStop(t)
  BY <1>3 DEF ParseFails, InsertFails, SaveFails, FlushStop, Fault
<1>4. CASE \/ AddRoot \/ BeginScan \/ EndScan \/ FlushTake \/ FlushSave \/ Drained
           \/ CloseStore \/ Cancel
  BY <1>4 DEF AddRoot, BeginScan, EndScan, FlushTake, FlushSave, Drained,
              CloseStore, Cancel, Fault
<1>5. CASE Boot \/ Exit \/ Crash
  BY <1>5 DEF Boot, Exit, Crash, Die
<1>6. CASE UNCHANGED vars
  BY <1>6 DEF vars
<1> QED
  BY <1>1, <1>2, <1>3, <1>4, <1>5, <1>6 DEF Next, RunStep

LEMMA TypeStep ==
  ASSUME TypeOK, InflightCounts, [Next]_vars
  PROVE  TypeOK' /\ InflightCounts'
<1>1. InflightCounts'
  BY CountStep DEF TypeOK
<1>2. IsFiniteSet(Threads) /\ Busy' \in SUBSET Threads
  BY ConstantsAssumption, FS_AddElement DEF Busy
<1>3. Cardinality(Busy') \in Nat
  BY <1>2, FS_Subset, FS_CardinalityType
<1>4. inflight' \in Nat
  BY <1>1, <1>3 DEF InflightCounts, Busy
<1> QED
  BY <1>1, <1>4, FlagsStep, FilesStep, RunTypeStep, JobsStep, StoreStep, BoundsStep
     DEF TypeOK

\* Every reachable state is well typed; in particular the counter of the
\* WaitGroup never becomes negative (Watcher.inflight).
THEOREM TypeCorrect == Spec => []TypeOK
<1>1. TypeOK /\ InflightCounts /\ [Next]_vars => (TypeOK /\ InflightCounts)'
  BY TypeStep
<1> QED
  BY TypeInit, <1>1, PTL DEF Spec

\* The WaitGroup counts exactly the armed timers and the running parses.
THEOREM InflightExact == Spec => []InflightCounts
<1>1. TypeOK /\ InflightCounts /\ [Next]_vars => (TypeOK /\ InflightCounts)'
  BY TypeStep
<1> QED
  BY TypeInit, <1>1, PTL DEF Spec

---------------------------------------------------------------------------
(* The shutdown contract *)

Drained0 == phase \in {"closing", "closed"} => inflight = 0

\* Nothing counted means no thread busy.
LEMMA NoneBusy ==
  ASSUME InflightCounts, inflight = 0
  PROVE  \A t \in Threads : Idle(t)
<1>1. Busy = {}
  BY BusyFinite, FS_EmptySet DEF InflightCounts, Busy
<1> QED
  BY <1>1 DEF Busy

LEMMA DrainStep ==
  ASSUME InflightCounts, Drained0, [Next]_vars
  PROVE  Drained0'
<1> USE DEF Drained0, runVars, jobVars
<1>1. CASE UNCHANGED <<phase, inflight>>
  BY <1>1
<1>2. ASSUME NEW p \in Paths, OnWrite(p) \/ ScanFile(p)
      PROVE  Drained0'
  BY <1>2 DEF OnWrite, ScanFile
<1>3. ASSUME NEW t \in Threads,
             ThreadStep(t) \/ ParseFails(t) \/ InsertFails(t) \/ SaveFails(t)
      PROVE  Drained0'
  <2>1. ~Idle(t) /\ UNCHANGED phase
    BY <1>3 DEF ThreadStep, ParseFails, InsertFails, SaveFails, Fire, Unregister, Parse,
                Insert, SetOffset, SaveOffset, Idle
  <2>2. inflight # 0
    BY <2>1, NoneBusy
  <2> QED
    BY <2>1, <2>2
<1>4. CASE \E t \in Slots : FlushStop(t)
  BY <1>4 DEF FlushStop
<1>5. CASE \/ AddRoot \/ BeginScan \/ EndScan \/ FlushTake \/ FlushSave \/ Drained
           \/ CloseStore \/ Boot \/ Cancel
  BY <1>5 DEF AddRoot, BeginScan, EndScan, FlushTake, FlushSave, Drained, CloseStore,
              Boot, Cancel
<1>6. CASE Exit \/ Crash
  BY <1>6 DEF Exit, Crash, Die
<1>7. CASE \E p \in Paths : Append1(p) \/ MakeDir(p) \/ OnMakeDir(p) \/ LoseEvent(p)
  BY <1>7 DEF Append1, MakeDir, OnMakeDir, LoseEvent
<1>8. CASE UNCHANGED vars
  BY <1>8 DEF vars
<1> QED
  BY <1>2, <1>3, <1>4, <1>5, <1>6, <1>7, <1>8 DEF Next, RunStep

\* Watcher.Run returns, and main closes the store, only when no timer is
\* armed and no parse is running, in every interleaving (issue #17).
THEOREM ShutdownContract == Spec => []StoreOutlivesParses
<1> DEFINE Inv == TypeOK /\ InflightCounts /\ Drained0
<1>1. Init => Inv
  BY TypeInit DEF Init, Drained0
<1>2. Inv /\ [Next]_vars => Inv'
  BY TypeStep, DrainStep
<1>3. Inv => StoreOutlivesParses
  BY NoneBusy DEF Drained0, StoreOutlivesParses
<1> QED
  BY <1>1, <1>2, <1>3, PTL DEF Spec

---------------------------------------------------------------------------
(* The offsets *)

\* At most one thread works on a file.
LockInv ==
  \A s, t \in Threads :
    (pc[s] \in Holding /\ pc[t] \in Holding /\ job[s].path = job[t].path) => s = t

\* A parse that has not recorded its offset started at the recorded one, and
\* its batch is in the store once it is committed.
JobInv ==
  \A t \in Threads : pc[t] \in {"insert", "set"} =>
    /\ job[t].from = mem[job[t].path]
    /\ job[t].from < job[t].to /\ job[t].to <= written[job[t].path]
    /\ pc[t] = "set" => Covered(job[t].path, job[t].to)

OrderInv == \A p \in Paths : disk[p] <= mem[p] /\ mem[p] <= written[p]

DownInv == phase = "down" => mem = disk /\ \A t \in Threads : Idle(t)

OffsetsInv == LockInv /\ JobInv /\ OrderInv /\ OffsetsCovered

IInv == TypeOK /\ InflightCounts /\ OffsetsInv /\ DownInv

\* Steps in which threads only leave, or stay outside, the locked region,
\* whether or not the offsets are saved.
LEMMA LeaveKeeps ==
  ASSUME IInv,
         \A t \in Threads : pc'[t] \in Holding => pc'[t] = pc[t] /\ job'[t] = job[t],
         UNCHANGED <<written, mem, copies>>,
         disk' = disk \/ disk' = mem
  PROVE  OffsetsInv'
<1> USE DEF IInv, OffsetsInv
<1>1. LockInv'
  BY DEF LockInv
<1>2. JobInv'
  BY DEF JobInv, Covered
<1>3. OrderInv'
  BY DEF OrderInv, TypeOK, FilesOK
<1>4. OffsetsCovered'
  BY DEF OffsetsCovered, Covered
<1> QED
  BY <1>1, <1>2, <1>3, <1>4

LEMMA AppendKeeps ==
  ASSUME IInv, NEW p \in Paths, Append1(p)
  PROVE  OffsetsInv'
<1> USE Bounds DEF IInv, OffsetsInv, Append1, jobVars, stateVars, storeVars
<1>1. \A q \in Paths : written'[q] >= written[q]
  BY DEF TypeOK, FilesOK
<1>2. LockInv'
  BY DEF LockInv
<1>3. JobInv'
  <2>1. ASSUME NEW t \in Threads, pc[t] \in {"insert", "set"}
        PROVE  job[t].to <= written'[job[t].path]
    <3>1. job[t].path \in Paths /\ job[t].to \in 0..MaxRecords
      BY <2>1 DEF TypeOK, JobsOK, Idle
    <3>2. job[t].to <= written[job[t].path]
      BY <2>1 DEF JobInv
    <3> QED
      BY <1>1, <3>1, <3>2 DEF TypeOK, FilesOK
  <2> QED
    BY <2>1 DEF JobInv, Covered
<1>4. OrderInv'
  BY <1>1 DEF OrderInv, TypeOK, FilesOK
<1>5. OffsetsCovered'
  BY DEF OffsetsCovered, Covered
<1> QED
  BY <1>2, <1>3, <1>4, <1>5

LEMMA ParseKeeps ==
  ASSUME IInv, NEW t \in Threads, Parse(t)
  PROVE  OffsetsInv'
<1> DEFINE p == job[t].path
<1> USE DEF IInv, OffsetsInv
<1>1. UNCHANGED <<written, mem, copies, disk>> /\ pc[t] = "wait" /\ ~Locked(p)
  BY DEF Parse, fsVars, stateVars, storeVars
<1>2. p \in Paths
  BY <1>1 DEF TypeOK, JobsOK, Idle
<1>3. CASE Finish(t)
  <2>1. \A u \in Threads : pc'[u] \in Holding => pc'[u] = pc[u] /\ job'[u] = job[u]
    BY <1>3 DEF Finish, TypeOK, JobsOK
  <2> QED
    BY <1>1, <2>1, LeaveKeeps
<1>4. CASE ~Finish(t)
  <2>1. /\ mem[p] # written[p]
        /\ job' = [job EXCEPT ![t].from = mem[p], ![t].to = written[p]]
        /\ pc' = [pc EXCEPT ![t] = "insert"]
    BY <1>4 DEF Parse
  <2>2. /\ pc'[t] = "insert" /\ job'[t].path = p
        /\ job'[t].from = mem[p] /\ job'[t].to = written[p]
    BY <2>1 DEF TypeOK, JobsOK
  <2>3. \A u \in Threads \ {t} : pc'[u] = pc[u] /\ job'[u] = job[u]
    BY <2>1 DEF TypeOK, JobsOK
  <2>4. \A u \in Threads \ {t} : pc'[u] \in Holding => job'[u].path # p
    BY <1>1, <2>3 DEF Locked
  <2>5. LockInv'
    BY <2>2, <2>3, <2>4 DEF LockInv
  <2>6. JobInv'
    <3>1. mem[p] < written[p]
      BY <1>2, <2>1 DEF OrderInv, TypeOK, FilesOK
    <3>2. ASSUME NEW u \in Threads, pc'[u] \in {"insert", "set"}
          PROVE  /\ job'[u].from = mem'[job'[u].path]
                 /\ job'[u].from < job'[u].to /\ job'[u].to <= written'[job'[u].path]
                 /\ pc'[u] = "set" => Covered(job[u].path, job[u].to)'
      <4>1. CASE u = t
        BY <4>1, <1>1, <1>2, <2>2, <3>1 DEF TypeOK, FilesOK
      <4>2. CASE u # t
        <5>1. pc'[u] = pc[u] /\ job'[u] = job[u]
          BY <4>2, <2>3
        <5>2. pc[u] = "set" => Covered(job[u].path, job[u].to)'
          BY <1>1, <4>2, <2>3, <3>2 DEF JobInv, Covered
        <5> QED
          BY <3>2, <1>1, <5>1, <5>2 DEF JobInv
      <4> QED
        BY <4>1, <4>2
    <3> QED
      BY <3>2 DEF JobInv
  <2>7. OrderInv' /\ OffsetsCovered'
    BY <1>1 DEF OrderInv, OffsetsCovered, Covered
  <2> QED
    BY <2>5, <2>6, <2>7
<1> QED
  BY <1>3, <1>4

LEMMA InsertKeeps ==
  ASSUME IInv, NEW t \in Threads, Insert(t)
  PROVE  OffsetsInv'
<1> DEFINE p == job[t].path
<1> USE DEF IInv, OffsetsInv
<1>1. UNCHANGED <<written, mem, disk, job>> /\ pc[t] = "insert"
  BY DEF Insert, fsVars, stateVars
<1>2. p \in Paths /\ job[t].from \in Nat /\ job[t].to \in 0..MaxRecords
  BY <1>1 DEF TypeOK, JobsOK, Idle
<1>3. pc' = [pc EXCEPT ![t] = "set"]
  BY DEF Insert
<1>4. \A q \in Paths : \A i \in Records : copies'[q][i] >= copies[q][i]
  <2>1. ASSUME NEW q \in Paths, NEW i \in Records
        PROVE  copies'[q][i] >= copies[q][i]
    <3>1. copies[q] \in [Records -> Nat] /\ copies[q][i] \in Nat
      BY DEF TypeOK, StoreOK
    <3>2. CASE q = p
      <4>1. copies'[q][i] = IF i \in Filtered(t) THEN copies[q][i] + 1 ELSE copies[q][i]
        BY <1>2, <3>2 DEF Insert, TypeOK, StoreOK
      <4> QED
        BY <3>1, <4>1
    <3>3. CASE q # p
      BY <3>1, <3>3 DEF Insert, TypeOK, StoreOK
    <3> QED
      BY <3>2, <3>3
  <2> QED
    BY <2>1
<1>5. ASSUME NEW q \in Paths, NEW n \in 0..MaxRecords, Covered(q, n)
      PROVE  Covered(q, n)'
  <2>1. \A i \in 1..n : i \in Records
    BY Bounds
  <2>2. \A i \in Records : copies'[q][i] \in Nat /\ copies[q][i] \in Nat
    <3>1. StoreOK'
      BY StoreStep DEF Next, ThreadStep, TypeOK
    <3> QED
      BY <3>1 DEF StoreOK, TypeOK
  <2> QED
    BY <1>4, <1>5, <2>1, <2>2 DEF Covered
<1>6. Covered(p, job[t].to)'
  <2>1. Covered(p, job[t].from)
    <3>1. job[t].from = mem[p]
      BY <1>1 DEF JobInv
    <3> QED
      BY <1>2, <3>1 DEF OffsetsCovered
  <2>2. ASSUME NEW i \in 1..job[t].to, i \notin Oversized
        PROVE  copies'[p][i] >= 1
    <3>1. i \in Records /\ copies[p][i] \in Nat
      BY <1>2, Bounds DEF TypeOK, StoreOK
    <3>2. CASE i <= job[t].from
      <4>1. copies[p][i] >= 1
        BY <1>2, <2>1, <2>2, <3>2, <3>1 DEF Covered
      <4>2. copies'[p][i] \in Nat
        <5>1. StoreOK'
          BY StoreStep DEF Next, ThreadStep, TypeOK
        <5> QED
          BY <1>2, <3>1, <5>1 DEF StoreOK
      <4> QED
        BY <1>2, <1>4, <3>1, <4>1, <4>2
    <3>3. CASE ~(i <= job[t].from)
      <4>1. i \in Filtered(t)
        BY <1>2, <2>2, <3>1, <3>3 DEF Filtered, Batch
      <4>2. copies'[p][i] = copies[p][i] + 1
        BY <1>2, <3>1, <4>1 DEF Insert, TypeOK, StoreOK
      <4> QED
        BY <3>1, <4>2
    <3> QED
      BY <3>2, <3>3
  <2> QED
    BY <1>1, <2>2 DEF Covered
<1>7. LockInv'
  BY <1>1, <1>3 DEF LockInv, TypeOK, JobsOK
<1>8. JobInv'
  <2>1. ASSUME NEW u \in Threads, pc'[u] \in {"insert", "set"}
        PROVE  /\ job[u].from = mem[job[u].path]
               /\ job[u].from < job[u].to /\ job[u].to <= written[job[u].path]
               /\ pc'[u] = "set" => Covered(job[u].path, job[u].to)'
    <3>1. CASE u = t
      BY <3>1, <1>1, <1>6 DEF JobInv
    <3>2. CASE u # t
      <4>1. pc'[u] = pc[u]
        BY <3>2, <1>3 DEF TypeOK, JobsOK
      <4>2. job[u].path \in Paths /\ job[u].to \in 0..MaxRecords
        BY <2>1, <4>1 DEF TypeOK, JobsOK, Idle
      <4> QED
        <5>1. /\ job[u].from = mem[job[u].path]
              /\ job[u].from < job[u].to /\ job[u].to <= written[job[u].path]
              /\ pc[u] = "set" => Covered(job[u].path, job[u].to)
          BY <2>1, <4>1 DEF JobInv
        <5>2. pc[u] = "set" => Covered(job[u].path, job[u].to)'
          BY <1>1, <4>2, <5>1, <1>5 DEF Covered
        <5> QED
          BY <4>1, <5>1, <5>2
    <3> QED
      BY <3>1, <3>2
  <2> QED
    BY <1>1, <2>1 DEF JobInv
<1>9. OrderInv'
  BY <1>1 DEF OrderInv
<1>10. OffsetsCovered'
  <2>1. \A q \in Paths : disk[q] \in 0..MaxRecords /\ mem[q] \in 0..MaxRecords
    BY DEF TypeOK, FilesOK
  <2>2. \A q \in Paths : Covered(q, disk[q])' /\ Covered(q, mem[q])'
    BY <1>1, <1>5, <2>1 DEF OffsetsCovered, Covered
  <2> QED
    BY <2>2 DEF OffsetsCovered
<1> QED
  BY <1>7, <1>8, <1>9, <1>10

LEMMA SetKeeps ==
  ASSUME IInv, NEW t \in Threads, SetOffset(t)
  PROVE  OffsetsInv' /\ \A q \in Paths : mem'[q] >= mem[q]
<1> DEFINE p == job[t].path
<1> USE DEF IInv, OffsetsInv
<1>1. UNCHANGED <<written, disk, job, copies>> /\ pc[t] = "set"
  BY DEF SetOffset, fsVars, storeVars
<1>2. p \in Paths /\ job[t].from \in Nat /\ job[t].to \in 0..MaxRecords
  BY <1>1 DEF TypeOK, JobsOK, Idle
<1>3. pc' = [pc EXCEPT ![t] = "save"] /\ mem' = [mem EXCEPT ![p] = job[t].to]
  BY DEF SetOffset
<1>4. /\ mem[p] < job[t].to /\ job[t].to <= written[p]
      /\ Covered(p, job[t].to)
  BY <1>1 DEF JobInv
<1>5. LockInv'
  BY <1>1, <1>3 DEF LockInv, TypeOK, JobsOK
<1>6. JobInv'
  <2>1. ASSUME NEW u \in Threads, pc'[u] \in {"insert", "set"}
        PROVE  pc'[u] = pc[u] /\ job[u].path # p
    <3>1. u # t /\ pc'[u] = pc[u]
      BY <1>3, <2>1 DEF TypeOK, JobsOK
    <3> QED
      BY <1>1, <2>1, <3>1 DEF LockInv
  <2>2. ASSUME NEW u \in Threads, pc'[u] \in {"insert", "set"}
        PROVE  mem'[job[u].path] = mem[job[u].path]
    BY <2>1, <2>2, <1>3 DEF TypeOK, FilesOK, JobsOK, Idle
  <2> QED
    BY <1>1, <2>1, <2>2 DEF JobInv, Covered
<1>7. \A q \in Paths : mem'[q] = IF q = p THEN job[t].to ELSE mem[q]
  BY <1>3 DEF TypeOK, FilesOK
<1>8. OrderInv'
  BY <1>1, <1>2, <1>4, <1>7 DEF OrderInv, TypeOK, FilesOK
<1>9. OffsetsCovered'
  BY <1>1, <1>4, <1>7 DEF OffsetsCovered, Covered
<1>10. \A q \in Paths : mem'[q] >= mem[q]
  BY <1>2, <1>4, <1>7 DEF TypeOK, FilesOK
<1> QED
  BY <1>5, <1>6, <1>8, <1>9, <1>10

LEMMA DieKeeps ==
  ASSUME IInv, Die
  PROVE  OffsetsInv'
<1> USE DEF IInv, OffsetsInv, Die, fsVars
<1>1. LockInv' /\ JobInv'
  BY DEF LockInv, JobInv
<1>2. OrderInv'
  BY DEF OrderInv, TypeOK, FilesOK
<1>3. OffsetsCovered'
  BY DEF OffsetsCovered, Covered
<1> QED
  BY <1>1, <1>2, <1>3

\* The invariant that carries the offsets through every step.
LEMMA OffsetsStep ==
  ASSUME IInv, [Next]_vars
  PROVE  OffsetsInv'
<1> DEFINE Stays == /\ \A t \in Threads :
                         pc'[t] \in Holding => pc'[t] = pc[t] /\ job'[t] = job[t]
                    /\ UNCHANGED <<written, mem, copies>>
                    /\ disk' = disk \/ disk' = mem
<1> USE DEF fsVars, jobVars, stateVars, storeVars
<1>1. CASE Stays
  BY <1>1, LeaveKeeps
<1>2. ASSUME NEW t \in Threads, Finish(t)
      PROVE  \A u \in Threads : pc'[u] \in Holding => pc'[u] = pc[u] /\ job'[u] = job[u]
  BY <1>2 DEF Finish, IInv, TypeOK, JobsOK
<1>3. ASSUME NEW p \in Paths, MakeDir(p) \/ OnMakeDir(p) \/ LoseEvent(p)
      PROVE  OffsetsInv'
  BY <1>1, <1>3 DEF MakeDir, OnMakeDir, LoseEvent
<1>4. ASSUME NEW p \in Paths, OnWrite(p)
      PROVE  OffsetsInv'
  <2>1. \A t \in Threads : pc'[t] \in Holding => pc'[t] = pc[t] /\ job'[t] = job[t]
    BY <1>4 DEF OnWrite
  <2> QED
    BY <1>1, <1>4, <2>1 DEF OnWrite
<1>5. ASSUME NEW p \in Paths, ScanFile(p)
      PROVE  OffsetsInv'
  <2>1. \A t \in Threads : pc'[t] \in Holding => pc'[t] = pc[t] /\ job'[t] = job[t]
    BY <1>5 DEF ScanFile, IInv, TypeOK, JobsOK
  <2> QED
    BY <1>1, <1>5, <2>1 DEF ScanFile
<1>6. ASSUME NEW t \in Threads, ThreadStep(t)
      PROVE  OffsetsInv'
  <2>1. CASE Fire(t) \/ Unregister(t)
    <3>1. \A u \in Threads : pc'[u] \in Holding => pc'[u] = pc[u] /\ job'[u] = job[u]
      BY <2>1 DEF Fire, Unregister, IInv, TypeOK, JobsOK
    <3> QED
      BY <1>1, <2>1, <3>1 DEF Fire, Unregister
  <2>2. CASE SaveOffset(t)
    BY <1>1, <1>2, <2>2 DEF SaveOffset, Save
  <2> QED
    BY <1>6, <2>1, <2>2, ParseKeeps, InsertKeeps, SetKeeps DEF ThreadStep
<1>7. ASSUME NEW t \in Threads, ParseFails(t) \/ InsertFails(t) \/ SaveFails(t)
      PROVE  OffsetsInv'
  BY <1>1, <1>2, <1>7 DEF ParseFails, InsertFails, SaveFails
<1>8. ASSUME NEW t \in Slots, FlushStop(t)
      PROVE  OffsetsInv'
  BY <1>1, <1>2, <1>8 DEF FlushStop
<1>9. CASE AddRoot \/ BeginScan \/ EndScan \/ FlushTake \/ Drained \/ CloseStore \/ Cancel
  BY <1>1, <1>9 DEF AddRoot, BeginScan, EndScan, FlushTake, Drained, CloseStore, Cancel
<1>10. CASE FlushSave
  BY <1>1, <1>10 DEF FlushSave, Save
<1>11. CASE Boot
  BY <1>1, <1>11 DEF Boot, IInv, DownInv
<1>12. CASE UNCHANGED vars
  BY <1>1, <1>12 DEF vars
<1> QED
  BY <1>3, <1>4, <1>5, <1>6, <1>7, <1>8, <1>9, <1>10, <1>11, <1>12, AppendKeeps, DieKeeps
     DEF Next, RunStep, Exit, Crash

\* A stopped daemon has no thread, and its memory counts as what it would load.
LEMMA DownStep ==
  ASSUME TypeOK, DownInv, [Next]_vars
  PROVE  DownInv'
<1> USE DEF DownInv, runVars, jobVars, stateVars
<1>1. CASE phase' # "down"
  BY <1>1
<1>2. CASE Die
  BY <1>2 DEF Die, Idle
<1>3. ASSUME phase' = "down", UNCHANGED <<phase, mem, disk, pc>>
      PROVE  DownInv'
  BY <1>3 DEF Idle
<1>4. ASSUME NEW p \in Paths, OnWrite(p) \/ ScanFile(p)
      PROVE  DownInv'
  BY <1>1, <1>4 DEF OnWrite, ScanFile
<1>5. ASSUME NEW p \in Paths, Append1(p) \/ MakeDir(p) \/ OnMakeDir(p) \/ LoseEvent(p)
      PROVE  DownInv'
  BY <1>1, <1>3, <1>5 DEF Append1, MakeDir, OnMakeDir, LoseEvent
<1>6. ASSUME NEW t \in Threads,
             ThreadStep(t) \/ ParseFails(t) \/ InsertFails(t) \/ SaveFails(t)
      PROVE  DownInv'
  <2>1. ~Idle(t) /\ UNCHANGED phase
    BY <1>6 DEF ThreadStep, ParseFails, InsertFails, SaveFails, Fire, Unregister, Parse,
                Insert, SetOffset, SaveOffset, Idle
  <2> QED
    BY <1>1, <2>1
<1>7. CASE \E t \in Slots : FlushStop(t)
  BY <1>1, <1>7 DEF FlushStop
<1>8. CASE AddRoot \/ BeginScan \/ EndScan \/ FlushTake \/ Drained \/ CloseStore \/ Cancel
  BY <1>1, <1>8 DEF AddRoot, BeginScan, EndScan, FlushTake, Drained, CloseStore, Cancel
<1>9. CASE FlushSave \/ Boot
  BY <1>1, <1>9 DEF FlushSave, Boot
<1>10. CASE UNCHANGED vars
  BY <1>1, <1>3, <1>10 DEF vars
<1> QED
  BY <1>2, <1>4, <1>5, <1>6, <1>7, <1>8, <1>9, <1>10 DEF Next, RunStep, Exit, Crash

LEMMA IInvInit == Init => IInv
<1> SUFFICES ASSUME Init PROVE IInv
  OBVIOUS
<1>1. LockInv /\ JobInv /\ DownInv
  BY DEF Init, LockInv, JobInv, DownInv, Idle
<1>2. OrderInv /\ OffsetsCovered
  BY DEF Init, OrderInv, OffsetsCovered, Covered
<1> QED
  BY <1>1, <1>2, TypeInit DEF IInv, OffsetsInv

LEMMA IInvStep ==
  ASSUME IInv, [Next]_vars
  PROVE  IInv'
BY TypeStep, OffsetsStep, DownStep DEF IInv

\* No offset, in memory or in state.json, ever passes a record that is not in
\* the store: whatever the interleaving of parses, saves, failures, stops and
\* crashes, a restart resumes at or before the first record not yet stored.
THEOREM NothingSkipped == Spec => []OffsetsCovered
<1>1. IInv => OffsetsCovered
  BY DEF IInv, OffsetsInv
<1>2. IInv /\ [Next]_vars => IInv'
  BY IInvStep
<1> QED
  BY IInvInit, <1>1, <1>2, PTL DEF Spec

\* A saved offset never moves back, and one in memory never does while the
\* process lives.
THEOREM OffsetsMonotone == Spec => OffsetsNeverRegress
<1> DEFINE Forward == \A p \in Paths : /\ disk'[p] >= disk[p]
                                       /\ phase' # "down" => mem'[p] >= mem[p]
<1>1. ASSUME IInv, [Next]_vars
      PROVE  Forward
  <2> USE DEF fsVars, stateVars, runVars, storeVars
  <2>0. \A p \in Paths : /\ disk[p] \in Nat /\ mem[p] \in Nat /\ written[p] \in Nat
                         /\ mem[p] >= disk[p]
    BY <1>1 DEF IInv, OffsetsInv, OrderInv, TypeOK, FilesOK
  <2>1. CASE UNCHANGED mem /\ (disk' = disk \/ disk' = mem)
    BY <2>0, <2>1
  <2>2. CASE mem' = disk /\ disk' = disk /\ phase' = "down"
    BY <2>0, <2>2
  <2>3. ASSUME NEW t \in Threads, SetOffset(t)
        PROVE  Forward
    <3>1. disk' = disk /\ \A q \in Paths : mem'[q] >= mem[q]
      BY <1>1, <2>3, SetKeeps DEF SetOffset
    <3> QED
      BY <2>0, <3>1
  <2>4. ASSUME NEW t \in Threads, ThreadStep(t)
        PROVE  Forward
    BY <2>1, <2>3, <2>4 DEF ThreadStep, Fire, Unregister, Parse, Insert, SaveOffset, Save
  <2>5. ASSUME NEW t \in Threads, ParseFails(t) \/ InsertFails(t) \/ SaveFails(t)
        PROVE  Forward
    BY <2>1, <2>5 DEF ParseFails, InsertFails, SaveFails
  <2>6. ASSUME NEW p \in Paths, \/ Append1(p) \/ MakeDir(p) \/ OnMakeDir(p)
                                \/ LoseEvent(p) \/ OnWrite(p) \/ ScanFile(p)
        PROVE  Forward
    BY <2>1, <2>6 DEF Append1, MakeDir, OnMakeDir, LoseEvent, OnWrite, ScanFile
  <2>7. CASE \/ AddRoot \/ BeginScan \/ EndScan \/ FlushTake \/ FlushSave \/ Drained
             \/ CloseStore \/ Cancel \/ \E t \in Slots : FlushStop(t)
    BY <2>1, <2>7 DEF AddRoot, BeginScan, EndScan, FlushTake, FlushSave, Save, Drained,
                      CloseStore, Cancel, FlushStop
  <2>8. CASE Boot
    BY <1>1, <2>1, <2>8 DEF Boot, IInv, DownInv
  <2>9. CASE Exit \/ Crash
    BY <2>2, <2>9 DEF Exit, Crash, Die
  <2>10. CASE UNCHANGED vars
    BY <2>1, <2>10 DEF vars
  <2> QED
    BY <1>1, <2>4, <2>5, <2>6, <2>7, <2>8, <2>9, <2>10 DEF Next, RunStep
<1>2. IInv /\ [Next]_vars => IInv'
  BY IInvStep
<1>3. IInv /\ [Next]_vars => [Forward]_vars
  BY <1>1
<1> QED
  BY IInvInit, <1>2, <1>3, PTL DEF Spec, OffsetsNeverRegress

---------------------------------------------------------------------------
(* Refinement of TailLog *)

LEMMA TailInit == Init => Log!Init
BY DEF Init, Log!Init, Log!Records

\* A parse that commits delivers: it starts at an offset that is covered and
\* at or after the saved one, and ends within the file.
LEMMA InsertDelivers ==
  ASSUME IInv, NEW t \in Threads, Insert(t)
  PROVE  Log!Next
<1> DEFINE p == job[t].path
<1>1. pc[t] = "insert" /\ UNCHANGED <<written, disk>>
  BY DEF Insert, fsVars, stateVars
<1>2. p \in Paths /\ job[t].from \in 0..MaxRecords /\ job[t].to \in 0..MaxRecords
  BY <1>1 DEF IInv, TypeOK, JobsOK, Idle
<1>3. job[t].from = mem[p] /\ job[t].from < job[t].to /\ job[t].to <= written[p]
  BY <1>1 DEF IInv, OffsetsInv, JobInv
<1>4. disk[p] <= mem[p] /\ disk[p] \in Nat /\ written[p] \in Nat
  BY <1>2 DEF IInv, OffsetsInv, OrderInv, TypeOK, FilesOK
<1>5. job[t].from \in disk[p]..written[p] /\ job[t].to \in job[t].from..written[p]
  BY <1>2, <1>3, <1>4, Bounds
<1>6. Log!Covered(p, job[t].from)
  BY <1>2, <1>3 DEF IInv, OffsetsInv, OffsetsCovered, Covered, Log!Covered
<1>7. copies' = [copies EXCEPT ![p] =
                   [i \in Records |-> IF i \in ((job[t].from + 1)..job[t].to) \ Oversized
                                        THEN @[i] + 1 ELSE @[i]]]
  BY DEF Insert, Filtered, Batch
<1>8. Log!Deliver(p)
  <2> HIDE DEF p
  <2> QED
    BY <1>1, <1>5, <1>6, <1>7 DEF Log!Deliver, Log!Records
<1> QED
  BY <1>2, <1>8 DEF Log!Next

\* A save moves the mark to the offsets in memory, all of them covered.
LEMMA SaveCheckpoints ==
  ASSUME IInv, UNCHANGED <<written, copies>>, disk' = mem
  PROVE  Log!Next
<1>1. \A p \in Paths : disk'[p] >= disk[p]
  BY DEF IInv, OffsetsInv, OrderInv, TypeOK, FilesOK
<1>2. \A p \in Paths : Log!Covered(p, disk'[p])
  BY DEF IInv, OffsetsInv, OffsetsCovered, Covered, Log!Covered
<1> QED
  BY <1>1, <1>2 DEF Log!Next, Log!Checkpoint

LEMMA TailStep ==
  ASSUME IInv, [Next]_vars
  PROVE  [Log!Next]_(Log!vars)
<1> USE DEF Log!vars, fsVars, stateVars, storeVars
<1>1. CASE UNCHANGED <<written, copies, disk>>
  BY <1>1
<1>2. CASE UNCHANGED <<written, copies>> /\ disk' = mem
  BY <1>2, SaveCheckpoints
<1>3. ASSUME NEW p \in Paths, Append1(p)
      PROVE  Log!Next
  BY <1>3 DEF Append1, Log!Write, Log!Next
<1>4. ASSUME NEW p \in Paths, \/ MakeDir(p) \/ OnMakeDir(p) \/ LoseEvent(p)
                              \/ OnWrite(p) \/ ScanFile(p)
      PROVE  [Log!Next]_(Log!vars)
  BY <1>1, <1>4 DEF MakeDir, OnMakeDir, LoseEvent, OnWrite, ScanFile
<1>5. ASSUME NEW t \in Threads, ThreadStep(t)
      PROVE  [Log!Next]_(Log!vars)
  <2>1. CASE Fire(t) \/ Unregister(t) \/ Parse(t) \/ SetOffset(t)
    BY <1>1, <2>1 DEF Fire, Unregister, Parse, SetOffset
  <2>2. CASE SaveOffset(t)
    BY <1>1, <1>2, <2>2 DEF SaveOffset, Save
  <2> QED
    BY <1>5, <2>1, <2>2, InsertDelivers DEF ThreadStep
<1>6. ASSUME NEW t \in Threads, ParseFails(t) \/ InsertFails(t) \/ SaveFails(t)
      PROVE  [Log!Next]_(Log!vars)
  BY <1>1, <1>6 DEF ParseFails, InsertFails, SaveFails
<1>7. CASE \/ AddRoot \/ BeginScan \/ EndScan \/ FlushTake \/ Drained \/ CloseStore
           \/ Cancel \/ Boot \/ \E t \in Slots : FlushStop(t)
  BY <1>1, <1>7 DEF AddRoot, BeginScan, EndScan, FlushTake, Drained, CloseStore, Cancel,
                    Boot, FlushStop
<1>8. CASE FlushSave
  BY <1>1, <1>2, <1>8 DEF FlushSave, Save
<1>9. CASE Exit \/ Crash
  BY <1>1, <1>9 DEF Exit, Crash, Die
<1>10. CASE UNCHANGED vars
  BY <1>1, <1>10 DEF vars
<1> QED
  BY <1>3, <1>4, <1>5, <1>6, <1>7, <1>8, <1>9, <1>10 DEF Next, RunStep

\* Capture is an at-least-once tail of every file: with state.json as the
\* durable mark, each of its steps is a step of TailLog or changes nothing
\* that TailLog sees.
THEOREM CaptureIsTail == Spec => TailSpec
<1>1. IInv /\ [Next]_vars => IInv'
  BY IInvStep
<1>2. IInv /\ [Next]_vars => [Log!Next]_(Log!vars)
  BY TailStep
<1> QED
  BY IInvInit, TailInit, <1>1, <1>2, PTL DEF Spec, TailSpec, Log!Spec
---------------------------------------------------------------------------
(* Rows and saves *)

\* Record i of p is in a batch that is committed and not yet recorded.
InBatch(p, i) == \E t \in Threads : pc[t] = "set" /\ job[t].path = p /\ i <= job[t].to

\* A record is stored once more than there were lapses only if the offset in
\* memory, or a batch about to move it, has passed it.
RowsInv ==
  \A p \in Paths : \A i \in Records :
    /\ copies[p][i] <= 1 + lapses
    /\ i <= mem[p] \/ InBatch(p, i) \/ copies[p][i] <= lapses

\* Clean means saved, and without failures whoever made the state dirty has
\* yet to save it.
SaveInv ==
  /\ dirty \/ disk = mem
  /\ (faults = 0 /\ dirty) => \E t \in Threads : pc[t] = "save"

\* The batches of a stopped process are gone.
LEMMA NoBatch ==
  ASSUME \A t \in Threads : Idle(t)
  PROVE  \A p \in Paths, i \in Records : ~InBatch(p, i)
BY DEF InBatch, Idle

\* Steps that commit nothing and record no offset.
LEMMA QuietRows ==
  ASSUME RowsInv, UNCHANGED <<mem, copies, lapses>>,
         \A t \in Threads : pc[t] = "set" => pc'[t] = "set" /\ job'[t] = job[t]
  PROVE  RowsInv'
<1>1. \A p \in Paths, i \in Records : InBatch(p, i) => InBatch(p, i)'
  BY DEF InBatch
<1> QED
  BY <1>1 DEF RowsInv

LEMMA InsertRows ==
  ASSUME IInv, RowsInv, NEW t \in Threads, Insert(t)
  PROVE  RowsInv'
<1> DEFINE p == job[t].path
<1>1. UNCHANGED <<mem, job, lapses>> /\ pc[t] = "insert" /\ pc' = [pc EXCEPT ![t] = "set"]
  BY DEF Insert, stateVars, boundVars
<1>2. p \in Paths /\ job[t].from \in Nat /\ job[t].to \in Nat
  BY <1>1 DEF IInv, TypeOK, JobsOK, Idle
<1>3. job[t].from = mem[p]
  BY <1>1 DEF IInv, OffsetsInv, JobInv
<1>4. \A q \in Paths, i \in Records : InBatch(q, i) => InBatch(q, i)'
  BY <1>1 DEF InBatch, IInv, TypeOK, JobsOK
<1>5. ASSUME NEW i \in Records
      PROVE  ~InBatch(p, i)
  BY <1>1 DEF InBatch, IInv, OffsetsInv, LockInv
<1>6. ASSUME NEW q \in Paths, NEW i \in Records
      PROVE  /\ copies'[q][i] <= 1 + lapses'
             /\ i <= mem'[q] \/ InBatch(q, i)' \/ copies'[q][i] <= lapses'
  <2>1. copies[q][i] \in Nat /\ lapses \in Nat /\ mem[q] \in Nat
    <3>1. copies[q] \in [Records -> Nat] /\ lapses \in Nat
      BY DEF IInv, TypeOK, StoreOK, BoundsOK
    <3>2. mem[q] \in Nat
      BY DEF IInv, TypeOK, FilesOK
    <3> QED
      BY <3>1, <3>2
  <2>2. /\ copies[q][i] <= 1 + lapses
        /\ i <= mem[q] \/ InBatch(q, i) \/ copies[q][i] <= lapses
    BY DEF RowsInv
  <2>3. CASE q = p /\ i \in Filtered(t)
    <3>1. copies'[q][i] = copies[q][i] + 1
      BY <1>2, <2>3 DEF Insert, IInv, TypeOK, StoreOK
    <3>2. i > mem[q] /\ i <= job[t].to
      BY <1>2, <1>3, <2>3 DEF Filtered, Batch
    <3>3. copies[q][i] <= lapses
      BY <1>5, <2>1, <2>2, <2>3, <3>2
    <3>4. InBatch(q, i)'
      BY <1>1, <2>3, <3>2 DEF InBatch, IInv, TypeOK, JobsOK
    <3> QED
      BY <1>1, <2>1, <3>1, <3>3, <3>4
  <2>4. CASE ~(q = p /\ i \in Filtered(t))
    <3>1. copies'[q][i] = copies[q][i]
      BY <1>2, <2>4 DEF Insert, IInv, TypeOK, StoreOK
    <3> QED
      BY <1>1, <1>4, <2>2, <3>1
  <2> QED
    BY <2>3, <2>4
<1> QED
  BY <1>6 DEF RowsInv

LEMMA SetRows ==
  ASSUME IInv, RowsInv, NEW t \in Threads, SetOffset(t)
  PROVE  RowsInv'
<1> DEFINE p == job[t].path
<1>1. /\ UNCHANGED <<job, copies, lapses>> /\ pc[t] = "set"
      /\ pc' = [pc EXCEPT ![t] = "save"] /\ mem' = [mem EXCEPT ![p] = job[t].to]
  BY DEF SetOffset, storeVars, boundVars
<1>2. p \in Paths /\ job[t].to \in Nat
  BY <1>1 DEF IInv, TypeOK, JobsOK, Idle
<1>3. mem[p] < job[t].to
  BY <1>1 DEF IInv, OffsetsInv, JobInv
<1>4. \A u \in Threads : pc[u] = "set" /\ job[u].path = p => u = t
  BY <1>1 DEF IInv, OffsetsInv, LockInv
<1>5. ASSUME NEW q \in Paths, NEW i \in Records, i <= mem[q] \/ InBatch(q, i)
      PROVE  i <= mem'[q] \/ InBatch(q, i)'
  <2>1. mem[q] \in Nat
    BY DEF IInv, TypeOK, FilesOK
  <2>2. CASE q = p
    <3>1. mem'[q] = job[t].to
      BY <1>1, <2>2 DEF IInv, TypeOK, FilesOK
    <3> QED
      BY <1>2, <1>3, <1>4, <1>5, <2>1, <2>2, <3>1 DEF InBatch
  <2>3. CASE q # p
    <3>1. mem'[q] = mem[q]
      BY <1>1, <2>3 DEF IInv, TypeOK, FilesOK
    <3>2. InBatch(q, i) => InBatch(q, i)'
      BY <1>1, <2>3 DEF InBatch, IInv, TypeOK, JobsOK
    <3> QED
      BY <1>5, <3>1, <3>2
  <2> QED
    BY <2>2, <2>3
<1> QED
  BY <1>1, <1>5 DEF RowsInv

\* A process that ends leaves the rows in order: with state.json behind it is
\* one lapse more, and otherwise it loses no offset.
LEMMA DieRows ==
  ASSUME IInv, RowsInv, Die,
         lapses' = lapses + 1 \/ (lapses' = lapses /\ disk = mem /\ \A t \in Threads : Idle(t))
  PROVE  RowsInv'
<1>1. mem' = disk /\ copies' = copies
  BY DEF Die
<1>2. CASE lapses' = lapses + 1
  <2>1. \A p \in Paths, i \in Records : copies[p][i] \in Nat /\ lapses \in Nat
    BY DEF IInv, TypeOK, StoreOK, BoundsOK
  <2> QED
    BY <1>1, <1>2, <2>1 DEF RowsInv
<1>3. CASE lapses' = lapses /\ disk = mem /\ \A t \in Threads : Idle(t)
  BY <1>1, <1>3, NoBatch DEF RowsInv
<1> QED
  BY <1>2, <1>3

LEMMA RowsStep ==
  ASSUME IInv, Drained0, RowsInv, [Next]_vars
  PROVE  RowsInv'
<1> DEFINE Quiet == /\ UNCHANGED <<mem, copies, lapses>>
                    /\ \A t \in Threads :
                         pc[t] = "set" => pc'[t] = "set" /\ job'[t] = job[t]
<1> USE DEF jobVars, stateVars, storeVars, boundVars
<1>1. CASE Quiet
  BY <1>1, QuietRows
<1>2. ASSUME NEW t \in Threads, Finish(t), pc[t] # "set"
      PROVE  \A u \in Threads : pc[u] = "set" => pc'[u] = "set" /\ job'[u] = job[u]
  BY <1>2 DEF Finish, IInv, TypeOK, JobsOK
<1>3. ASSUME NEW p \in Paths, Append1(p) \/ MakeDir(p) \/ OnMakeDir(p) \/ LoseEvent(p)
      PROVE  RowsInv'
  BY <1>1, <1>3 DEF Append1, MakeDir, OnMakeDir, LoseEvent
<1>4. ASSUME NEW p \in Paths, OnWrite(p)
      PROVE  RowsInv'
  <2>1. \A t \in Threads : pc[t] = "set" => pc'[t] = "set" /\ job'[t] = job[t]
    BY <1>4 DEF OnWrite, Idle
  <2> QED
    BY <1>1, <1>4, <2>1 DEF OnWrite
<1>5. ASSUME NEW p \in Paths, ScanFile(p)
      PROVE  RowsInv'
  <2>1. \A t \in Threads : pc[t] = "set" => pc'[t] = "set" /\ job'[t] = job[t]
    BY <1>5 DEF ScanFile, Idle, IInv, TypeOK, JobsOK
  <2> QED
    BY <1>1, <1>5, <2>1 DEF ScanFile
<1>6. ASSUME NEW t \in Threads, ThreadStep(t)
      PROVE  RowsInv'
  <2>1. CASE Fire(t) \/ Unregister(t)
    <3>1. \A u \in Threads : pc[u] = "set" => pc'[u] = "set" /\ job'[u] = job[u]
      BY <2>1 DEF Fire, Unregister, IInv, TypeOK, JobsOK
    <3> QED
      BY <1>1, <2>1, <3>1 DEF Fire, Unregister
  <2>2. CASE Parse(t)
    <3>1. CASE Finish(t)
      BY <1>1, <1>2, <2>2, <3>1 DEF Parse
    <3>2. CASE ~Finish(t)
      <4>1. \A u \in Threads : pc[u] = "set" => pc'[u] = "set" /\ job'[u] = job[u]
        BY <2>2, <3>2 DEF Parse, IInv, TypeOK, JobsOK
      <4> QED
        BY <1>1, <2>2, <4>1 DEF Parse
    <3> QED
      BY <3>1, <3>2
  <2>3. CASE SaveOffset(t)
    BY <1>1, <1>2, <2>3 DEF SaveOffset
  <2> QED
    BY <1>6, <2>1, <2>2, <2>3, InsertRows, SetRows DEF ThreadStep
<1>7. ASSUME NEW t \in Threads, ParseFails(t) \/ InsertFails(t) \/ SaveFails(t)
      PROVE  RowsInv'
  BY <1>1, <1>2, <1>7 DEF ParseFails, InsertFails, SaveFails
<1>8. ASSUME NEW t \in Slots, FlushStop(t)
      PROVE  RowsInv'
  BY <1>1, <1>2, <1>8 DEF FlushStop
<1>9. CASE \/ AddRoot \/ BeginScan \/ EndScan \/ FlushTake \/ FlushSave \/ Drained
           \/ CloseStore \/ Cancel
  BY <1>1, <1>9 DEF AddRoot, BeginScan, EndScan, FlushTake, FlushSave, Drained,
                    CloseStore, Cancel
<1>10. CASE Boot
  BY <1>1, <1>10 DEF Boot, IInv, DownInv
<1>11. CASE Exit
  <2>1. \A t \in Threads : Idle(t)
    BY <1>11, NoneBusy DEF Exit, Drained0, IInv
  <2> QED
    BY <1>11, <2>1, DieRows DEF Exit
<1>12. CASE Crash
  BY <1>12, DieRows DEF Crash
<1>13. CASE UNCHANGED vars
  BY <1>1, <1>13 DEF vars
<1> QED
  BY <1>3, <1>4, <1>5, <1>6, <1>7, <1>8, <1>9, <1>10, <1>11, <1>12, <1>13
     DEF Next, RunStep

\* Steps that save nothing, change no offset and end no save.
LEMMA QuietSaves ==
  ASSUME BoundsOK, SaveInv, UNCHANGED <<mem, disk, dirty>>,
         faults' = faults \/ faults' = faults + 1,
         \A t \in Threads : pc[t] = "save" => pc'[t] = "save"
  PROVE  SaveInv'
BY DEF SaveInv, BoundsOK

LEMMA SaveStep ==
  ASSUME TypeOK, DownInv, SaveInv, [Next]_vars
  PROVE  SaveInv'
<1> DEFINE Quiet == /\ UNCHANGED <<mem, disk, dirty>>
                    /\ faults' = faults \/ faults' = faults + 1
                    /\ \A t \in Threads : pc[t] = "save" => pc'[t] = "save"
<1> USE DEF jobVars, stateVars, storeVars, boundVars
<1>1. CASE Quiet
  BY <1>1, QuietSaves DEF TypeOK
<1>2. CASE dirty' = FALSE /\ disk' = mem'
  BY <1>2 DEF SaveInv
<1>3. ASSUME NEW t \in Threads, Finish(t), pc[t] # "save"
      PROVE  \A u \in Threads : pc[u] = "save" => pc'[u] = "save"
  BY <1>3 DEF Finish, TypeOK, JobsOK
<1>4. CASE Save /\ mem' = mem
  BY <1>4 DEF Save, SaveInv, TypeOK, FlagsOK
<1>5. ASSUME NEW p \in Paths, Append1(p) \/ MakeDir(p) \/ OnMakeDir(p) \/ LoseEvent(p)
      PROVE  SaveInv'
  BY <1>1, <1>5 DEF Append1, MakeDir, OnMakeDir, LoseEvent, Fault
<1>6. ASSUME NEW p \in Paths, OnWrite(p)
      PROVE  SaveInv'
  <2>1. \A t \in Threads : pc[t] = "save" => pc'[t] = "save"
    BY <1>6 DEF OnWrite, Idle
  <2> QED
    BY <1>1, <1>6, <2>1 DEF OnWrite
<1>7. ASSUME NEW p \in Paths, ScanFile(p)
      PROVE  SaveInv'
  <2>1. \A t \in Threads : pc[t] = "save" => pc'[t] = "save"
    BY <1>7 DEF ScanFile, Idle, TypeOK, JobsOK
  <2> QED
    BY <1>1, <1>7, <2>1 DEF ScanFile
<1>8. ASSUME NEW t \in Threads, ThreadStep(t)
      PROVE  SaveInv'
  <2>1. CASE Fire(t) \/ Unregister(t) \/ Insert(t)
    <3>1. \A u \in Threads : pc[u] = "save" => pc'[u] = "save"
      BY <2>1 DEF Fire, Unregister, Insert, TypeOK, JobsOK
    <3> QED
      BY <1>1, <2>1, <3>1 DEF Fire, Unregister, Insert
  <2>2. CASE Parse(t)
    <3>1. \A u \in Threads : pc[u] = "save" => pc'[u] = "save"
      BY <1>3, <2>2 DEF Parse, TypeOK, JobsOK
    <3> QED
      BY <1>1, <2>2, <3>1 DEF Parse
  <2>3. CASE SetOffset(t)
    <3>1. dirty' = TRUE /\ pc'[t] = "save"
      BY <2>3 DEF SetOffset, TypeOK, JobsOK
    <3> QED
      BY <3>1 DEF SaveInv
  <2>4. CASE SaveOffset(t)
    BY <2>4, <1>2, <1>4 DEF SaveOffset, Save, SaveInv
  <2> QED
    BY <1>8, <2>1, <2>2, <2>3, <2>4 DEF ThreadStep
<1>9. ASSUME NEW t \in Threads, ParseFails(t) \/ InsertFails(t)
      PROVE  SaveInv'
  BY <1>1, <1>3, <1>9 DEF ParseFails, InsertFails, Fault
<1>10. ASSUME NEW t \in Threads, SaveFails(t)
      PROVE  SaveInv'
  BY <1>10 DEF SaveFails, Fault, SaveInv, TypeOK, BoundsOK
<1>11. ASSUME NEW t \in Slots, FlushStop(t)
      PROVE  SaveInv'
  BY <1>1, <1>3, <1>11 DEF FlushStop
<1>12. CASE \/ AddRoot \/ BeginScan \/ EndScan \/ FlushTake \/ Drained
           \/ CloseStore \/ Cancel
  BY <1>1, <1>12 DEF AddRoot, BeginScan, EndScan, FlushTake, Drained, CloseStore, Cancel
<1>13. CASE FlushSave
  <2>1. CASE dirty /\ Fault /\ UNCHANGED <<disk, dirty>>
    BY <1>13, <2>1 DEF FlushSave, Fault, SaveInv, TypeOK, BoundsOK
  <2>2. CASE Save /\ UNCHANGED faults
    BY <1>13, <2>2, <1>2, <1>4 DEF FlushSave, Save, SaveInv
  <2> QED
    BY <1>13, <2>1, <2>2 DEF FlushSave
<1>14. CASE Boot
  BY <1>1, <1>14 DEF Boot, DownInv
<1>15. CASE Exit \/ Crash
  BY <1>2, <1>15 DEF Exit, Crash, Die
<1>16. CASE UNCHANGED vars
  BY <1>1, <1>16 DEF vars
<1> QED
  BY <1>5, <1>6, <1>7, <1>8, <1>9, <1>10, <1>11, <1>12, <1>13, <1>14, <1>15, <1>16
     DEF Next, RunStep

RowsIInv == IInv /\ Drained0 /\ RowsInv /\ SaveInv

LEMMA RowsIInvInit == Init => RowsIInv
<1> SUFFICES ASSUME Init PROVE RowsIInv
  OBVIOUS
<1>1. RowsInv /\ SaveInv /\ Drained0
  BY DEF Init, RowsInv, SaveInv, Drained0
<1> QED
  BY <1>1, IInvInit DEF RowsIInv

LEMMA RowsIInvStep ==
  ASSUME RowsIInv, [Next]_vars
  PROVE  RowsIInv'
BY IInvStep, DrainStep, RowsStep, SaveStep DEF RowsIInv, IInv

\* A record is stored twice only if a process ended with state.json behind
\* the store, and once more for each such end: timers that fire together and
\* a scan that overlaps them never insert the same bytes (parseMu).
THEOREM DuplicatesAreLapses == Spec => []DuplicatesNeedLapse
<1>1. RowsIInv => DuplicatesNeedLapse
  BY DEF RowsIInv, RowsInv, DuplicatesNeedLapse
<1> QED
  BY RowsIInvInit, RowsIInvStep, <1>1, PTL DEF Spec

\* After orderly stops, and without I/O errors, state.json covers every record
\* in the store once main has closed it: whichever parse committed last has
\* saved, because Run waits for it.
THEOREM StopsAreDurable == Spec => []CleanStopIsDurable
<1>1. RowsIInv => CleanStopIsDurable
  <2> SUFFICES ASSUME RowsIInv, phase = "closed", faults = 0, lapses = 0,
                      NEW p \in Paths, NEW i \in Records, copies[p][i] >= 1
               PROVE  i <= disk[p]
    BY DEF CleanStopIsDurable
  <2>1. \A t \in Threads : Idle(t)
    BY NoneBusy DEF RowsIInv, IInv, Drained0
  <2>2. disk = mem
    BY <2>1 DEF RowsIInv, SaveInv, Idle
  <2>3. copies[p][i] \in Nat
    BY DEF RowsIInv, IInv, TypeOK, StoreOK
  <2> QED
    BY <2>1, <2>2, <2>3, NoBatch DEF RowsIInv, RowsInv
<1> QED
  BY RowsIInvInit, RowsIInvStep, <1>1, PTL DEF Spec
=============================================================================
