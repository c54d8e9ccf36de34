---------------------------- MODULE StoreProofs ----------------------------
(***************************************************************************)
(* Proofs about Store, for any number of processes opening, using and      *)
(* leaving one file, any released version the file was made by, any rows   *)
(* in it, and processes of that version still writing to it: from the      *)
(* first Open that got through without an error on, the full-text index    *)
(* and the counters are exact and stay so, unless a row was stored while   *)
(* they waited for a backfill and none made up for it (lapsed).            *)
(***************************************************************************)
EXTENDS Store, FiniteSetTheorems, TLAPS

USE DEF Ids, Engrams, Fts, FtsInsert, FtsDelete, Counts, CountInsert, CountDelete, Goto

---------------------------------------------------------------------------
(* Types *)

LEMMA TypeInit == Init => TypeOK
<1> SUFFICES ASSUME Init PROVE TypeOK
  OBVIOUS
<1> USE StoreAssumption
<1>1. schema \in 0..CountDelete
  BY DEF Init
<1>2. row \in [Ids -> Surfaces \cup {None}] /\ fts \in [Ids -> Surfaces \cup {None}]
  BY DEF Init
<1>3. counted \subseteq Surfaces
  BY DEF Init
<1>4. n \in [Surfaces -> Int]
  <2>1. ASSUME NEW s \in Surfaces
        PROVE  Cardinality({i \in Ids : OldRow[i] = s}) \in Nat
    <3>1. IsFiniteSet(Ids)
      BY FS_Interval
    <3>2. {i \in Ids : OldRow[i] = s} \in SUBSET Ids
      OBVIOUS
    <3> QED
      BY <3>1, <3>2, FS_Subset, FS_CardinalityType
  <2> QED
    BY <2>1 DEF Init
<1>5. pc \in [Procs -> OpenSteps \cup {"open", "down"}] /\ clean \subseteq Procs
  BY DEF Init
<1>6. through \in BOOLEAN /\ lapsed \subseteq Derived
  BY DEF Init
<1>7. opens \in 0..MaxOpens /\ faults \in 0..MaxFaults
  BY DEF Init
<1> QED
  BY <1>1, <1>2, <1>3, <1>4, <1>5, <1>6, <1>7 DEF TypeOK

\* Sets of row ids are finite.
LEMMA IdsFinite == ASSUME NEW S \in SUBSET Ids
                   PROVE  IsFiniteSet(S) /\ Cardinality(S) \in Nat
<1>1. IsFiniteSet(Ids)
  BY StoreAssumption, FS_Interval
<1>2. IsFiniteSet(S)
  BY <1>1, FS_Subset
<1> QED
  BY <1>2, FS_CardinalityType

LEMMA OfFinite == ASSUME NEW s PROVE IsFiniteSet(Of(s)) /\ Cardinality(Of(s)) \in Nat
BY IdsFinite DEF Of

LEMMA AddedFinite ==
  ASSUME NEW batch \in Batches, NEW s
  PROVE  IsFiniteSet(Added(batch, s)) /\ Cardinality(Added(batch, s)) \in Nat
<1>1. PICK k \in 1..MaxBatch : batch \in [1..k -> Surfaces]
  BY DEF Batches
<1>2. IsFiniteSet(1..k) /\ Added(batch, s) \in SUBSET (1..k)
  BY <1>1, FS_Interval DEF Added
<1> QED
  BY <1>2, FS_Subset, FS_CardinalityType

LEMMA InsertType ==
  ASSUME TypeOK, NEW p \in Procs, NEW batch \in Batches, InsertBatch(p, batch)
  PROVE  TypeOK'
<1>1. PICK k \in 1..MaxBatch : batch \in [1..k -> Surfaces]
  BY DEF Batches
<1>2. PICK first \in Ids :
        /\ row' = Put(row, first, batch)
        /\ fts' = IF schema < FtsInsert THEN fts ELSE Put(fts, first, batch)
  BY DEF InsertBatch
<1>3. ASSUME NEW t \in [Ids -> Surfaces \cup {None}]
      PROVE  Put(t, first, batch) \in [Ids -> Surfaces \cup {None}]
  BY <1>1 DEF Put, BatchIds
<1>4. row' \in [Ids -> Surfaces \cup {None}] /\ fts' \in [Ids -> Surfaces \cup {None}]
  BY <1>2, <1>3 DEF TypeOK
<1>5. counted' \subseteq Surfaces
  BY <1>1 DEF InsertBatch, TypeOK
<1>6. n' \in [Surfaces -> Int]
  <2>1. \A s \in Surfaces : Cardinality(Added(batch, s)) \in Nat
    BY AddedFinite
  <2>2. n \in [Surfaces -> Int]
    BY DEF TypeOK
  <2> QED
    BY <2>1, <2>2 DEF InsertBatch
<1> QED
  BY <1>4, <1>5, <1>6 DEF InsertBatch, TypeOK

LEMMA DeleteType ==
  ASSUME TypeOK, NEW gone \in SUBSET Ids, Delete(gone),
         UNCHANGED <<schema, pc, clean, through, lapsed, opens, faults>>
  PROVE  TypeOK'
<1>1. row' \in [Ids -> Surfaces \cup {None}] /\ fts' \in [Ids -> Surfaces \cup {None}]
  BY DEF Delete, TypeOK
<1>2. ASSUME NEW s \in Surfaces
      PROVE  Cardinality(gone \cap Of(s)) \in Nat
  BY IdsFinite DEF Of
<1>3. n' \in [Surfaces -> Int]
  BY <1>2 DEF Delete, TypeOK
<1> QED
  BY <1>1, <1>3 DEF Delete, TypeOK

LEMMA OpenType ==
  ASSUME TypeOK, NEW p \in Procs, BeginOpen(p) \/ OpenStep(p) \/ OpenFails(p) \/ Exit(p)
  PROVE  TypeOK'
<1> USE StoreAssumption DEF TypeOK, OpenSteps
<1>1. CASE BeginOpen(p)
  BY <1>1 DEF BeginOpen, tables
<1>2. CASE ApplySchema(p)
  <2>1. schema' \in 0..CountDelete
    BY <1>2 DEF ApplySchema, CountDelete
  <2>2. pc' \in [Procs -> OpenSteps \cup {"open", "down"}]
    BY <1>2 DEF ApplySchema, Goto
  <2> QED
    BY <1>2, <2>1, <2>2 DEF ApplySchema, tables
<1>3. CASE ProbeFts(p) \/ ProbeRows(p) \/ ProbeCounts(p)
  BY <1>3 DEF ProbeFts, ProbeRows, ProbeCounts, tables
<1>4. CASE BackfillFts(p)
  BY <1>4 DEF BackfillFts
<1>5. CASE BackfillCounts(p)
  <2>1. n' \in [Surfaces -> Int]
    BY <1>5, OfFinite DEF BackfillCounts
  <2>2. through' \in BOOLEAN /\ lapsed' \subseteq Derived
    BY <1>5 DEF BackfillCounts, CountsDone
  <2> QED
    BY <1>5, <2>1, <2>2 DEF BackfillCounts, CountsDone
<1>6. CASE OpenFails(p)
  <2>1. pc' \in [Procs -> OpenSteps \cup {"open", "down"}]
    BY <1>6 DEF OpenFails
  <2>2. faults' \in 0..MaxFaults
    BY <1>6 DEF OpenFails, Fault
  <2> QED
    BY <1>6, <2>1, <2>2 DEF OpenFails, tables
<1>7. CASE Exit(p)
  BY <1>7 DEF Exit, tables
<1> QED
  BY <1>1, <1>2, <1>3, <1>4, <1>5, <1>6, <1>7 DEF OpenStep

LEMMA TypeStep == TypeOK /\ [Next]_vars => TypeOK'
<1> SUFFICES ASSUME TypeOK, [Next]_vars PROVE TypeOK'
  OBVIOUS
<1>1. CASE UNCHANGED vars
  BY <1>1 DEF TypeOK, vars, tables
<1>2. ASSUME NEW p \in Procs, NEW s \in Surfaces, Purge(p, s)
      PROVE  TypeOK'
  <2>1. PICK gone \in SUBSET Of(s) : Delete(gone)
    BY <1>2 DEF Purge
  <2>2. gone \in SUBSET Ids
    BY DEF Of
  <2> QED
    BY <1>2, <2>1, <2>2, DeleteType DEF Purge
<1>3. ASSUME NEW p \in Procs, NEW i \in Ids, DeleteByID(p, i)
      PROVE  TypeOK'
  <2>1. {i} \in SUBSET Ids
    OBVIOUS
  <2> QED
    BY <1>3, <2>1, DeleteType DEF DeleteByID
<1> QED
  BY <1>1, <1>2, <1>3, OpenType, InsertType DEF Next

\* Type correctness, for every version of the file and every failure.
THEOREM TypeCorrect == Spec => []TypeOK
BY TypeInit, TypeStep, PTL DEF Spec

---------------------------------------------------------------------------
(* The order of Open's statements *)

\* What follows the schema finds all of it.
SchemaDone ==
  \A p \in Procs : pc[p] \in OpenSteps \ {"schema"} \/ (p \in clean /\ pc[p] = "open")
                      => schema = CountDelete

OrderInv == TypeOK /\ SchemaDone /\ (through => schema = CountDelete)

LEMMA OrderInit == Init => OrderInv
BY TypeInit, StoreAssumption DEF Init, OrderInv, SchemaDone, OpenSteps

LEMMA OrderStep == OrderInv /\ [Next]_vars => OrderInv'
<1> SUFFICES ASSUME OrderInv, [Next]_vars PROVE OrderInv'
  OBVIOUS
<1> USE StoreAssumption DEF OrderInv, SchemaDone, OpenSteps
<1>1. TypeOK'
  BY TypeStep
<1>2. CASE UNCHANGED <<schema, pc, clean, through>>
  BY <1>1, <1>2
<1>3. ASSUME NEW p \in Procs, BeginOpen(p) \/ Exit(p)
      PROVE  OrderInv'
  BY <1>1, <1>3 DEF BeginOpen, Exit, TypeOK
<1>4. ASSUME NEW p \in Procs, ApplySchema(p)
      PROVE  OrderInv'
  BY <1>1, <1>4 DEF ApplySchema, TypeOK
<1>5. ASSUME NEW p \in Procs,
             ProbeFts(p) \/ ProbeRows(p) \/ BackfillFts(p) \/ ProbeCounts(p) \/ BackfillCounts(p)
      PROVE  OrderInv'
  BY <1>1, <1>5 DEF ProbeFts, ProbeRows, BackfillFts, ProbeCounts, BackfillCounts, CountsDone, TypeOK
<1>6. ASSUME NEW p \in Procs, OpenFails(p)
      PROVE  OrderInv'
  BY <1>1, <1>6 DEF OpenFails, TypeOK
<1> QED
  BY <1>1, <1>2, <1>3, <1>4, <1>5, <1>6
     DEF Next, OpenStep, InsertBatch, Purge, DeleteByID, vars

\* Only the counters' backfill forgets a lapse, and only the counters'.
LEMMA LapseStays ==
  ASSUME [Next]_vars, NEW d, d \in lapsed
  PROVE  d \in lapsed' \/ (d = "counters" /\ \E p \in Procs : BackfillCounts(p))
<1>1. CASE \E p \in Procs : BackfillCounts(p)
  BY <1>1 DEF BackfillCounts, CountsDone
<1>2. CASE ~\E p \in Procs : BackfillCounts(p)
  BY <1>2 DEF Next, vars, BeginOpen, OpenStep, ApplySchema, ProbeFts, ProbeRows, BackfillFts,
              ProbeCounts, OpenFails, Exit, InsertBatch, Purge, DeleteByID
<1> QED
  BY <1>1, <1>2

---------------------------------------------------------------------------
(* The full-text index *)

FtsPassed == {"countProbe", "countInsert", "open"}

\* The index is exact, or still empty; empty before its triggers exist.
FtsState ==
  /\ fts = row \/ Used(fts) = {}
  /\ schema < FtsDelete => Used(fts) = {}

\* Behind the backfill it is exact, and once some Open is through it stays so.
FtsDone ==
  /\ \A p \in clean : pc[p] \in FtsPassed => fts = row
  /\ through => fts = row

FtsInv == OrderInv /\ ("index" \notin lapsed => FtsState /\ FtsDone)

LEMMA FtsInit == Init => FtsInv
<1> SUFFICES ASSUME Init PROVE FtsInv
  OBVIOUS
<1>1. FtsState
  BY StoreAssumption DEF Init, FtsState, Used
<1>2. FtsDone
  BY DEF Init, FtsDone
<1> QED
  BY <1>1, <1>2, OrderInit DEF FtsInv

\* Two tables without a row are equal.
LEMMA EmptyTables ==
  ASSUME NEW t \in [Ids -> Surfaces \cup {None}], NEW u \in [Ids -> Surfaces \cup {None}],
         Used(t) = {}, Used(u) = {}
  PROVE  t = u
<1>1. \A i \in Ids : t[i] = None /\ u[i] = None
  BY DEF Used
<1>2. t = [i \in Ids |-> None]
  BY <1>1
<1>3. u = [i \in Ids |-> None]
  BY <1>1
<1> QED
  BY <1>2, <1>3

LEMMA FtsStep == FtsInv /\ [Next]_vars => FtsInv'
<1> SUFFICES ASSUME FtsInv, [Next]_vars, "index" \notin lapsed'
             PROVE  FtsState' /\ FtsDone'
  BY OrderStep DEF FtsInv
<1>0. OrderInv /\ FtsState /\ FtsDone
  BY LapseStays DEF FtsInv
<1> USE <1>0 DEF OrderInv, FtsState, FtsDone, FtsPassed, TypeOK
<1>1. CASE UNCHANGED <<row, fts, pc, clean, schema, through>>
  <2>1. FtsState'
    BY <1>1 DEF Used
  <2>2. FtsDone'
    BY <1>1
  <2> QED
    BY <2>1, <2>2
<1>2. ASSUME NEW p \in Procs, BeginOpen(p) \/ Exit(p) \/ ApplySchema(p)
      PROVE  FtsState' /\ FtsDone'
  <2>1. UNCHANGED <<row, fts>> /\ schema <= schema'
    BY <1>2 DEF BeginOpen, Exit, ApplySchema, tables
  <2>2. schema' \in Int
    BY TypeStep
  <2>3. FtsState'
    BY <2>1, <2>2 DEF Used
  <2>4. FtsDone'
    BY <1>2, <2>1 DEF BeginOpen, Exit, ApplySchema
  <2> QED
    BY <2>3, <2>4
<1>3. ASSUME NEW p \in Procs, ProbeFts(p)
      PROVE  FtsState' /\ FtsDone'
  <2>1. UNCHANGED <<row, fts, schema>>
    BY <1>3 DEF ProbeFts, tables
  <2>2. FtsState'
    BY <2>1 DEF Used
  <2>3. FtsDone'
    BY <1>3, <2>1 DEF ProbeFts
  <2> QED
    BY <2>2, <2>3
<1>4. ASSUME NEW p \in Procs, ProbeRows(p)
      PROVE  FtsState' /\ FtsDone'
  <2>1. UNCHANGED <<row, fts, schema>>
    BY <1>4 DEF ProbeRows, tables
  <2>2. pc'[p] = "countProbe" => fts = row
    BY <1>4, EmptyTables DEF ProbeRows
  <2>3. FtsState'
    BY <2>1 DEF Used
  <2>4. FtsDone'
    BY <1>4, <2>1, <2>2 DEF ProbeRows
  <2> QED
    BY <2>3, <2>4
<1>5. ASSUME NEW p \in Procs, BackfillFts(p)
      PROVE  FtsState' /\ FtsDone'
  <2>1. schema = CountDelete
    BY <1>5 DEF BackfillFts, SchemaDone, OpenSteps
  <2>2. CASE Used(fts) = {}
    <3>1. fts' = [i \in Ids |-> IF row[i] # None THEN row[i] ELSE fts[i]]
      BY <1>5, <2>2 DEF BackfillFts
    <3>2. \A i \in Ids : fts[i] = None
      BY <2>2 DEF Used
    <3>3. \A i \in Ids : fts'[i] = row[i]
      BY <3>1, <3>2
    <3>4. fts' = row
      BY <3>1, <3>3
    <3> QED
      BY <1>5, <2>1, <3>4 DEF BackfillFts
  <2>3. CASE fts = row
    <3>1. fts' = row
      BY <1>5, <2>3 DEF BackfillFts
    <3> QED
      BY <1>5, <2>1, <3>1 DEF BackfillFts
  <2> QED
    BY <2>2, <2>3
<1>6. ASSUME NEW p \in Procs, ProbeCounts(p) \/ BackfillCounts(p)
      PROVE  FtsState' /\ FtsDone'
  <2>1. UNCHANGED <<row, fts, schema>>
    BY <1>6 DEF ProbeCounts, BackfillCounts, CountsDone, tables
  <2>2. FtsState'
    BY <2>1 DEF Used
  <2>3. pc[p] \in FtsPassed /\ UNCHANGED clean
    BY <1>6 DEF ProbeCounts, BackfillCounts
  <2>4. through' => through \/ p \in clean
    BY <1>6 DEF ProbeCounts, BackfillCounts, CountsDone
  <2>5. \A q \in Procs \ {p} : pc'[q] = pc[q]
    BY <1>6 DEF ProbeCounts, BackfillCounts, CountsDone
  <2>6. FtsDone'
    BY <2>1, <2>3, <2>4, <2>5
  <2> QED
    BY <2>2, <2>6
<1>7. ASSUME NEW p \in Procs, OpenFails(p)
      PROVE  FtsState' /\ FtsDone'
  <2>1. UNCHANGED <<row, fts, schema, through>>
    BY <1>7 DEF OpenFails, tables
  <2>2. FtsState'
    BY <2>1 DEF Used
  <2>3. \A q \in clean' : q \in clean /\ pc'[q] = pc[q]
    BY <1>7 DEF OpenFails
  <2> QED
    BY <2>1, <2>2, <2>3
<1>8. ASSUME NEW p \in Procs, NEW batch \in Batches, InsertBatch(p, batch)
      PROVE  FtsState' /\ FtsDone'
  <2>1. UNCHANGED <<schema, pc, clean, through>>
    BY <1>8 DEF InsertBatch
  <2>2. CASE fts = row /\ FtsDelete <= schema
    <3>1. fts' = row'
      BY <1>8, <2>2 DEF InsertBatch
    <3> QED
      BY <2>1, <2>2, <3>1
  <2>3. CASE schema < FtsInsert
    <3>1. fts' = fts /\ Used(fts) = {}
      BY <1>8, <2>3 DEF InsertBatch
    <3>2. \A q \in clean : pc[q] \notin FtsPassed
      BY <2>3 DEF SchemaDone, OpenSteps
    <3>3. ~through
      BY <2>3
    <3>4. Used(fts)' = {}
      BY <3>1 DEF Used
    <3> QED
      BY <2>1, <3>2, <3>3, <3>4
  <2>4. (fts = row /\ FtsDelete <= schema) \/ schema < FtsInsert
    <3>1. ~Pending("index")
      BY <1>8 DEF InsertBatch, Derived
    <3> QED
      BY <3>1, EmptyTables DEF Pending
  <2> QED
    BY <2>2, <2>3, <2>4
<1>9. ASSUME NEW p \in Procs, NEW gone, Delete(gone), UNCHANGED <<schema, pc, clean, through>>
      PROVE  FtsState' /\ FtsDone'
  <2>1. CASE schema < FtsDelete
    <3>1. fts' = fts /\ Used(fts) = {}
      BY <1>9, <2>1 DEF Delete
    <3>2. \A q \in clean : pc[q] \notin FtsPassed
      BY <2>1 DEF SchemaDone, OpenSteps
    <3>3. ~through
      BY <2>1
    <3>4. Used(fts)' = {}
      BY <3>1 DEF Used
    <3> QED
      BY <1>9, <3>2, <3>3, <3>4
  <2>2. CASE ~(schema < FtsDelete)
    <3>1. fts = row => fts' = row'
      BY <1>9, <2>2 DEF Delete
    <3>2. Used(fts) = {} => Used(fts)' = {}
      BY <1>9, <2>2 DEF Delete, Used
    <3> QED
      BY <1>9, <2>2, <3>1, <3>2
  <2> QED
    BY <2>1, <2>2
<1> QED
  BY <1>1, <1>2, <1>3, <1>4, <1>5, <1>6, <1>7, <1>8, <1>9
     DEF Next, OpenStep, Purge, DeleteByID, vars, tables

\* From the first Open that got through on, search misses no stored row and
\* hits none that is gone, whoever writes, opens the file or dies at whichever
\* statement.
THEOREM SearchSync == Spec => []SearchInSync
<1>1. Init => FtsInv
  BY FtsInit
<1>2. FtsInv /\ [Next]_vars => FtsInv'
  BY FtsStep
<1>3. FtsInv => SearchInSync
  BY DEF FtsInv, FtsDone, SearchInSync
<1> QED
  BY <1>1, <1>2, <1>3, PTL DEF Spec

---------------------------------------------------------------------------
(* The counters *)

Exact == \A s \in Surfaces : CountEngrams(s) = Cardinality(Of(s))

\* The counters are exact, or there are none; none before their triggers
\* exist.
CountState ==
  /\ Exact \/ counted = {}
  /\ schema < CountDelete => counted = {}

\* Once some Open is through they are exact.
CountDone == through => Exact

CountInv == OrderInv /\ ("counters" \notin lapsed => CountState /\ CountDone)

LEMMA CountInit == Init => CountInv
<1> SUFFICES ASSUME Init PROVE CountInv
  OBVIOUS
<1>1. CountState
  <2>1. CASE OldSchema < CountInsert
    BY <2>1 DEF Init, CountState
  <2>2. CASE ~(OldSchema < CountInsert)
    <3>1. ASSUME NEW s \in Surfaces
          PROVE  CountEngrams(s) = Cardinality(Of(s))
      <4>1. Of(s) = {i \in Ids : OldRow[i] = s} /\ n[s] = Cardinality(Of(s))
        BY <2>2 DEF Init, Of
      <4>2. s \notin counted => Of(s) = {}
        BY <2>2, <4>1 DEF Init
      <4> QED
        BY <4>1, <4>2, FS_EmptySet DEF CountEngrams
    <3>2. schema = CountDelete
      BY <2>2, StoreAssumption DEF Init
    <3> QED
      BY <3>1, <3>2 DEF CountState, Exact
  <2> QED
    BY <2>1, <2>2
<1>2. CountDone
  BY DEF Init, CountDone
<1> QED
  BY <1>1, <1>2, OrderInit DEF CountInv

\* The rows an insert adds to a surface are as many as its batch has.
LEMMA InsertAdds ==
  ASSUME TypeOK, NEW p \in Procs, NEW batch \in Batches, InsertBatch(p, batch),
         NEW s \in Surfaces
  PROVE  Cardinality(Of(s)') = Cardinality(Of(s)) + Cardinality(Added(batch, s))
<1>1. PICK k \in 1..MaxBatch : batch \in [1..k -> Surfaces]
  BY DEF Batches
<1>2. PICK first \in Ids :
        /\ IsNext(first) /\ first + Cardinality(DOMAIN batch) - 1 <= MaxId
        /\ row' = Put(row, first, batch)
  BY DEF InsertBatch
<1> DEFINE new == {i \in BatchIds(first, batch) : batch[i - first + 1] = s}
           f   == [j \in Added(batch, s) |-> first + j - 1]
<1>3. Cardinality(DOMAIN batch) = k
  <2>1. k \in Nat /\ k >= 1
    BY StoreAssumption
  <2> QED
    BY <1>1, <2>1, FS_Interval
<1>4. f \in Bijection(Added(batch, s), new)
  <2>1. ASSUME NEW j \in Added(batch, s)
        PROVE  f[j] \in new /\ f[j] - first + 1 = j
    BY <1>1, <1>2, <1>3, StoreAssumption DEF Added, BatchIds
  <2>2. ASSUME NEW i \in new
        PROVE  i - first + 1 \in Added(batch, s) /\ f[i - first + 1] = i
    BY <1>1, <1>2 DEF Added, BatchIds
  <2>3. f \in [Added(batch, s) -> new]
    BY <2>1
  <2>4. \A j1, j2 \in Added(batch, s) : f[j1] = f[j2] => j1 = j2
    BY <2>1
  <2>5. \A i \in new : \E j \in Added(batch, s) : f[j] = i
    BY <2>2
  <2> HIDE DEF f, new
  <2> QED
    BY <2>3, <2>4, <2>5 DEF Bijection, Injection, Surjection, IsInjective
<1>5. IsFiniteSet(new) /\ Cardinality(new) = Cardinality(Added(batch, s))
  <2>1. ExistsBijection(Added(batch, s), new)
    BY <1>4 DEF ExistsBijection
  <2> QED
    BY <2>1, AddedFinite, FS_Bijection
<1>6. Of(s)' = Of(s) \cup new
  <2>1. ASSUME NEW i \in Ids
        PROVE  row'[i] = s <=> i \in Of(s) \cup new
    <3>1. CASE i \in BatchIds(first, batch)
      <4>1. row'[i] = batch[i - first + 1]
        BY <1>2, <3>1 DEF Put
      <4>2. i >= first
        BY <1>1, <3>1 DEF BatchIds
      <4>3. i \notin Of(s)
        BY <1>2, <4>2, StoreAssumption DEF IsNext, Used, Of
      <4> QED
        BY <3>1, <4>1, <4>3
    <3>2. CASE i \notin BatchIds(first, batch)
      BY <1>2, <3>2 DEF Put, Of
    <3> QED
      BY <3>1, <3>2
  <2> QED
    BY <2>1 DEF Of, BatchIds
<1>7. Of(s) \cap new = {}
  <2>1. \A i \in new : i >= first
    BY <1>1 DEF BatchIds
  <2>2. \A i \in Of(s) : i < first
    BY <1>2, StoreAssumption DEF IsNext, Used, Of
  <2>3. Of(s) \subseteq Ids /\ new \subseteq Ids
    BY DEF Of, BatchIds
  <2> HIDE DEF new
  <2> QED
    BY <2>1, <2>2, <2>3
<1>8. Cardinality(Of(s) \cup new) = Cardinality(Of(s)) + Cardinality(new)
  <2> HIDE DEF new
  <2>1. Cardinality(Of(s) \cap new) = 0
    BY <1>7, FS_EmptySet
  <2>2. Cardinality(Of(s)) \in Nat /\ Cardinality(new) \in Nat /\ IsFiniteSet(Of(s))
    BY <1>5, OfFinite, FS_CardinalityType
  <2>3. Cardinality(Of(s) \cup new)
          = Cardinality(Of(s)) + Cardinality(new) - Cardinality(Of(s) \cap new)
    BY <1>5, <2>2, FS_Union
  <2> QED
    BY <2>1, <2>2, <2>3
<1> QED
  BY <1>5, <1>6, <1>8

\* An insert keeps exact counters exact: the triggers follow the rows.
LEMMA InsertExact ==
  ASSUME TypeOK, Exact, schema = CountDelete,
         NEW p \in Procs, NEW batch \in Batches, InsertBatch(p, batch)
  PROVE  Exact'
<1> SUFFICES ASSUME NEW s \in Surfaces
             PROVE  CountEngrams(s)' = Cardinality(Of(s)')
  BY DEF Exact
<1> DEFINE added == Cardinality(Added(batch, s))
<1>1. Cardinality(Of(s)') = Cardinality(Of(s)) + added
  BY InsertAdds
<1>2. CountEngrams(s) = Cardinality(Of(s)) /\ Cardinality(Of(s)) \in Nat
  BY OfFinite DEF Exact
<1>3. added \in Nat /\ (added = 0 <=> Added(batch, s) = {})
  BY AddedFinite, FS_EmptySet
<1>4. s \in counted' <=> s \in counted \/ Added(batch, s) # {}
  BY DEF InsertBatch, Added
<1>5. n'[s] = IF s \in counted THEN n[s] + added ELSE IF added > 0 THEN added ELSE n[s]
  BY DEF InsertBatch
<1> HIDE DEF added
<1>6. CountEngrams(s)' = IF s \in counted' THEN n'[s] ELSE 0
  BY DEF CountEngrams
<1>7. CASE s \in counted
  BY <1>1, <1>2, <1>4, <1>5, <1>6, <1>7 DEF CountEngrams
<1>8. CASE s \notin counted
  BY <1>1, <1>2, <1>3, <1>4, <1>5, <1>6, <1>8 DEF CountEngrams
<1> QED
  BY <1>7, <1>8

\* So does a delete.
LEMMA DeleteExact ==
  ASSUME TypeOK, Exact, schema = CountDelete, NEW gone \in SUBSET Ids, Delete(gone)
  PROVE  Exact'
<1> SUFFICES ASSUME NEW s \in Surfaces
             PROVE  CountEngrams(s)' = Cardinality(Of(s)')
  BY DEF Exact
<1>1. Of(s)' = Of(s) \ gone
  <2>1. \A i \in Ids : row'[i] = IF i \in gone THEN None ELSE row[i]
    BY DEF Delete
  <2> QED
    BY <2>1, StoreAssumption DEF Of
<1>2. Cardinality(Of(s) \ gone) = Cardinality(Of(s)) - Cardinality(Of(s) \cap gone)
  BY OfFinite, FS_Difference
<1>3. Cardinality(Of(s)) \in Nat /\ Cardinality(Of(s) \cap gone) \in Nat
  <2>1. Of(s) \cap gone \in SUBSET Ids
    OBVIOUS
  <2> QED
    BY <2>1, OfFinite, IdsFinite
<1>4. CountEngrams(s) = Cardinality(Of(s))
  BY DEF Exact
<1>5. gone \cap Of(s) = Of(s) \cap gone
  OBVIOUS
<1>6. Cardinality(Of(s) \cap gone) = 0 \/ s \in counted
  <2>1. CASE s \notin counted
    <3>1. Of(s) = {}
      BY <1>4, <2>1, OfFinite, FS_EmptySet DEF CountEngrams
    <3>2. Of(s) \cap gone = {}
      BY <3>1
    <3> QED
      BY <3>2, FS_EmptySet
  <2> QED
    BY <2>1
<1>7. counted' = counted
      /\ n'[s] = IF s \in counted THEN n[s] - Cardinality(Of(s) \cap gone) ELSE n[s]
  BY <1>5 DEF Delete
<1>8. CountEngrams(s)' = IF s \in counted' THEN n'[s] ELSE 0
  BY DEF CountEngrams
<1> QED
  BY <1>1, <1>2, <1>3, <1>4, <1>6, <1>7, <1>8 DEF CountEngrams

\* The backfill makes the counters exact, if they were exact or none, or if
\* it replaces every one it finds.
LEMMA BackfillExact ==
  ASSUME TypeOK, CountState \/ (\A s \in counted : Of(s) # {}), NEW p \in Procs, BackfillCounts(p)
  PROVE  Exact'
<1> SUFFICES ASSUME NEW s \in Surfaces
             PROVE  CountEngrams(s)' = Cardinality(Of(s)')
  BY DEF Exact
<1>1. Of(s)' = Of(s)
  BY DEF BackfillCounts, Of
<1>2. CountEngrams(s)' = IF s \in counted' THEN n'[s] ELSE 0
  BY DEF CountEngrams
<1>3. CASE Of(s) # {}
  <2>1. s \in counted' /\ n'[s] = Cardinality(Of(s))
    BY <1>3 DEF BackfillCounts
  <2> QED
    BY <1>1, <1>2, <2>1
<1>4. CASE Of(s) = {}
  <2>1. Cardinality(Of(s)) = 0
    BY <1>4, FS_EmptySet
  <2>2. n'[s] = n[s] /\ (s \in counted' <=> s \in counted)
    BY <1>4 DEF BackfillCounts
  <2>3. s \in counted => n[s] = 0
    BY <1>4, <2>1 DEF CountState, Exact, CountEngrams
  <2> QED
    BY <1>1, <1>2, <2>1, <2>2, <2>3
<1> QED
  BY <1>3, <1>4

LEMMA CountStep == CountInv /\ [Next]_vars => CountInv'
<1> SUFFICES ASSUME CountInv, [Next]_vars, "counters" \notin lapsed'
             PROVE  CountState' /\ CountDone'
  BY OrderStep DEF CountInv
<1>0. OrderInv /\ TypeOK
  BY DEF CountInv, OrderInv
<1>1. ASSUME NEW p \in Procs, BackfillCounts(p)
      PROVE  CountState' /\ CountDone'
  <2>1. schema' = CountDelete
    BY <1>0, <1>1 DEF BackfillCounts, OrderInv, SchemaDone, OpenSteps
  <2>2. CountState \/ (\A s \in counted : Of(s) # {})
    BY <1>1 DEF BackfillCounts, CountsDone, CountInv
  <2> QED
    BY <1>0, <1>1, <2>1, <2>2, BackfillExact DEF CountState, CountDone
<1>2. SUFFICES ASSUME ~\E p \in Procs : BackfillCounts(p)
               PROVE  CountState' /\ CountDone'
  BY <1>1
<1>3. CountState /\ CountDone
  BY <1>2, LapseStays DEF CountInv
<1>4. ASSUME UNCHANGED <<row, counted, n>>, schema <= schema'
      PROVE  (Exact <=> Exact') /\ CountState'
  <2>1. Exact <=> Exact'
    BY <1>4 DEF Exact, CountEngrams, Of
  <2>2. schema \in Int /\ schema' \in Int
    BY <1>0, OrderStep DEF CountInv, OrderInv, TypeOK
  <2> QED
    BY <1>3, <1>4, <2>1, <2>2 DEF CountState
<1>5. CASE UNCHANGED <<row, counted, n, schema, through>>
  <2>1. schema <= schema'
    BY <1>0, <1>5 DEF TypeOK
  <2> QED
    BY <1>3, <1>4, <1>5, <2>1 DEF CountDone
<1>6. ASSUME NEW p \in Procs,
             BeginOpen(p) \/ Exit(p) \/ ApplySchema(p) \/ ProbeFts(p) \/ ProbeRows(p)
               \/ BackfillFts(p) \/ OpenFails(p)
      PROVE  CountState' /\ CountDone'
  <2>1. UNCHANGED <<row, counted, n, through>> /\ schema <= schema'
    BY <1>0, <1>6 DEF BeginOpen, Exit, ApplySchema, ProbeFts, ProbeRows, BackfillFts, OpenFails,
                      tables, TypeOK
  <2> QED
    BY <1>3, <1>4, <2>1 DEF CountDone
<1>7. ASSUME NEW p \in Procs, ProbeCounts(p)
      PROVE  CountState' /\ CountDone'
  <2>1. UNCHANGED <<row, counted, n>> /\ schema <= schema'
    BY <1>0, <1>7 DEF ProbeCounts, tables, TypeOK
  <2>2. through' => through \/ counted # {}
    BY <1>7 DEF ProbeCounts
  <2> QED
    BY <1>3, <1>4, <2>1, <2>2 DEF CountDone, CountState
<1>8. ASSUME NEW p \in Procs, NEW batch \in Batches, InsertBatch(p, batch)
      PROVE  CountState' /\ CountDone'
  <2>1. UNCHANGED <<schema, through>>
    BY <1>8 DEF InsertBatch
  <2>2. CASE Exact /\ schema = CountDelete
    <3>1. Exact'
      BY <1>0, <1>8, <2>2, InsertExact
    <3> QED
      BY <2>1, <2>2, <3>1 DEF CountState, CountDone
  <2>3. CASE schema < CountInsert
    <3>1. counted' = counted /\ counted = {}
      BY <1>0, <1>3, <1>8, <2>3 DEF InsertBatch, CountState, TypeOK
    <3>2. ~through
      BY <1>0, <2>3 DEF OrderInv
    <3> QED
      BY <2>1, <3>1, <3>2 DEF CountState, CountDone
  <2>4. \/ Exact /\ schema = CountDelete
        \/ schema < CountInsert
    <3>1. ~Pending("counters")
      BY <1>8 DEF InsertBatch, Derived
    <3>2. schema \in 0..CountDelete
      BY <1>0 DEF TypeOK
    <3>3. CASE counted # {}
      BY <1>3, <3>1, <3>2, <3>3 DEF Pending, CountState
    <3>4. CASE counted = {} /\ Used(row) = {}
      <4>1. \A s \in Surfaces : Of(s) = {}
        BY <3>4, StoreAssumption DEF Of, Used
      <4>2. Exact
        BY <3>4, <4>1, FS_EmptySet DEF Exact, CountEngrams
      <4> QED
        BY <3>1, <3>2, <4>2 DEF Pending
    <3>5. CASE counted = {} /\ Used(row) # {}
      BY <3>1, <3>2, <3>5 DEF Pending
    <3> QED
      BY <3>3, <3>4, <3>5
  <2> QED
    BY <2>2, <2>3, <2>4
<1>9. ASSUME NEW gone \in SUBSET Ids, Delete(gone), UNCHANGED <<schema, through>>
      PROVE  CountState' /\ CountDone'
  <2>1. CASE Exact /\ schema = CountDelete
    <3>1. Exact'
      BY <1>0, <1>9, <2>1, DeleteExact
    <3> QED
      BY <1>9, <2>1, <3>1 DEF CountState, CountDone
  <2>2. CASE counted = {} /\ ~(Exact /\ schema = CountDelete)
    <3>1. counted' = {}
      BY <1>9, <2>2 DEF Delete
    <3>2. ~through
      BY <1>0, <1>3, <2>2 DEF OrderInv, CountDone
    <3> QED
      BY <1>9, <3>1, <3>2 DEF CountState, CountDone
  <2> QED
    BY <1>0, <1>3, <2>1, <2>2 DEF CountState, TypeOK
<1>10. ASSUME NEW p \in Procs, NEW s \in Surfaces, Purge(p, s)
       PROVE  CountState' /\ CountDone'
  <2>1. PICK gone \in SUBSET Of(s) : Delete(gone)
    BY <1>10 DEF Purge
  <2>2. gone \in SUBSET Ids
    BY DEF Of
  <2> QED
    BY <1>9, <1>10, <2>1, <2>2 DEF Purge
<1>11. ASSUME NEW p \in Procs, NEW i \in Ids, DeleteByID(p, i)
       PROVE  CountState' /\ CountDone'
  <2>1. {i} \in SUBSET Ids
    OBVIOUS
  <2> QED
    BY <1>9, <1>11, <2>1 DEF DeleteByID
<1> QED
  BY <1>2, <1>5, <1>6, <1>7, <1>8, <1>10, <1>11 DEF Next, OpenStep, vars, tables

\* The counters that replace the scans are the scans' results.
THEOREM CountsSync == Spec => []CountsInSync
<1>1. Init => CountInv
  BY CountInit
<1>2. CountInv /\ [Next]_vars => CountInv'
  BY CountStep
<1>3. ASSUME CountInv, through, "counters" \notin lapsed
      PROVE  Exact
  BY <1>3 DEF CountInv, CountDone
<1>4. ASSUME CountInv, Exact, NEW s \in Surfaces
      PROVE  s \in CountBySurface <=> Of(s) # {}
  <2>1. Cardinality(Of(s)) = 0 <=> Of(s) = {}
    BY OfFinite, FS_EmptySet
  <2>2. Cardinality(Of(s)) \in Nat
    BY OfFinite
  <2> QED
    BY <1>4, <2>1, <2>2 DEF Exact, CountEngrams, CountBySurface
<1>5. CountInv => CountBySurface \subseteq Surfaces
  BY DEF CountInv, OrderInv, TypeOK, CountBySurface
<1>6. CountInv => CountsInSync
  BY <1>3, <1>4, <1>5 DEF CountsInSync, CountsExact, Exact
<1> QED
  BY <1>1, <1>2, <1>6, PTL DEF Spec
=============================================================================
