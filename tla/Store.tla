------------------------------- MODULE Store -------------------------------
(***************************************************************************)
(* The engram store (internal/store): one SQLite file that several         *)
(* processes may have open, the full-text index and the per-surface        *)
(* counters that triggers keep next to the rows, and Store.Open, which     *)
(* creates what an older version's file lacks and backfills it, statement  *)
(* by statement.  Each SQL statement is atomic; nothing groups those of    *)
(* Open, and a write of another process may fall between any two of them.  *)
(*                                                                         *)
(* A row is its id and its surface.  Payloads, metadata and times are left *)
(* out: a purge by time deletes any of a surface's rows.                   *)
(***************************************************************************)
EXTENDS Integers, FiniteSets

CONSTANTS
  Surfaces,   \* what produced an engram
  None,       \* no row
  Procs,      \* processes using the file: the daemon, eideticd's CLI modes
  Old,        \* processes of an older version that have the file open
  OldSchema,  \* statements of schema.sql an older version has applied
  OldRow,     \* [Ids -> Surfaces or None]: the rows at the start
  MaxId,      \* bound on row ids
  MaxBatch,   \* bound on the rows of one insert
  MaxCount,   \* bound on a counter: between the two triggers it only grows
  MaxOpens,   \* bound on calls of Open
  MaxFaults   \* bound on statements that fail

Ids == 1..MaxId

\* schema.sql in order; the indexes do not matter here.
Engrams == 1   Fts == 2   FtsInsert == 3   FtsDelete == 4
Counts  == 5   CountInsert == 6   CountDelete == 7

ASSUME StoreAssumption ==
  /\ None \notin Surfaces
  /\ Old \subseteq Procs
  /\ OldSchema \in {0, Engrams, FtsDelete, CountDelete}  \* what releases shipped
  /\ OldRow \in [Ids -> Surfaces \cup {None}]
  /\ OldSchema = 0 => OldRow = [i \in Ids |-> None]
  /\ MaxId \in Nat /\ MaxBatch \in Nat /\ MaxCount \in Nat /\ MaxOpens \in Nat /\ MaxFaults \in Nat
  /\ IsFiniteSet(Surfaces)

VARIABLES
  \* the file
  schema,   \* statements of schema.sql that have been applied
  row,      \* [Ids -> Surfaces or None]: table engrams
  fts,      \* [Ids -> Surfaces or None]: table engrams_fts
  counted,  \* surfaces with a row in engram_counts
  n,        \* [Surfaces -> Int]: their n
  \* the processes
  pc,       \* [Procs -> next statement of Open, "open" or "down"]
  clean,    \* processes whose Open has had no failed statement
  through,  \* some Open has got through without a failed statement
  lapsed,   \* of Derived: those that a row was stored for while they were pending
  opens, faults

tables == <<row, fts, counted, n>>
vars   == <<schema, tables, pc, clean, through, lapsed, opens, faults>>

OpenSteps == {"schema", "ftsProbe", "rowProbe", "ftsInsert", "countProbe", "countInsert"}

Of(s) == {i \in Ids : row[i] = s}
Used(t) == {i \in Ids : t[i] # None}

\* A process has opened the store and no statement of its Open failed.
Ready == \E p \in clean : pc[p] = "open"

\* What triggers keep next to the rows.
Derived == {"index", "counters"}

\* One of its two triggers is there and not the other, or it is empty and
\* there are rows: a backfill is still to come.
Pending(d) ==
  IF d = "index"
    THEN schema >= FtsInsert /\ (schema < FtsDelete \/ (Used(fts) = {} /\ Used(row) # {}))
    ELSE schema >= CountInsert /\ (schema < CountDelete \/ (counted = {} /\ Used(row) # {}))

Fault == faults < MaxFaults /\ faults' = faults + 1
Goto(p, step) == pc' = [pc EXCEPT ![p] = step]

---------------------------------------------------------------------------
(* Open *)

BeginOpen(p) ==
  /\ pc[p] = "down"
  /\ opens < MaxOpens /\ opens' = opens + 1
  /\ Goto(p, "schema")
  /\ clean' = clean \cup {p}
  /\ UNCHANGED <<schema, tables, through, lapsed, faults>>

\* The next statement whose IF NOT EXISTS finds nothing.
ApplySchema(p) ==
  /\ pc[p] = "schema"
  /\ IF schema < CountDelete THEN schema' = schema + 1 /\ UNCHANGED pc
                             ELSE Goto(p, "ftsProbe") /\ UNCHANGED schema
  /\ UNCHANGED <<tables, clean, through, lapsed, opens, faults>>

ProbeFts(p) ==
  /\ pc[p] = "ftsProbe"
  /\ Goto(p, IF Used(fts) # {} THEN "countProbe" ELSE "rowProbe")
  /\ UNCHANGED <<schema, tables, clean, through, lapsed, opens, faults>>

ProbeRows(p) ==
  /\ pc[p] = "rowProbe"
  /\ Goto(p, IF Used(row) = {} THEN "countProbe" ELSE "ftsInsert")
  /\ UNCHANGED <<schema, tables, clean, through, lapsed, opens, faults>>

\* INSERT ... SELECT: one id that is already indexed fails the statement, and
\* the failure is not reported.
BackfillFts(p) ==
  /\ pc[p] = "ftsInsert"
  /\ fts' = IF Used(row) \cap Used(fts) = {}
              THEN [i \in Ids |-> IF row[i] # None THEN row[i] ELSE fts[i]]
              ELSE fts
  /\ Goto(p, "countProbe")
  /\ UNCHANGED <<schema, row, counted, n, clean, through, lapsed, opens, faults>>

ProbeCounts(p) ==
  /\ pc[p] = "countProbe"
  /\ Goto(p, IF counted # {} THEN "open" ELSE "countInsert")
  /\ through' = (through \/ (counted # {} /\ p \in clean))
  /\ UNCHANGED <<schema, tables, clean, lapsed, opens, faults>>

\* The end of Open.  The backfill made up for a lapse if every counter it
\* found was of a surface with rows: those it replaces.
CountsDone(p) ==
  /\ Goto(p, "open")
  /\ through' = (through \/ p \in clean)
  /\ lapsed' = IF \A s \in counted : Of(s) # {} THEN lapsed \ {"counters"} ELSE lapsed

\* Variant: ON CONFLICT adds to the row that is there.
BackfillCountsAdd(p) ==
  /\ pc[p] = "countInsert"
  /\ counted' = counted \cup {s \in Surfaces : Of(s) # {}}
  /\ n' = [s \in Surfaces |->
             IF Of(s) = {} THEN n[s]
             ELSE IF s \in counted THEN n[s] + Cardinality(Of(s)) ELSE Cardinality(Of(s))]
  /\ CountsDone(p)
  /\ UNCHANGED <<schema, row, fts, clean, opens, faults>>

\* INSERT ... GROUP BY, ON CONFLICT replacing the row that is there.
BackfillCounts(p) ==
  /\ pc[p] = "countInsert"
  /\ counted' = counted \cup {s \in Surfaces : Of(s) # {}}
  /\ n' = [s \in Surfaces |-> IF Of(s) # {} THEN Cardinality(Of(s)) ELSE n[s]]
  /\ CountsDone(p)
  /\ UNCHANGED <<schema, row, fts, clean, opens, faults>>

\* A failed schema statement fails Open; a failed backfill does not.
OpenFails(p) ==
  /\ pc[p] \in OpenSteps
  /\ Fault
  /\ Goto(p, CASE pc[p] = "schema" -> "down"
               [] pc[p] \in {"ftsProbe", "rowProbe", "ftsInsert"} -> "countProbe"
               [] OTHER -> "open")
  /\ clean' = clean \ {p}
  /\ UNCHANGED <<schema, tables, through, lapsed, opens>>

OpenStep(p) ==
  \/ ApplySchema(p) \/ ProbeFts(p) \/ ProbeRows(p) \/ BackfillFts(p)
  \/ ProbeCounts(p) \/ BackfillCounts(p)

---------------------------------------------------------------------------
(* Writes of an open process, with the triggers that exist *)

\* SQLite gives the next row the largest id in use plus one.
IsNext(id) == (id = 1 \/ id - 1 \in Used(row)) /\ \A j \in Used(row) : j < id

\* The rows of a batch from id first on, and how many are of a surface.
BatchIds(first, batch) == {i \in Ids : i - first + 1 \in DOMAIN batch}
Added(batch, s) == {k \in DOMAIN batch : batch[k] = s}
Put(t, first, batch) == [i \in Ids |-> IF i \in BatchIds(first, batch)
                                         THEN batch[i - first + 1] ELSE t[i]]

\* InsertBatch of rows with the given surfaces (Insert: a batch of one).  It
\* commits nothing if the full-text index already holds one of its ids.
InsertBatch(p, batch) ==
  /\ pc[p] = "open" /\ schema >= Engrams
  /\ \A s \in Surfaces : n[s] < MaxCount
  /\ \E first \in Ids :
       /\ IsNext(first) /\ first + Cardinality(DOMAIN batch) - 1 <= MaxId
       /\ schema < FtsInsert \/ BatchIds(first, batch) \cap Used(fts) = {}
       /\ row' = Put(row, first, batch)
       /\ fts' = IF schema < FtsInsert THEN fts ELSE Put(fts, first, batch)
  /\ IF schema < CountInsert THEN UNCHANGED <<counted, n>>
     ELSE /\ counted' = counted \cup {batch[k] : k \in DOMAIN batch}
          /\ n' = [s \in Surfaces |->
                     LET added == Cardinality(Added(batch, s)) IN
                       IF s \in counted THEN n[s] + added
                       ELSE IF added > 0 THEN added ELSE n[s]]
  /\ lapsed' = lapsed \cup {d \in Derived : Pending(d)}
  /\ UNCHANGED <<schema, pc, clean, through, opens, faults>>

\* Variant: no delete trigger on the index.
DeleteKeepsIndex(gone) ==
  /\ row' = [i \in Ids |-> IF i \in gone THEN None ELSE row[i]]
  /\ fts' = fts
  /\ n' = IF schema < CountDelete THEN n
          ELSE [s \in Surfaces |-> IF s \in counted THEN n[s] - Cardinality(gone \cap Of(s))
                                                    ELSE n[s]]
  /\ UNCHANGED counted

\* DELETE of some rows of engrams.
Delete(gone) ==
  /\ row' = [i \in Ids |-> IF i \in gone THEN None ELSE row[i]]
  /\ fts' = IF schema < FtsDelete THEN fts
            ELSE [i \in Ids |-> IF i \in gone THEN None ELSE fts[i]]
  /\ n' = IF schema < CountDelete THEN n
          ELSE [s \in Surfaces |-> IF s \in counted THEN n[s] - Cardinality(gone \cap Of(s))
                                                    ELSE n[s]]
  /\ UNCHANGED counted

\* Purge: all rows of a surface, or those older than a bound.
Purge(p, s) ==
  /\ pc[p] = "open"
  /\ \E gone \in SUBSET Of(s) : gone # {} /\ Delete(gone)
  /\ UNCHANGED <<schema, pc, clean, through, lapsed, opens, faults>>

DeleteByID(p, i) ==
  /\ pc[p] = "open" /\ row[i] # None
  /\ Delete({i})
  /\ UNCHANGED <<schema, pc, clean, through, lapsed, opens, faults>>

\* Close, or the end of the process at any statement.
Exit(p) ==
  /\ pc[p] # "down"
  /\ Goto(p, "down")
  /\ clean' = clean \ {p}
  /\ UNCHANGED <<schema, tables, through, lapsed, opens, faults>>

---------------------------------------------------------------------------
(* Reads.  CountEngrams without a time bound and CountBySurface read the    *)
(* counters; Count sums them.                                               *)

CountEngrams(s) == IF s \in counted THEN n[s] ELSE 0
CountBySurface  == {s \in counted : n[s] > 0}

---------------------------------------------------------------------------
Init ==
  /\ schema = OldSchema /\ row = OldRow
  /\ fts = IF OldSchema < FtsInsert THEN [i \in Ids |-> None] ELSE OldRow
  /\ counted = IF OldSchema < CountInsert THEN {}
               ELSE {s \in Surfaces : \E i \in Ids : OldRow[i] = s}
  /\ n = [s \in Surfaces |-> IF OldSchema < CountInsert THEN 0
                             ELSE Cardinality({i \in Ids : OldRow[i] = s})]
  /\ pc = [p \in Procs |-> IF p \in Old THEN "open" ELSE "down"]
  /\ clean = {} /\ through = FALSE /\ lapsed = {} /\ opens = 0 /\ faults = 0

Batches == UNION {[1..k -> Surfaces] : k \in 1..MaxBatch}

Next ==
  \E p \in Procs :
    \/ BeginOpen(p) \/ OpenStep(p) \/ OpenFails(p) \/ Exit(p)
    \/ \E batch \in Batches : InsertBatch(p, batch)
    \/ \E s \in Surfaces : Purge(p, s)
    \/ \E i \in Ids : DeleteByID(p, i)

Spec == Init /\ [][Next]_vars

---------------------------------------------------------------------------
(* Properties *)

TypeOK ==
  /\ schema \in 0..CountDelete
  /\ row \in [Ids -> Surfaces \cup {None}] /\ fts \in [Ids -> Surfaces \cup {None}]
  /\ counted \subseteq Surfaces /\ n \in [Surfaces -> Int]
  /\ pc \in [Procs -> OpenSteps \cup {"open", "down"}]
  /\ clean \subseteq Procs /\ through \in BOOLEAN /\ lapsed \subseteq Derived
  /\ opens \in 0..MaxOpens /\ faults \in 0..MaxFaults

CountsExact ==
  /\ \A s \in Surfaces : CountEngrams(s) = Cardinality(Of(s))
  /\ CountBySurface = {s \in Surfaces : Of(s) # {}}

\* From the first Open that got through without an error on, and for ever, the
\* full-text index holds exactly the stored rows: search misses none and hits
\* no row that is gone or that took the id of one (backfillFTS and the
\* triggers).  Calls of Open may have failed or died at any statement before
\* and may after it, and processes of an older version write all the time.
\* Excepted: a row was stored when the index was half there or waiting for its
\* backfill, which the code does not heal (RestartHealsSearch).
SearchInSync == through /\ "index" \notin lapsed => fts = row

\* The maintained counters answer what the scans they replace would
\* (backfillCounts, ADR-022) from the same moment on.  A row stored while they
\* wait for their backfill is excepted only if no backfill followed that
\* replaced all it found: ON CONFLICT has to cover the rollout race.
CountsInSync == through /\ "counters" \notin lapsed => CountsExact

\* "Any failure rolls back to empty counts, so the next restart's probe passes
\* the idempotency gate and heals": whatever happened before.
RestartHeals == Ready => CountsExact

\* "Existing rows won't be searchable until next restart that succeeds."
RestartHealsSearch == Ready => fts = row
=============================================================================
