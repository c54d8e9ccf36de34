------------------------------- MODULE Reads -------------------------------
(***************************************************************************)
(* The answers of the HTTP API that take more than one query of the store  *)
(* (internal/api/routes.go, internal/store): an export, which reads the    *)
(* table page by page with a cursor on (ts, id), and a timeline, which     *)
(* asks once per surface and merges; with them the digest, which asks      *)
(* once.  Every query is a snapshot of its own: inserts, purges and        *)
(* deletions fall between any two of them.                                 *)
(*                                                                         *)
(* One request is followed: readers change nothing, so others do not       *)
(* matter to it.  A row is its id, its time and its surface.               *)
(***************************************************************************)
EXTENDS Integers, FiniteSets, Sequences

CONSTANTS
  Surfaces,    \* what produced an engram
  Every,         \* a query that names no surface
  Times,       \* times of rows: any number but 0 (validateEngram)
  Sinces,      \* the since= of requests
  Befores,     \* the before= of requests
  MaxNamed,    \* bound on the surfaces a timeline names
  PageSize,    \* rows of a page of an export: 1000
  RetrieveMax, \* most rows of one Retrieve: 500
  TimelineMax, \* greatest limit= of a timeline: 1000
  DigestMax,   \* rows a digest asks for: 2000
  MaxId,       \* bound on row ids
  MaxBatch     \* bound on the rows of one insert

Ids == 1..MaxId

ASSUME ReadsAssumption ==
  /\ IsFiniteSet(Surfaces) /\ Every \notin Surfaces
  /\ Times \subseteq Int \ {0} /\ Sinces \subseteq Int /\ Befores \subseteq Int
  /\ PageSize \in Nat \ {0} /\ RetrieveMax \in Nat \ {0}
  /\ TimelineMax \in Nat /\ DigestMax \in Nat
  /\ MaxNamed \in Nat /\ MaxId \in Nat /\ MaxBatch \in Nat

Rows == [id : Ids, ts : Times, surface : Surfaces]

\* What a request asks for; before <= 0 is no bound.
Requests == [kind : {"export", "timeline", "digest"}, surfaces : Seq(Surfaces \cup {Every}),
             since : Int, before : Int, limit : Nat]

VARIABLES
  rows,    \* the table
  phase,   \* "idle", "export", "timeline", "done", or "broken" when no whole answer is given
  req,     \* the request
  cursor,  \* the export's last row: its ts and id
  pages,   \* the export's pages in the order they were sent
  asked,   \* surfaces of a timeline already queried
  got,     \* what those queries gave, [at |-> position of the surface, row |-> row]
  answer,  \* the timeline sent
  kept     \* rows the request asks for that have been there since it began

request == <<phase, req, cursor, pages, asked, got, answer>>
vars    == <<rows, request, kept>>

(***************************************************************************)
(* Queries.                                                                *)
(***************************************************************************)
OfSurface(s, S) == {r \in S : s \in {Every, r.surface}}
Until(b, S)     == {r \in S : b > 0 => r.ts < b}

Before(q, r) == q.ts < r.ts \/ (q.ts = r.ts /\ q.id < r.id)

\* ORDER BY ts ASC, id ASC LIMIT n: the page's order is Before.
First(S, n) == {r \in S : Cardinality({q \in S : Before(q, r)}) < n}

\* ORDER BY ts ASC LIMIT n: nothing orders rows, or merged rows, of one time.
Oldest(S, n, ts) ==
  {T \in SUBSET S :
     /\ Cardinality(T) <= n /\ (Cardinality(T) = n \/ T = S)
     /\ \A r \in T, q \in S \ T : ts[r] <= ts[q]}

\* The cursor without the id, as it once was: rows of the last row's time are lost.
AfterTime(c, S) == {r \in S : c.ts > 0 \/ c.id > 0 => r.ts > c.ts}

\* The cursor's own row again.
AfterAgain(c, S) == {r \in S : c.ts > 0 \/ c.id > 0 => r.ts > c.ts \/ (r.ts = c.ts /\ r.id >= c.id)}

\* Rows RetrieveAfter chooses from.
After(c, S) == {r \in S : c.ts > 0 \/ c.id > 0 => r.ts > c.ts \/ (r.ts = c.ts /\ r.id > c.id)}

RetrieveAfter(s, c, b, n) == First(Until(b, After(c, OfSurface(s, rows))), n)

Retrieve(s, since, b, n) ==
  LET S == Until(b, {r \in OfSurface(s, rows) : since > 0 => r.ts > since})
  IN  Oldest(S, IF n > RetrieveMax THEN RetrieveMax ELSE n, [r \in S |-> r.ts])

(***************************************************************************)
(* Writers.                                                                *)
(***************************************************************************)
\* SQLite gives a new row the id after the greatest one in the table, which
\* may be that of a deleted row.
InsertBatch ==
  \E k \in 1..MaxBatch, top \in 0..MaxId :
    /\ \A r \in rows : r.id <= top
    /\ top = 0 \/ \E r \in rows : r.id = top
    /\ top + k <= MaxId
    /\ \E ts \in [1..k -> Times], s \in [1..k -> Surfaces] :
         rows' = rows \cup {[id |-> top + i, ts |-> ts[i], surface |-> s[i]] : i \in 1..k}
    /\ UNCHANGED <<request, kept>>

Delete(gone) ==
  /\ gone # {}
  /\ rows' = rows \ gone
  /\ kept' = kept \ gone
  /\ UNCHANGED request

DeleteByID == \E r \in rows : Delete({r})
Purge      == \E s \in Surfaces, b \in Befores : Delete(Until(b, OfSurface(s, rows)))

(***************************************************************************)
(* Export.                                                                 *)
(***************************************************************************)
BeginExport ==
  /\ phase = "idle"
  /\ \E s \in Surfaces \cup {Every}, since \in Sinces, b \in Befores :
       /\ req' = [kind |-> "export", surfaces |-> <<s>>, since |-> since, before |-> b, limit |-> 0]
       /\ cursor' = [ts |-> since, id |-> 0]
       /\ kept' = {r \in Until(b, OfSurface(s, rows)) : since > 0 => r.ts >= since}
  /\ phase' = "export"
  /\ UNCHANGED <<rows, pages, asked, got, answer>>

Page == RetrieveAfter(req.surfaces[1], cursor, req.before, PageSize)

ReadPage ==
  /\ phase = "export"
  /\ IF Page = {}
       THEN UNCHANGED <<pages, cursor>>
       ELSE /\ pages' = Append(pages, Page)
            /\ \E last \in Page :
                 /\ \A r \in Page : r = last \/ Before(r, last)
                 /\ cursor' = [ts |-> last.ts, id |-> last.id]
  /\ phase' = IF Cardinality(Page) < PageSize THEN "done" ELSE "export"
  /\ UNCHANGED <<rows, req, asked, got, answer, kept>>

\* The query fails and an error line ends the export, or the client is gone
\* after some of the page.
ExportBreaks ==
  /\ phase = "export"
  /\ \E n \in 0..PageSize - 1 : pages' = Append(pages, First(Page, n))
  /\ phase' = "broken"
  /\ UNCHANGED <<rows, req, cursor, asked, got, answer, kept>>

(***************************************************************************)
(* Timeline and digest.  A timeline that names no surface is one query     *)
(* over all, and so is a digest: merging one answer changes nothing.       *)
(***************************************************************************)
Begin(kind, surfaces, since, b, limit) ==
  /\ phase = "idle"
  /\ req' = [kind |-> kind, surfaces |-> surfaces, since |-> since, before |-> b, limit |-> limit]
  /\ kept' = {r \in Until(b, rows) : /\ \E i \in DOMAIN surfaces : surfaces[i] \in {Every, r.surface}
                                     /\ since > 0 => r.ts > since}
  /\ phase' = "timeline"
  /\ UNCHANGED <<rows, cursor, pages, asked, got, answer>>

Named == {<<Every>>} \cup UNION {[1..k -> Surfaces] : k \in 1..MaxNamed}

BeginTimeline ==
  \E surfaces \in Named, since \in Sinces, b \in Befores, limit \in 1..TimelineMax :
    Begin("timeline", surfaces, since, b, limit)

BeginDigest == \E since \in Sinces : Begin("digest", <<Every>>, since, 0, DigestMax)

\* Cut to the limit before it is sorted.
MergeUnsorted(S) == Oldest(S, req.limit, [e \in S |-> e.at])

\* Merged, sorted by time and cut to the limit.
Merge(S) == Oldest(S, req.limit, [e \in S |-> e.row.ts])

QuerySurface ==
  /\ phase = "timeline" /\ asked < Len(req.surfaces)
  /\ asked' = asked + 1
  /\ \E R \in Retrieve(req.surfaces[asked'], req.since, req.before, req.limit) :
       got' = got \cup {[at |-> asked', row |-> r] : r \in R}
  /\ UNCHANGED <<rows, phase, req, cursor, pages, answer, kept>>

Answer ==
  /\ phase = "timeline" /\ asked = Len(req.surfaces)
  /\ answer' \in Merge(got)
  /\ phase' = "done"
  /\ UNCHANGED <<rows, req, cursor, pages, asked, got, kept>>

\* One failed query fails the whole answer.
QueryFails ==
  /\ phase = "timeline" /\ asked < Len(req.surfaces)
  /\ phase' = "broken"
  /\ UNCHANGED <<rows, req, cursor, pages, asked, got, answer, kept>>

Init ==
  /\ rows = {}
  /\ phase = "idle"
  /\ req = [kind |-> "digest", surfaces |-> <<>>, since |-> 0, before |-> 0, limit |-> 0]
  /\ cursor = [ts |-> 0, id |-> 0]
  /\ pages = <<>>
  /\ asked = 0 /\ got = {} /\ answer = {} /\ kept = {}

Next ==
  \/ InsertBatch \/ DeleteByID \/ Purge
  \/ BeginExport \/ ReadPage \/ ExportBreaks
  \/ BeginTimeline \/ BeginDigest \/ QuerySurface \/ Answer \/ QueryFails

Spec == Init /\ [][Next]_vars

(***************************************************************************)
(* Properties.                                                             *)
(***************************************************************************)
\* The table's ids are a key, what a request is owed is in the table, and
\* neither a page nor a timeline holds more rows than it may.
TypeOK ==
  /\ rows \subseteq Rows /\ kept \subseteq rows
  /\ \A r, q \in rows : r.id = q.id => r = q
  /\ phase \in {"idle", "export", "timeline", "done", "broken"}
  /\ req \in Requests
  /\ cursor \in [ts : Int, id : 0..MaxId]
  /\ pages \in Seq(SUBSET Rows)
  /\ \A i \in DOMAIN pages : Cardinality(pages[i]) <= PageSize
  /\ asked \in 0..Len(req.surfaces)
  /\ got \subseteq [at : 1..asked, row : Rows]
  /\ answer \subseteq got /\ Cardinality(answer) <= req.limit

\* handleExport: a finished export holds every row asked for that was in the
\* store from beginning to end, also when a page ends between rows of one
\* time and whatever is stored, purged or deleted meanwhile.
ExportComplete ==
  phase = "done" /\ req.kind = "export" => \A r \in kept : \E i \in DOMAIN pages : r \in pages[i]

\* handleExport: "chronological order (oldest first)": a later page holds
\* only later rows, of one time those with greater ids, so none twice, in
\* broken exports too.
ExportOrdered ==
  \A i, j \in DOMAIN pages : i < j => \A q \in pages[i], r \in pages[j] : Before(q, r)

Covers(limit) ==
  \A r \in kept :
    \/ \E e \in answer : e.row = r
    \/ Cardinality(answer) = limit /\ \A e \in answer : e.row.ts <= r.ts

\* handleTimeline: a timeline leaves out no row older than one it shows, and
\* none at all when it is shorter than asked for, though its surfaces are read
\* at different moments.  Within the limit Retrieve serves.
TimelineHasNoHole ==
  phase = "done" /\ req.kind = "timeline" /\ req.limit <= RetrieveMax => Covers(req.limit)

\* The same of every limit a timeline takes (docs: "limit (default 200, max
\* 1000)").  The code does not keep it: Retrieve stops at RetrieveMax.
TimelineHonoursLimit ==
  phase = "done" /\ req.kind = "timeline" => Covers(req.limit)

\* handleDigest: "Pull up to 2000 engrams in the window".  The code does not
\* keep it: Retrieve stops at RetrieveMax, the oldest ones.
DigestCoversWindow ==
  phase = "done" /\ req.kind = "digest" => Covers(DigestMax)
=============================================================================
