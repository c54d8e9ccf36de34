--------------------------- MODULE ClientsProofs ---------------------------
(***************************************************************************)
(* Proofs about the clients of the store.                                  *)
(*                                                                         *)
(* Readers, for every page size, limit and set of surfaces and times: the  *)
(* order and completeness of an export, and that a timeline has no hole.   *)
(* They rest on one fact about pages: the first n rows of a finite table,  *)
(* taken in the order of (ts, id), hold whatever comes before any of them, *)
(* and fewer than n rows are all there are.                                *)
(*                                                                         *)
(* Then what a pass of eideticd-compliance deletes and what it leaves,     *)
(* whatever the policies, the width of integers and the writers beside it; *)
(* that the viewer's search box is searched for; and that the cache of     *)
(* /ask keeps its bound and answers with what is recent.                   *)
(***************************************************************************)
EXTENDS Clients, FiniteSetTheorems, TLAPS


\* Ids are a key; a part of the table has them too.
Keyed(S) == S \subseteq Rows /\ \A r, q \in S : r.id = q.id => r = q

LEMMA RowFields ==
  ASSUME NEW r \in Rows
  PROVE  r.id \in 1..MaxId /\ r.ts \in Int /\ r.surface \in Surfaces
BY ReadsAssumption DEF Rows, Ids

(***************************************************************************)
(* Finite sets and the order of rows.                                      *)
(***************************************************************************)
\* A finite set that is not empty has a least element of any strict order.
LEMMA Minimal ==
  ASSUME NEW T, IsFiniteSet(T), T # {},
         NEW R, \A x \in T : <<x, x>> \notin R,
         \A x, y, z \in T : <<x, y>> \in R /\ <<y, z>> \in R => <<x, z>> \in R
  PROVE  \E m \in T : \A x \in T : <<x, m>> \notin R
<1> DEFINE Below(y) == {x \in T : <<x, y>> \in R}
           U == {Below(y) : y \in T}
<1>1. U # {} /\ U \subseteq FiniteSubsetsOf(T)
  <2>1. ASSUME NEW y \in T PROVE Below(y) \in FiniteSubsetsOf(T)
    <3>1. Below(y) \in SUBSET T
      OBVIOUS
    <3> HIDE DEF Below
    <3> QED
      BY <3>1, FS_Subset DEF FiniteSubsetsOf
  <2>2. PICK y \in T : TRUE
    OBVIOUS
  <2>3. Below(y) \in U
    OBVIOUS
  <2>4. \A X \in U : \E z \in T : X = Below(z)
    OBVIOUS
  <2> HIDE DEF Below, U
  <2> QED
    BY <2>1, <2>3, <2>4
<1>2. PICK X \in U : \A Y \in U : <<Y, X>> \notin StrictSubsetOrdering(T)
  <2> HIDE DEF U
  <2> QED
    BY <1>1, FS_StrictSubsetOrderingWellFounded, WFMin
<1>3. PICK m \in T : X = Below(m)
  OBVIOUS
<1>4. ASSUME NEW x \in T, <<x, m>> \in R
      PROVE  FALSE
  <2>1. Below(x) \subseteq Below(m) /\ x \in Below(m) /\ x \notin Below(x)
    BY <1>4
  <2>2. <<Below(x), Below(m)>> \in StrictSubsetOrdering(T)
    BY <2>1 DEF StrictSubsetOrdering
  <2> QED
    BY <1>2, <1>3, <2>2
<1> QED
  BY <1>4

LEMMA BeforeOrders ==
  ASSUME NEW S, Keyed(S)
  PROVE  /\ \A r \in S : ~Before(r, r)
         /\ \A p, q, r \in S : Before(p, q) /\ Before(q, r) => Before(p, r)
         /\ \A q, r \in S : q = r \/ Before(q, r) \/ Before(r, q)
         /\ \A q, r \in S : ~(Before(q, r) /\ Before(r, q))
<1> DEFINE ts(r) == r.ts
           id(r) == r.id
<1>1. \A r \in S : ts(r) \in Int /\ id(r) \in Int
  BY RowFields DEF Keyed
<1>2. \A q, r \in S : id(q) = id(r) => q = r
  BY DEF Keyed
<1>3. \A q, r : Before(q, r) <=> ts(q) < ts(r) \/ (ts(q) = ts(r) /\ id(q) < id(r))
  BY DEF Before
<1> HIDE DEF ts, id
<1> QED
  BY <1>1, <1>2, <1>3

LEMMA Extremes ==
  ASSUME NEW S, Keyed(S), IsFiniteSet(S), S # {}
  PROVE  /\ \E m \in S : \A r \in S : r = m \/ Before(m, r)
         /\ \E m \in S : \A r \in S : r = m \/ Before(r, m)
<1> DEFINE Up   == {e \in S \X S : Before(e[1], e[2])}
           Down == {e \in S \X S : Before(e[2], e[1])}
<1>1. \A q, r \in S : (<<q, r>> \in Up <=> Before(q, r)) /\ (<<q, r>> \in Down <=> Before(r, q))
  OBVIOUS
<1> HIDE DEF Up, Down
<1>2. PICK m \in S : \A x \in S : <<x, m>> \notin Up
  <2>1. /\ \A x \in S : <<x, x>> \notin Up
        /\ \A x, y, z \in S : <<x, y>> \in Up /\ <<y, z>> \in Up => <<x, z>> \in Up
    BY <1>1, BeforeOrders
  <2> QED
    BY <2>1, Minimal
<1>3. PICK k \in S : \A x \in S : <<x, k>> \notin Down
  <2>1. /\ \A x \in S : <<x, x>> \notin Down
        /\ \A x, y, z \in S : <<x, y>> \in Down /\ <<y, z>> \in Down => <<x, z>> \in Down
    BY <1>1, BeforeOrders
  <2> QED
    BY <2>1, Minimal
<1> QED
  BY <1>1, <1>2, <1>3, BeforeOrders

(***************************************************************************)
(* Pages.                                                                  *)
(***************************************************************************)
\* A page holds what comes before any of its rows.
LEMMA FirstIsDownClosed ==
  ASSUME NEW S, Keyed(S), IsFiniteSet(S), NEW n \in Nat,
         NEW r \in First(S, n), NEW q \in S, Before(q, r)
  PROVE  q \in First(S, n)
<1> DEFINE Below(x) == {y \in S : Before(y, x)}
<1>1. r \in S /\ Cardinality(Below(r)) < n
  BY DEF First
<1>2. Below(q) \subseteq Below(r)
  BY <1>1, BeforeOrders
<1>3. IsFiniteSet(Below(r)) /\ IsFiniteSet(Below(q))
  BY FS_Subset
<1>4. Cardinality(Below(q)) <= Cardinality(Below(r))
  <2> HIDE DEF Below
  <2> QED
    BY <1>2, <1>3, FS_Subset
<1>5. Cardinality(Below(q)) \in Nat /\ Cardinality(Below(r)) \in Nat
  BY <1>3, FS_CardinalityType
<1>6. Cardinality(Below(q)) < n
  <2> HIDE DEF Below
  <2> QED
    BY <1>1, <1>4, <1>5
<1> QED
  BY <1>6 DEF First

\* A page is no longer than its limit.
LEMMA FirstIsBounded ==
  ASSUME NEW S, Keyed(S), IsFiniteSet(S), NEW n \in Nat
  PROVE  /\ First(S, n) \subseteq S /\ IsFiniteSet(First(S, n))
         /\ Cardinality(First(S, n)) \in Nat /\ Cardinality(First(S, n)) <= n
<1> DEFINE P == First(S, n)
<1>1. P \subseteq S
  BY DEF First
<1>2. IsFiniteSet(P) /\ Cardinality(P) \in Nat /\ Keyed(P)
  BY <1>1, FS_Subset, FS_CardinalityType DEF Keyed
<1>3. CASE P = {}
  BY <1>1, <1>2, <1>3, FS_EmptySet
<1>4. CASE P # {}
  <2> HIDE DEF P
  <2>1. PICK m \in P : \A r \in P : r = m \/ Before(r, m)
    BY <1>2, <1>4, Extremes
  <2> DEFINE B == {q \in S : Before(q, m)}
  <2>2. IsFiniteSet(B) /\ Cardinality(B) \in Nat
    BY FS_Subset, FS_CardinalityType
  <2>3. Cardinality(B) < n
    BY DEF First, P
  <2>4. P \subseteq B \cup {m}
    BY <1>1, <2>1
  <2>5. m \notin B
    BY <1>1, BeforeOrders
  <2>6. IsFiniteSet(B \cup {m}) /\ Cardinality(B \cup {m}) = Cardinality(B) + 1
    <3> HIDE DEF B
    <3> QED
      BY <2>2, <2>5, FS_AddElement
  <2>7. Cardinality(P) <= Cardinality(B \cup {m})
    <3> HIDE DEF B
    <3> QED
      BY <2>4, <2>6, FS_Subset
  <2>8. Cardinality(P) <= n
    <3> HIDE DEF B
    <3> QED
      BY <1>2, <2>2, <2>3, <2>6, <2>7
  <2> QED
    BY <1>1, <1>2, <2>8 DEF P
<1> QED
  BY <1>3, <1>4

\* A page shorter than its limit is all there is.
LEMMA ShortIsAll ==
  ASSUME NEW S, Keyed(S), IsFiniteSet(S), NEW n \in Nat, Cardinality(First(S, n)) < n
  PROVE  First(S, n) = S
<1> DEFINE P == First(S, n)
           Rest == S \ P
<1>1. P \subseteq S
  BY DEF First
<1>2. SUFFICES ASSUME Rest # {} PROVE FALSE
  BY <1>1
<1>3. Keyed(Rest) /\ IsFiniteSet(Rest)
  BY FS_Subset DEF Keyed
<1>4. PICK m \in Rest : \A r \in Rest : r = m \/ Before(m, r)
  <2> HIDE DEF Rest
  <2> QED
    BY <1>2, <1>3, Extremes
<1> DEFINE B == {q \in S : Before(q, m)}
<1>5. B \subseteq P
  BY <1>4, BeforeOrders
<1>6. IsFiniteSet(P) /\ Cardinality(P) \in Nat
  BY FirstIsBounded
<1>7. Cardinality(B) <= Cardinality(P) /\ Cardinality(B) \in Nat
  <2> HIDE DEF P, B
  <2> QED
    BY <1>5, <1>6, FS_Subset, FS_CardinalityType
<1>8. Cardinality(B) < n
  <2> HIDE DEF B
  <2> QED
    BY <1>6, <1>7
<1>9. m \in P
  BY <1>8 DEF First
<1> QED
  BY <1>4, <1>9

(***************************************************************************)
(* Types.                                                                  *)
(***************************************************************************)
\* A table whose ids are a key is finite.
LEMMA KeyedIsFinite ==
  ASSUME NEW S, Keyed(S)
  PROVE  IsFiniteSet(S)
<1> DEFINE f == [r \in S |-> r.id]
<1>1. f \in [S -> 1..MaxId]
  BY RowFields DEF Keyed
<1>2. \A r, q \in S : f[r] = f[q] => r = q
  BY DEF Keyed
<1>3. f \in Injection(S, 1..MaxId)
  <2> HIDE DEF f
  <2>1. DOMAIN f = S
    BY <1>1
  <2> QED
    BY <1>1, <1>2, <2>1 DEF Injection, IsInjective
<1>4. IsFiniteSet(1..MaxId)
  BY FS_Interval, ReadsAssumption
<1> QED
  BY <1>3, <1>4, FS_Injection

LEMMA InsertKeepsKey ==
  ASSUME Keyed(rows), InsertBatch
  PROVE  Keyed(rows') /\ rows \subseteq rows'
<1>1. PICK k \in 1..MaxBatch, top \in 0..MaxId :
        /\ \A r \in rows : r.id <= top
        /\ top + k <= MaxId
        /\ \E ts \in [1..k -> Times], s \in [1..k -> Surfaces] :
             rows' = rows \cup {[id |-> top + i, ts |-> ts[i], surface |-> s[i]] : i \in 1..k}
  BY DEF InsertBatch
<1>2. PICK ts \in [1..k -> Times], s \in [1..k -> Surfaces] :
        rows' = rows \cup {[id |-> top + i, ts |-> ts[i], surface |-> s[i]] : i \in 1..k}
  BY <1>1
<1> DEFINE new == {[id |-> top + i, ts |-> ts[i], surface |-> s[i]] : i \in 1..k}
<1>3. \A i \in 1..k : top + i \in Ids
  BY <1>1, ReadsAssumption DEF Ids
<1>4. new \subseteq Rows
  BY <1>3 DEF Rows
<1>5. \A r \in new : \E i \in 1..k : r = [id |-> top + i, ts |-> ts[i], surface |-> s[i]]
  OBVIOUS
<1>6. \A r, q \in new : r.id = q.id => r = q
  <2> SUFFICES ASSUME NEW i \in 1..k, NEW j \in 1..k, top + i = top + j
               PROVE  i = j
    BY <1>5
  <2> QED
    OBVIOUS
<1>7. \A r \in rows, q \in new : r.id # q.id
  <2> SUFFICES ASSUME NEW r \in rows, NEW i \in 1..k PROVE r.id # top + i
    BY <1>5
  <2> QED
    BY <1>1, RowFields DEF Keyed
<1>8. rows' = rows \cup new
  BY <1>2
<1> HIDE DEF new
<1> QED
  BY <1>4, <1>6, <1>7, <1>8 DEF Keyed

\* The rows a page is taken from.
Due == Until(req.before, After(cursor, OfSurface(req.surfaces[1], rows)))

LEMMA DueIsKeyed ==
  ASSUME Keyed(rows)
  PROVE  Due \subseteq rows /\ Keyed(Due) /\ IsFiniteSet(Due) /\ Page = First(Due, PageSize)
<1>1. Due \subseteq rows
  BY DEF Due, Until, After, OfSurface
<1>2. Keyed(Due)
  BY <1>1 DEF Keyed
<1> QED
  BY <1>1, <1>2, KeyedIsFinite DEF Page, RetrieveAfter, Due

RowsOK   == rows \subseteq Rows /\ kept \subseteq rows /\ \A r, q \in rows : r.id = q.id => r = q
PhaseOK  == phase \in {"idle", "export", "timeline", "done", "broken"} /\ req \in Requests
CursorOK == cursor \in [ts : Int, id : 0..MaxId]
PagesOK  == pages \in Seq(SUBSET Rows) /\ \A i \in DOMAIN pages : Cardinality(pages[i]) <= PageSize
AnswerOK == /\ asked \in 0..Len(req.surfaces)
            /\ got \subseteq [at : 1..asked, row : Rows]
            /\ answer \subseteq got /\ Cardinality(answer) <= req.limit
\* An answer begins with nothing queried.
Untouched == phase \in {"idle", "export"} => asked = 0 /\ got = {} /\ answer = {}

TypeInv == RowsOK /\ PhaseOK /\ CursorOK /\ PagesOK /\ AnswerOK /\ Untouched

LEMMA TypeParts == TypeInv => TypeOK
BY DEF TypeInv, RowsOK, PhaseOK, CursorOK, PagesOK, AnswerOK, TypeOK

LEMMA RowsStep == RowsOK /\ [Next]_vars => RowsOK'
<1> SUFFICES ASSUME RowsOK, [Next]_vars PROVE RowsOK'
  OBVIOUS
<1>1. CASE InsertBatch
  BY <1>1, InsertKeepsKey DEF RowsOK, Keyed, InsertBatch
<1>2. CASE DeleteByID \/ Purge
  BY <1>2 DEF RowsOK, DeleteByID, Purge, Delete
<1>3. CASE BeginExport
  BY <1>3 DEF RowsOK, BeginExport, Until, OfSurface
<1>4. CASE BeginTimeline \/ BeginDigest
  BY <1>4 DEF RowsOK, BeginTimeline, BeginDigest, Begin, Until
<1>5. CASE UNCHANGED <<rows, kept>>
  BY <1>5 DEF RowsOK
<1> QED
  BY <1>1, <1>2, <1>3, <1>4, <1>5
     DEF Next, vars, ReadPage, ExportBreaks, QuerySurface, Answer, QueryFails

LEMMA PhaseStep == PhaseOK /\ [Next]_vars => PhaseOK'
<1> SUFFICES ASSUME PhaseOK, [Next]_vars PROVE PhaseOK'
  OBVIOUS
<1> USE ReadsAssumption
<1>1. CASE BeginExport
  <2>1. PICK s \in Surfaces \cup {Every}, since \in Sinces, b \in Befores :
          req' = [kind |-> "export", surfaces |-> <<s>>, since |-> since, before |-> b, limit |-> 0]
    BY <1>1 DEF BeginExport
  <2>2. <<s>> \in Seq(Surfaces \cup {Every})
    OBVIOUS
  <2> QED
    BY <1>1, <2>1, <2>2 DEF BeginExport, PhaseOK, Requests
<1>2. ASSUME NEW kind \in {"timeline", "digest"}, NEW surfaces \in Seq(Surfaces \cup {Every}),
             NEW since \in Int, NEW b \in Int, NEW limit \in Nat,
             Begin(kind, surfaces, since, b, limit)
      PROVE  PhaseOK'
  <2>1. /\ req' = [kind |-> kind, surfaces |-> surfaces, since |-> since, before |-> b, limit |-> limit]
        /\ phase' = "timeline"
    BY <1>2 DEF Begin
  <2> QED
    BY <2>1 DEF PhaseOK, Requests
<1>3. CASE BeginTimeline \/ BeginDigest
  <2>1. CASE BeginTimeline
    <3>1. PICK surfaces \in Named, since \in Sinces, b \in Befores, limit \in 1..TimelineMax :
            Begin("timeline", surfaces, since, b, limit)
      BY <2>1 DEF BeginTimeline
    <3>2. surfaces \in Seq(Surfaces \cup {Every})
      <4>1. CASE surfaces = <<Every>>
        BY <4>1
      <4>2. CASE \E k \in 1..MaxNamed : surfaces \in [1..k -> Surfaces]
        <5>1. PICK k \in Nat : surfaces \in [1..k -> Surfaces]
          BY <4>2
        <5>2. surfaces \in [1..k -> Surfaces \cup {Every}]
          BY <5>1
        <5> QED
          BY <5>2
      <4> QED
        BY <4>1, <4>2 DEF Named
    <3> QED
      BY <1>2, <3>1, <3>2
  <2>2. CASE BeginDigest
    <3>1. PICK since \in Sinces : Begin("digest", <<Every>>, since, 0, DigestMax)
      BY <2>2 DEF BeginDigest
    <3>2. <<Every>> \in Seq(Surfaces \cup {Every})
      OBVIOUS
    <3>3. since \in Int /\ 0 \in Int /\ DigestMax \in Nat /\ "digest" \in {"timeline", "digest"}
      BY <3>1
    <3> QED
      BY <1>2, <3>1, <3>2, <3>3
  <2> QED
    BY <1>3, <2>1, <2>2
<1>4. CASE InsertBatch \/ DeleteByID \/ Purge \/ UNCHANGED vars
  BY <1>4 DEF PhaseOK, InsertBatch, DeleteByID, Purge, Delete, request, vars
<1>5. CASE ReadPage \/ ExportBreaks \/ QuerySurface \/ Answer \/ QueryFails
  BY <1>5 DEF PhaseOK, ReadPage, ExportBreaks, QuerySurface, Answer, QueryFails
<1> QED
  BY <1>1, <1>3, <1>4, <1>5 DEF Next

LEMMA CursorStep == RowsOK /\ CursorOK /\ [Next]_vars => CursorOK'
<1> SUFFICES ASSUME RowsOK, CursorOK, [Next]_vars PROVE CursorOK'
  OBVIOUS
<1>1. CASE BeginExport
  BY <1>1, ReadsAssumption DEF BeginExport, CursorOK
<1>2. CASE ReadPage
  <2>1. CASE UNCHANGED cursor
    BY <2>1 DEF CursorOK
  <2>2. CASE Page # {}
    <3>1. PICK last \in Page : cursor' = [ts |-> last.ts, id |-> last.id]
      BY <1>2, <2>2 DEF ReadPage
    <3>2. last \in Rows
      BY <3>1, DueIsKeyed, FirstIsBounded, ReadsAssumption DEF RowsOK, Keyed
    <3> QED
      BY <3>1, <3>2, RowFields DEF CursorOK
  <2> QED
    BY <1>2, <2>1, <2>2 DEF ReadPage
<1>3. CASE UNCHANGED cursor
  BY <1>3 DEF CursorOK
<1> QED
  BY <1>1, <1>2, <1>3
     DEF Next, vars, request, InsertBatch, DeleteByID, Purge, Delete, ExportBreaks,
         BeginTimeline, BeginDigest, Begin, QuerySurface, Answer, QueryFails

\* A page and every part of it that is sent: rows of the table, no more than a page.
LEMMA PageIsGood ==
  ASSUME RowsOK, NEW n \in 0..PageSize
  PROVE  /\ First(Page, n) \in SUBSET Rows /\ First(Page, n) \subseteq Page
         /\ Cardinality(First(Page, n)) <= n
         /\ Page \in SUBSET Rows /\ Page \subseteq Due
         /\ Cardinality(Page) \in Nat /\ Cardinality(Page) <= PageSize
<1>1. Keyed(rows)
  BY DEF RowsOK, Keyed
<1>2. Page \subseteq Due /\ IsFiniteSet(Page) /\ Cardinality(Page) \in Nat /\ Cardinality(Page) <= PageSize
  BY <1>1, DueIsKeyed, FirstIsBounded, ReadsAssumption
<1>3. Keyed(Page)
  BY <1>1, <1>2, DueIsKeyed DEF Keyed
<1>4. First(Page, n) \subseteq Page /\ Cardinality(First(Page, n)) <= n
  BY <1>2, <1>3, FirstIsBounded, ReadsAssumption
<1> QED
  BY <1>1, <1>2, <1>3, <1>4 DEF Keyed

LEMMA AppendedPage ==
  ASSUME PagesOK, NEW P \in SUBSET Rows, Cardinality(P) <= PageSize, pages' = Append(pages, P)
  PROVE  PagesOK'
BY DEF PagesOK

LEMMA PagesStep == RowsOK /\ PagesOK /\ [Next]_vars => PagesOK'
<1> SUFFICES ASSUME RowsOK, PagesOK, [Next]_vars PROVE PagesOK'
  OBVIOUS
<1>1. CASE ReadPage
  <2>1. CASE UNCHANGED pages
    BY <2>1 DEF PagesOK
  <2>2. CASE pages' = Append(pages, Page)
    <3>1. PageSize \in 0..PageSize
      BY ReadsAssumption
    <3> QED
      BY <2>2, <3>1, PageIsGood, AppendedPage
  <2> QED
    BY <1>1, <2>1, <2>2 DEF ReadPage
<1>2. CASE ExportBreaks
  <2>1. PICK n \in 0..PageSize - 1 : pages' = Append(pages, First(Page, n))
    BY <1>2 DEF ExportBreaks
  <2>2. n \in 0..PageSize /\ n \in Nat /\ n <= PageSize
    BY <2>1, ReadsAssumption
  <2>3. First(Page, n) \in SUBSET Rows /\ Cardinality(First(Page, n)) <= PageSize
    <3>1. Keyed(Page) /\ IsFiniteSet(Page)
      BY <2>2, PageIsGood, DueIsKeyed, KeyedIsFinite DEF RowsOK, Keyed
    <3>2. Cardinality(First(Page, n)) \in Nat /\ Cardinality(First(Page, n)) <= n
      BY <2>2, <3>1, FirstIsBounded
    <3> QED
      BY <2>2, <3>2, PageIsGood, ReadsAssumption
  <2> QED
    BY <2>1, <2>3, AppendedPage
<1>3. CASE UNCHANGED pages
  BY <1>3 DEF PagesOK
<1> QED
  BY <1>1, <1>2, <1>3
     DEF Next, vars, request, InsertBatch, DeleteByID, Purge, Delete, BeginExport,
         BeginTimeline, BeginDigest, Begin, QuerySurface, Answer, QueryFails

LEMMA AnswerStep == RowsOK /\ PhaseOK /\ AnswerOK /\ Untouched /\ [Next]_vars => AnswerOK' /\ Untouched'
<1> SUFFICES ASSUME RowsOK, PhaseOK, AnswerOK, Untouched, [Next]_vars PROVE AnswerOK' /\ Untouched'
  OBVIOUS
<1>1. CASE BeginExport \/ BeginTimeline \/ BeginDigest
  <2>1. asked' = 0 /\ got' = {} /\ answer' = {}
    BY <1>1 DEF BeginExport, BeginTimeline, BeginDigest, Begin, Untouched
  <2>2. req' \in Requests
    BY PhaseStep DEF PhaseOK
  <2>3. Len(req'.surfaces) \in Nat /\ req'.limit \in Nat
    BY <2>2 DEF Requests
  <2> QED
    BY <2>1, <2>3, FS_EmptySet DEF AnswerOK, Untouched
<1>2. CASE QuerySurface
  <2>1. PICK R \in Retrieve(req.surfaces[asked'], req.since, req.before, req.limit) :
          got' = got \cup {[at |-> asked', row |-> r] : r \in R}
    BY <1>2 DEF QuerySurface
  <2>2. R \subseteq Rows
    BY <2>1 DEF Retrieve, Oldest, Until, OfSurface, RowsOK
  <2>3. Len(req.surfaces) \in Nat /\ asked \in Nat
    BY DEF PhaseOK, Requests, AnswerOK
  <2>4. asked' \in 0..Len(req.surfaces) /\ asked' \in 1..asked' /\ 1..asked \subseteq 1..asked'
    BY <1>2, <2>3 DEF QuerySurface
  <2>5. got' \subseteq [at : 1..asked', row : Rows]
    BY <2>1, <2>2, <2>4 DEF AnswerOK
  <2>6. answer' \subseteq got'
    BY <1>2, <2>1 DEF QuerySurface, AnswerOK
  <2> QED
    BY <1>2, <2>4, <2>5, <2>6 DEF QuerySurface, AnswerOK, Untouched
<1>3. CASE Answer
  BY <1>3 DEF Answer, Merge, Oldest, AnswerOK, Untouched
<1>4. CASE InsertBatch \/ DeleteByID \/ Purge \/ UNCHANGED vars
  BY <1>4 DEF AnswerOK, Untouched, InsertBatch, DeleteByID, Purge, Delete, request, vars
<1>5. CASE ReadPage \/ ExportBreaks \/ QueryFails
  BY <1>5 DEF AnswerOK, Untouched, ReadPage, ExportBreaks, QueryFails
<1> QED
  BY <1>1, <1>2, <1>3, <1>4, <1>5 DEF Next

LEMMA TypeInit == Init => TypeInv
BY ReadsAssumption, FS_EmptySet
   DEF Init, TypeInv, RowsOK, PhaseOK, CursorOK, PagesOK, AnswerOK, Untouched, Requests

LEMMA TypeStep == TypeInv /\ [Next]_vars => TypeInv'
BY RowsStep, PhaseStep, CursorStep, PagesStep, AnswerStep DEF TypeInv

\* Type correctness: ids stay a key although deleted ones come back, and no
\* page and no timeline exceeds its limit.
THEOREM TypeCorrect == Spec => []TypeOK
<1>1. Spec => []TypeInv
  BY TypeInit, TypeStep, PTL DEF Spec
<1> QED
  BY <1>1, TypeParts, PTL

(***************************************************************************)
(* The export.  The cursor stands at the last row sent, and a row that is  *)
(* owed is either sent or behind the cursor, among those still due.        *)
(***************************************************************************)
Sent(r) == \E i \in DOMAIN pages : r \in pages[i]

SentAreBehind ==
  phase = "export" => /\ \A r \in Rows : Sent(r) => ~Before(cursor, r)
                      /\ pages # <<>> => cursor.id > 0
OwedIsDue   == phase = "export" => \A r \in kept : Sent(r) \/ r \in Due
\* Nothing is sent before an export begins, and a timeline is no export.
KindOK      == /\ phase = "idle" => pages = <<>>
               /\ phase = "export" => req.kind = "export"
               /\ phase = "timeline" => req.kind # "export"

ExportInv == SentAreBehind /\ OwedIsDue /\ KindOK /\ ExportOrdered /\ ExportComplete

LEMMA ExportInit == Init => ExportInv
BY DEF Init, ExportInv, SentAreBehind, OwedIsDue, KindOK, ExportOrdered, ExportComplete

\* What follows the cursor is later than all that was sent.
LEMMA DueIsAhead ==
  ASSUME TypeInv, ExportInv, phase = "export", NEW q \in Rows, Sent(q), NEW r \in Due
  PROVE  Before(q, r)
<1>1. pages # <<>>
  BY DEF Sent, TypeInv, PagesOK
<1>2. ~Before(cursor, q) /\ cursor.id > 0
  BY <1>1 DEF ExportInv, SentAreBehind
<1>3. r \in Rows /\ (cursor.ts > 0 \/ cursor.id > 0 => r.ts > cursor.ts \/ (r.ts = cursor.ts /\ r.id > cursor.id))
  BY DueIsKeyed DEF Due, After, Until, TypeInv, RowsOK, Keyed
<1>4. /\ q.ts \in Int /\ q.id \in Int /\ r.ts \in Int /\ r.id \in Int
      /\ cursor.ts \in Int /\ cursor.id \in Int
  BY <1>3, RowFields DEF TypeInv, CursorOK
<1> QED
  BY <1>2, <1>3, <1>4 DEF Before

LEMMA OrderedAppend ==
  ASSUME TypeInv, ExportInv, phase = "export", NEW P \in SUBSET Rows, P \subseteq Due,
         pages' = Append(pages, P)
  PROVE  ExportOrdered' /\ \A r \in Rows : Sent(r)' <=> Sent(r) \/ r \in P
<1>1. pages \in Seq(SUBSET Rows)
  BY DEF TypeInv, PagesOK
<1>2. /\ DOMAIN pages' = 1..Len(pages) + 1 /\ DOMAIN pages = 1..Len(pages) /\ Len(pages) \in Nat
      /\ \A i \in DOMAIN pages : pages'[i] = pages[i] /\ pages[i] \subseteq Rows
      /\ pages'[Len(pages) + 1] = P
  BY <1>1
<1>3. ASSUME NEW i \in DOMAIN pages', NEW j \in DOMAIN pages', i < j,
             NEW q \in pages'[i], NEW r \in pages'[j]
      PROVE  Before(q, r)
  <2>1. i \in DOMAIN pages /\ q \in pages[i] /\ q \in Rows
    BY <1>2, <1>3
  <2>2. CASE j \in DOMAIN pages
    BY <1>2, <1>3, <2>1, <2>2 DEF ExportInv, ExportOrdered
  <2>3. CASE j = Len(pages) + 1
    <3>1. Sent(q) /\ r \in Due
      BY <1>2, <1>3, <2>1, <2>3 DEF Sent
    <3> QED
      BY <2>1, <3>1, DueIsAhead
  <2> QED
    BY <1>2, <2>2, <2>3
<1>4. \A r \in Rows : Sent(r)' <=> Sent(r) \/ r \in P
  <2> SUFFICES ASSUME NEW r \in Rows
               PROVE  (\E i \in DOMAIN pages' : r \in pages'[i]) <=> (\E i \in DOMAIN pages : r \in pages[i]) \/ r \in P
    BY DEF Sent
  <2> QED
    BY <1>2
<1> QED
  BY <1>3, <1>4 DEF ExportOrdered

LEMMA ReadPageStep == ASSUME TypeInv, ExportInv, ReadPage PROVE ExportInv'
<1>1. /\ Keyed(rows) /\ Due \subseteq rows /\ Keyed(Due) /\ IsFiniteSet(Due)
      /\ Page = First(Due, PageSize) /\ PageSize \in Nat \ {0}
  BY DueIsKeyed, ReadsAssumption DEF TypeInv, RowsOK, Keyed
<1>2. Page \in SUBSET Rows /\ Page \subseteq Due /\ Cardinality(Page) \in Nat /\ Cardinality(Page) <= PageSize
  BY <1>1, FirstIsBounded DEF Keyed
<1>3. phase = "export" /\ UNCHANGED <<rows, req, kept>>
      /\ phase' = IF Cardinality(Page) < PageSize THEN "done" ELSE "export"
  BY DEF ReadPage
<1>4. Cardinality(Page) < PageSize => Page = Due
  BY <1>1, ShortIsAll
<1>5. CASE Page = {}
  <2>1. phase' = "done" /\ UNCHANGED pages /\ Due = {}
    BY <1>1, <1>3, <1>4, <1>5, FS_EmptySet DEF ReadPage
  <2>2. \A r \in kept : Sent(r)
    BY <1>3, <2>1 DEF ExportInv, OwedIsDue
  <2> QED
    BY <1>3, <2>1, <2>2
       DEF ExportInv, SentAreBehind, OwedIsDue, KindOK, ExportOrdered, ExportComplete, Sent
<1>6. CASE Page # {}
  <2>1. pages' = Append(pages, Page)
    BY <1>6 DEF ReadPage
  <2>2. PICK last \in Page :
          /\ \A r \in Page : r = last \/ Before(r, last)
          /\ cursor' = [ts |-> last.ts, id |-> last.id]
    BY <1>6 DEF ReadPage
  <2>3. ExportOrdered' /\ \A r \in Rows : Sent(r)' <=> Sent(r) \/ r \in Page
    BY <1>2, <1>3, <2>1, OrderedAppend
  <2>4. last \in Rows /\ last.ts \in Int /\ last.id \in 1..MaxId
        /\ \A r \in Rows : r.ts \in Int /\ r.id \in Int
    BY <1>2, <2>2, RowFields
  <2>5. \A r : Before(cursor', r) <=> Before(last, r)
    BY <2>2 DEF Before
  <2>6. SentAreBehind'
    <3>1. ASSUME NEW r \in Rows, Sent(r)'
          PROVE  ~Before(last, r)
      <4>1. r = last \/ Before(r, last)
        BY <1>2, <1>3, <2>2, <2>3, <3>1, DueIsAhead
      <4> QED
        BY <2>4, <4>1 DEF Before
    <3>2. cursor'.id > 0
      BY <2>2, <2>4
    <3> QED
      BY <2>5, <3>1, <3>2 DEF SentAreBehind
  <2>7. \A r \in kept : Sent(r)' \/ (r \in Due /\ r \notin Page)
    <3>1. kept \subseteq Rows
      BY DEF TypeInv, RowsOK
    <3> QED
      BY <1>3, <2>3, <3>1 DEF ExportInv, OwedIsDue
  <2>8. ASSUME NEW r \in Due, r \notin Page PROVE r \in Due'
    <3>1. Before(last, r)
      <4>1. last \in Due /\ (last = r \/ Before(last, r) \/ Before(r, last))
        BY <1>1, <1>2, <2>2, <2>8, BeforeOrders
      <4>2. ~Before(r, last)
        BY <1>1, <2>2, <2>8, FirstIsDownClosed
      <4> QED
        BY <2>2, <2>8, <4>1, <4>2
    <3>2. r.ts > cursor'.ts \/ (r.ts = cursor'.ts /\ r.id > cursor'.id)
      <4>1. r \in Rows
        BY <1>1 DEF Keyed
      <4> QED
        BY <2>2, <2>4, <3>1, <4>1 DEF Before
    <3> QED
      BY <1>3, <2>8, <3>2 DEF Due, Until, After, OfSurface
  <2>9. OwedIsDue'
    BY <1>3, <2>7, <2>8 DEF OwedIsDue
  <2>10. ExportComplete'
    <3>1. CASE phase' = "done"
      <4>1. Page = Due
        BY <1>3, <1>4, <3>1
      <4>2. \A r \in kept : Sent(r)'
        BY <2>7, <4>1
      <4> QED
        BY <1>3, <4>2 DEF ExportComplete, Sent
    <3> QED
      BY <1>3, <3>1 DEF ExportComplete
  <2> QED
    BY <1>3, <2>3, <2>6, <2>9, <2>10 DEF ExportInv, KindOK
<1> QED
  BY <1>5, <1>6

LEMMA BeginExportStep == ASSUME TypeInv, ExportInv, BeginExport PROVE ExportInv'
<1>1. PICK s \in Surfaces \cup {Every}, since \in Sinces, b \in Befores :
        /\ req' = [kind |-> "export", surfaces |-> <<s>>, since |-> since, before |-> b, limit |-> 0]
        /\ cursor' = [ts |-> since, id |-> 0]
        /\ kept' = {r \in Until(b, OfSurface(s, rows)) : since > 0 => r.ts >= since}
  BY DEF BeginExport
<1>2. pages = <<>> /\ pages' = <<>> /\ phase' = "export" /\ rows' = rows
  BY DEF BeginExport, ExportInv, KindOK
<1>3. \A r : ~Sent(r)'
  BY <1>2 DEF Sent
<1>4. ASSUME NEW r \in kept' PROVE r \in Due'
  <2>1. r \in rows /\ r \in Until(b, OfSurface(s, rows)) /\ (since > 0 => r.ts >= since)
    BY <1>1, <1>4 DEF Until, OfSurface
  <2>2. r.ts \in Int /\ r.id > 0 /\ since \in Int
    BY <2>1, RowFields, ReadsAssumption DEF TypeInv, RowsOK
  <2>3. since > 0 \/ 0 > 0 => r.ts > since \/ (r.ts = since /\ r.id > 0)
    BY <2>1, <2>2
  <2>4. req'.surfaces[1] = s /\ req'.before = b /\ cursor'.ts = since /\ cursor'.id = 0
    BY <1>1
  <2> QED
    BY <1>2, <2>1, <2>3, <2>4 DEF Due, Until, After, OfSurface
<1>5. req'.kind = "export"
  BY <1>1
<1> QED
  BY <1>2, <1>3, <1>4, <1>5
     DEF ExportInv, SentAreBehind, OwedIsDue, KindOK, ExportOrdered, ExportComplete

LEMMA ExportBreaksStep == ASSUME TypeInv, ExportInv, ExportBreaks PROVE ExportInv'
<1>1. PICK n \in 0..PageSize - 1 : pages' = Append(pages, First(Page, n))
  BY DEF ExportBreaks
<1>2. First(Page, n) \in SUBSET Rows /\ First(Page, n) \subseteq Due
  <2>1. n \in 0..PageSize
    BY ReadsAssumption
  <2> QED
    BY <2>1, PageIsGood DEF TypeInv
<1>3. phase = "export" /\ phase' = "broken"
  BY DEF ExportBreaks
<1>4. ExportOrdered'
  BY <1>1, <1>2, <1>3, OrderedAppend
<1> QED
  BY <1>3, <1>4 DEF ExportInv, SentAreBehind, OwedIsDue, KindOK, ExportComplete

\* Rows that are stored or go while the export stands still.
LEMMA StoreWriterStep ==
  ASSUME TypeInv, ExportInv, UNCHANGED request, kept' \subseteq kept,
         \A r \in kept' : r \in rows => r \in rows'
  PROVE  ExportInv'
<1>1. UNCHANGED <<phase, req, cursor, pages>>
  BY DEF request
<1>2. \A r : Sent(r)' <=> Sent(r)
  BY <1>1 DEF Sent
<1>3. \A r \in kept' : r \in Due => r \in Due'
  BY <1>1 DEF Due, Until, After, OfSurface
<1> QED
  BY <1>1, <1>2, <1>3
     DEF ExportInv, SentAreBehind, OwedIsDue, KindOK, ExportOrdered, ExportComplete

LEMMA TimelineStep ==
  ASSUME TypeInv, ExportInv,
         BeginTimeline \/ BeginDigest \/ QuerySurface \/ Answer \/ QueryFails
  PROVE  ExportInv'
<1>1. CASE BeginTimeline \/ BeginDigest
  <2>1. PICK kind, surfaces, since, b, limit :
          kind \in {"timeline", "digest"} /\ Begin(kind, surfaces, since, b, limit)
    BY <1>1 DEF BeginTimeline, BeginDigest
  <2>2. phase = "idle" /\ phase' = "timeline" /\ req'.kind # "export" /\ UNCHANGED pages
    BY <2>1 DEF Begin
  <2> QED
    BY <2>2 DEF ExportInv, SentAreBehind, OwedIsDue, KindOK, ExportOrdered, ExportComplete
<1>2. CASE QuerySurface \/ Answer \/ QueryFails
  <2>1. /\ phase = "timeline" /\ phase' \in {"timeline", "done", "broken"}
        /\ UNCHANGED <<req, pages>> /\ req.kind # "export"
    BY <1>2 DEF QuerySurface, Answer, QueryFails, ExportInv, KindOK
  <2> QED
    BY <2>1 DEF ExportInv, SentAreBehind, OwedIsDue, KindOK, ExportOrdered, ExportComplete
<1> QED
  BY <1>1, <1>2

LEMMA ExportStep == TypeInv /\ ExportInv /\ [Next]_vars => ExportInv'
<1> SUFFICES ASSUME TypeInv, ExportInv, [Next]_vars PROVE ExportInv'
  OBVIOUS
<1>1. CASE InsertBatch
  BY <1>1, InsertKeepsKey, StoreWriterStep DEF InsertBatch, TypeInv, RowsOK, Keyed
<1>2. CASE DeleteByID \/ Purge
  <2>1. PICK gone : Delete(gone)
    BY <1>2 DEF DeleteByID, Purge
  <2> QED
    BY <2>1, StoreWriterStep DEF Delete
<1>3. CASE UNCHANGED vars
  BY <1>3, StoreWriterStep DEF vars
<1> QED
  BY <1>1, <1>2, <1>3, BeginExportStep, ReadPageStep, ExportBreaksStep, TimelineStep DEF Next

(***************************************************************************)
(* The timeline.  Of a surface already queried, a row that is owed was     *)
(* given, or the query gave as many rows as the timeline may hold, none of *)
(* them later; so sorting and cutting lose nothing that an older row could *)
(* have been.                                                              *)
(***************************************************************************)
Entry(i, r)  == [at |-> i, row |-> r]
Wanted(i, r) == req.surfaces[i] \in {Every, r.surface}

Crowded(r) == \E Q \in SUBSET got : Cardinality(Q) = req.limit /\ \A e \in Q : e.row.ts <= r.ts

InBounds(r) == r \in Until(req.before, {q \in rows : req.since > 0 => q.ts > req.since})

AskedAreGot ==
  phase = "timeline" /\ req.limit <= RetrieveMax =>
    \A r \in kept, i \in 1..asked : Wanted(i, r) => Entry(i, r) \in got \/ Crowded(r)
KeptAreWanted ==
  phase = "timeline" => \A r \in kept : InBounds(r) /\ \E i \in DOMAIN req.surfaces : Wanted(i, r)

TimelineInv == IsFiniteSet(got) /\ AskedAreGot /\ KeptAreWanted /\ TimelineHasNoHole

\* As many entries as rows.
LEMMA Entries ==
  ASSUME NEW R, IsFiniteSet(R), NEW i
  PROVE  IsFiniteSet({Entry(i, r) : r \in R}) /\ Cardinality({Entry(i, r) : r \in R}) = Cardinality(R)
<1> DEFINE E == {Entry(i, r) : r \in R}
           f == [r \in R |-> Entry(i, r)]
<1>1. f \in [R -> E] /\ \A e \in E : \E r \in R : f[r] = e
  OBVIOUS
<1>2. \A r, q \in R : f[r] = f[q] => r = q
  <2> SUFFICES ASSUME NEW r \in R, NEW q \in R, Entry(i, r) = Entry(i, q) PROVE r = q
    OBVIOUS
  <2> QED
    BY DEF Entry
<1>3. f \in Bijection(R, E)
  <2> HIDE DEF f, E
  <2>1. DOMAIN f = R
    BY <1>1
  <2> QED
    BY <1>1, <1>2, <2>1 DEF Bijection, Injection, Surjection, IsInjective
<1>4. ExistsBijection(R, E)
  <2> HIDE DEF f, E
  <2> QED
    BY <1>3 DEF ExistsBijection
<1> QED
  BY <1>4, FS_Bijection

LEMMA QueryStep == ASSUME TypeInv, TimelineInv, QuerySurface PROVE TimelineInv'
<1>1. PICK R \in Retrieve(req.surfaces[asked'], req.since, req.before, req.limit) :
        got' = got \cup {Entry(asked', r) : r \in R}
  BY DEF QuerySurface, Entry
<1> DEFINE S == Until(req.before, {r \in OfSurface(req.surfaces[asked'], rows) : req.since > 0 => r.ts > req.since})
           E == {Entry(asked', r) : r \in R}
<1>2. /\ phase = "timeline" /\ UNCHANGED <<rows, phase, req, kept>>
      /\ asked' = asked + 1 /\ asked \in Nat /\ req.limit \in Nat
  BY DEF QuerySurface, TypeInv, AnswerOK, PhaseOK, Requests
<1>3. S \subseteq rows /\ IsFiniteSet(rows)
  BY KeyedIsFinite DEF TypeInv, RowsOK, Keyed, Until, OfSurface
<1>4. R \in SUBSET S
  BY <1>1 DEF Retrieve, Oldest
<1>5. IsFiniteSet(R)
  <2> HIDE DEF S
  <2> QED
    BY <1>3, <1>4, FS_Subset
<1>6. IsFiniteSet(E) /\ Cardinality(E) = Cardinality(R)
  BY <1>5, Entries
<1>7. IsFiniteSet(got')
  <2> HIDE DEF E
  <2>1. got' = got \cup E
    BY <1>1 DEF E
  <2> QED
    BY <1>6, <2>1, FS_Union DEF TimelineInv
<1>8. ASSUME req.limit <= RetrieveMax, NEW r \in kept, Wanted(asked', r)
      PROVE  Entry(asked', r) \in got' \/ Crowded(r)'
  <2>1. r \in S
    <3>1. r \in rows /\ InBounds(r)
      BY <1>2 DEF TimelineInv, KeptAreWanted, TypeInv, RowsOK
    <3> QED
      BY <1>8, <3>1 DEF InBounds, Wanted, Until, OfSurface
  <2>2. CASE r \in R
    BY <1>1, <2>2
  <2>3. CASE r \notin R
    <3>1. R \in Oldest(S, req.limit, [x \in S |-> x.ts])
      <4>1. ~(req.limit > RetrieveMax)
        BY <1>2, <1>8, ReadsAssumption
      <4> QED
        BY <1>1, <4>1 DEF Retrieve
    <3>2. Cardinality(R) = req.limit /\ \A x \in R : x.ts <= r.ts
      BY <2>1, <2>3, <3>1 DEF Oldest
    <3>3. \A e \in E : e.row.ts <= r.ts
      BY <3>2 DEF Entry
    <3>4. E \in SUBSET got' /\ Cardinality(E) = req'.limit
      BY <1>1, <1>2, <1>6, <3>2
    <3> QED
      BY <3>3, <3>4 DEF Crowded
  <2> QED
    BY <2>2, <2>3
<1>9. \A r : Crowded(r) => Crowded(r)'
  BY <1>1, <1>2 DEF Crowded
<1>10. AskedAreGot'
  <2> SUFFICES ASSUME req.limit <= RetrieveMax, NEW r \in kept, NEW i \in 1..asked', Wanted(i, r)
               PROVE  Entry(i, r) \in got' \/ Crowded(r)'
    BY <1>2 DEF AskedAreGot, Wanted
  <2>1. CASE i = asked'
    BY <1>8, <2>1
  <2>2. CASE i \in 1..asked
    BY <1>1, <1>2, <1>9, <2>2 DEF TimelineInv, AskedAreGot
  <2> QED
    BY <1>2, <2>1, <2>2
<1>11. KeptAreWanted'
  BY <1>2 DEF TimelineInv, KeptAreWanted, InBounds, Wanted, Until
<1> QED
  BY <1>2, <1>7, <1>10, <1>11 DEF TimelineInv, TimelineHasNoHole

\* The oldest entries of an answer leave out no entry older than one of them.
LEMMA AnswerStepWhole == ASSUME TypeInv, TimelineInv, Answer PROVE TimelineInv'
<1>1. /\ phase = "timeline" /\ phase' = "done" /\ asked = Len(req.surfaces)
      /\ answer' \in Merge(got) /\ UNCHANGED <<rows, req, got, kept>>
  BY DEF Answer
<1>2. /\ answer' \in SUBSET got /\ Cardinality(answer') <= req.limit
      /\ Cardinality(answer') = req.limit \/ answer' = got
      /\ \A e \in answer', d \in got \ answer' : e.row.ts <= d.row.ts
  BY <1>1 DEF Merge, Oldest
<1>3. IsFiniteSet(got) /\ IsFiniteSet(answer') /\ Cardinality(answer') \in Nat /\ req.limit \in Nat
  BY <1>2, FS_Subset, FS_CardinalityType DEF TimelineInv, TypeInv, PhaseOK, Requests
<1>4. ASSUME req.limit <= RetrieveMax, NEW r \in kept, \A e \in answer' : e.row # r
      PROVE  Cardinality(answer') = req.limit /\ \A e \in answer' : e.row.ts <= r.ts
  <2>1. PICK i \in 1..asked : Wanted(i, r)
    <3>1. DOMAIN req.surfaces = 1..asked
      BY <1>1 DEF TypeInv, PhaseOK, Requests
    <3> QED
      BY <1>1, <3>1 DEF TimelineInv, KeptAreWanted
  <2>2. Entry(i, r) \in got \/ Crowded(r)
    BY <1>1, <1>4, <2>1 DEF TimelineInv, AskedAreGot
  <2>3. CASE Entry(i, r) \in got
    <3>1. Entry(i, r) \notin answer' /\ Entry(i, r).row = r
      BY <1>4 DEF Entry
    <3> QED
      BY <1>2, <2>3, <3>1
  <2>4. CASE Crowded(r)
    <3>1. PICK Q \in SUBSET got : Cardinality(Q) = req.limit /\ \A e \in Q : e.row.ts <= r.ts
      BY <2>4 DEF Crowded
    <3>2. IsFiniteSet(Q) /\ Cardinality(Q) <= Cardinality(got) /\ Cardinality(got) \in Nat
      BY <1>3, <3>1, FS_Subset, FS_CardinalityType
    <3>3. Cardinality(answer') = req.limit
      BY <1>2, <1>3, <3>1, <3>2
    <3>4. ASSUME NEW e \in answer', ~(e.row.ts <= r.ts) PROVE FALSE
      <4>1. \A d \in got : d.row.ts \in Int
        BY RowFields DEF TypeInv, AnswerOK
      <4>2. r.ts \in Int
        BY RowFields DEF TypeInv, RowsOK
      <4>3. ASSUME NEW d \in Q PROVE d \in answer'
        <5>1. d.row.ts <= r.ts /\ d \in got /\ e \in got
          BY <1>2, <3>1
        <5>2. ~(e.row.ts <= d.row.ts)
          BY <3>4, <4>1, <4>2, <5>1
        <5> QED
          BY <1>2, <5>1, <5>2
      <4>4. e \notin Q
        BY <3>1, <3>4
      <4>5. Cardinality(Q \cup {e}) = Cardinality(Q) + 1 /\ Q \cup {e} \subseteq answer'
        BY <3>2, <4>3, <4>4, FS_AddElement
      <4>6. Cardinality(Q \cup {e}) <= Cardinality(answer')
        BY <1>3, <4>5, FS_Subset
      <4> QED
        BY <1>3, <3>1, <3>3, <4>5, <4>6
    <3> QED
      BY <3>3, <3>4
  <2> QED
    BY <2>2, <2>3, <2>4
<1>5. TimelineHasNoHole'
  BY <1>1, <1>4 DEF TimelineHasNoHole, Covers
<1> QED
  BY <1>1, <1>3, <1>5 DEF TimelineInv, AskedAreGot, KeptAreWanted

LEMMA BeginStep ==
  ASSUME TypeInv, TimelineInv, NEW kind, NEW surfaces, NEW since, NEW b, NEW limit,
         Begin(kind, surfaces, since, b, limit)
  PROVE  TimelineInv'
<1>1. phase' = "timeline" /\ rows' = rows /\ asked' = 0 /\ got' = got
  <2>1. phase = "idle" /\ phase' = "timeline" /\ rows' = rows /\ asked' = asked /\ got' = got
    BY DEF Begin
  <2>2. asked = 0
    BY <2>1 DEF TypeInv, Untouched
  <2> QED
    BY <2>1, <2>2
<1>2. AskedAreGot'
  BY <1>1 DEF AskedAreGot
<1>3. KeptAreWanted'
  <2>1. req'.since = since /\ req'.before = b /\ req'.surfaces = surfaces
    BY DEF Begin
  <2>2. ASSUME NEW r \in kept'
        PROVE  /\ r \in rows /\ (b > 0 => r.ts < b) /\ (since > 0 => r.ts > since)
               /\ \E i \in DOMAIN surfaces : surfaces[i] \in {Every, r.surface}
    <3>1. /\ r \in Until(b, rows) /\ (since > 0 => r.ts > since)
          /\ \E i \in DOMAIN surfaces : surfaces[i] \in {Every, r.surface}
      BY <2>2, Zenon DEF Begin
    <3> QED
      BY <3>1 DEF Until
  <2>3. ASSUME NEW r \in kept'
        PROVE  InBounds(r)'
    BY <1>1, <2>1, <2>2 DEF InBounds, Until
  <2> QED
    BY <2>1, <2>2, <2>3 DEF KeptAreWanted, Wanted
<1> QED
  BY <1>1, <1>2, <1>3 DEF TimelineInv, TimelineHasNoHole

\* What is owed shrinks with the table and never grows.
LEMMA WriterKeepsTimeline ==
  ASSUME TypeInv, TimelineInv, UNCHANGED request, kept' \subseteq kept,
         \A r \in kept' : r \in rows => r \in rows'
  PROVE  TimelineInv'
<1>1. UNCHANGED <<phase, req, asked, got, answer>>
  BY DEF request
<1>2. \A r : Crowded(r) => Crowded(r)'
  BY <1>1 DEF Crowded
<1>3. AskedAreGot'
  BY <1>1, <1>2 DEF TimelineInv, AskedAreGot, Wanted
<1>4. KeptAreWanted'
  BY <1>1 DEF TimelineInv, KeptAreWanted, InBounds, Wanted, Until
<1>5. TimelineHasNoHole'
  BY <1>1 DEF TimelineInv, TimelineHasNoHole, Covers
<1> QED
  BY <1>1, <1>3, <1>4, <1>5 DEF TimelineInv

\* The other requests leave a timeline alone.
LEMMA OtherStep ==
  ASSUME TypeInv, TimelineInv, PhaseOK', BeginExport \/ ReadPage \/ ExportBreaks \/ QueryFails, ExportInv
  PROVE  TimelineInv'
<1>1. got' = got /\ phase' # "timeline"
  BY DEF BeginExport, ReadPage, ExportBreaks, QueryFails
<1>2. CASE QueryFails
  BY <1>1, <1>2 DEF QueryFails, TimelineInv, AskedAreGot, KeptAreWanted, TimelineHasNoHole
<1>3. CASE BeginExport
  BY <1>1, <1>3 DEF BeginExport, TimelineInv, AskedAreGot, KeptAreWanted, TimelineHasNoHole
<1>4. CASE ReadPage \/ ExportBreaks
  <2>1. phase = "export" /\ UNCHANGED req
    BY <1>4 DEF ReadPage, ExportBreaks
  <2>2. TimelineHasNoHole'
    BY <2>1 DEF TimelineHasNoHole, ExportInv, KindOK
  <2> QED
    BY <1>1, <2>2 DEF TimelineInv, AskedAreGot, KeptAreWanted
<1> QED
  BY <1>2, <1>3, <1>4

LEMMA TimelineInvStep == TypeInv /\ ExportInv /\ TimelineInv /\ [Next]_vars => TimelineInv'
<1> SUFFICES ASSUME TypeInv, ExportInv, TimelineInv, [Next]_vars PROVE TimelineInv'
  OBVIOUS
<1>1. CASE InsertBatch
  BY <1>1, InsertKeepsKey, WriterKeepsTimeline DEF InsertBatch, TypeInv, RowsOK, Keyed
<1>2. CASE DeleteByID \/ Purge
  <2>1. PICK gone : Delete(gone)
    BY <1>2 DEF DeleteByID, Purge
  <2> QED
    BY <2>1, WriterKeepsTimeline DEF Delete
<1>3. CASE UNCHANGED vars
  BY <1>3, WriterKeepsTimeline DEF vars
<1>4. CASE BeginTimeline \/ BeginDigest
  <2>1. PICK kind, surfaces, since, b, limit : Begin(kind, surfaces, since, b, limit)
    BY <1>4 DEF BeginTimeline, BeginDigest
  <2> QED
    BY <2>1, BeginStep
<1>5. CASE BeginExport \/ ReadPage \/ ExportBreaks \/ QueryFails
  <2>1. PhaseOK'
    BY PhaseStep DEF TypeInv
  <2> QED
    BY <1>5, <2>1, OtherStep
<1> QED
  BY <1>1, <1>2, <1>3, <1>4, <1>5, QueryStep, AnswerStepWhole DEF Next

---------------------------------------------------------------------------
\* What a client does that is not followed.
PassIdle == client # "pass" => pass = "idle"

(***************************************************************************)
(* Times and cutoffs.                                                      *)
(***************************************************************************)
\* Arithmetic wraps around only outside an int64.
LEMMA WrapIsExact ==
  ASSUME NEW n \in Int, -HalfWord <= n, n < HalfWord
  PROVE  Wrap(n) = n
<1>1. HalfWord \in Nat /\ HalfWord > 0
  BY RetentionAssumption
<1>2. \A k \in Nat, m \in Nat : k < m => k % m = k
  OBVIOUS
<1>3. n + HalfWord \in Nat /\ 2 * HalfWord \in Nat /\ n + HalfWord < 2 * HalfWord
  BY <1>1
<1> QED
  BY <1>1, <1>2, <1>3 DEF Wrap

\* The table: times fit in an int64, and no surface is Every.
RowsFit == \A r \in rows : r.ts \in Times /\ r.surface \in Surfaces

LEMMA InsertFits == ASSUME RowsFit, InsertBatch PROVE RowsFit' /\ rows \subseteq rows'
<1>1. PICK k \in 1..MaxBatch, top \in 0..MaxId :
        \E ts \in [1..k -> Times], s \in [1..k -> Surfaces] :
          rows' = rows \cup {[id |-> top + i, ts |-> ts[i], surface |-> s[i]] : i \in 1..k}
  BY DEF InsertBatch
<1>2. PICK ts \in [1..k -> Times], s \in [1..k -> Surfaces] :
        rows' = rows \cup {[id |-> top + i, ts |-> ts[i], surface |-> s[i]] : i \in 1..k}
  BY <1>1
<1> QED
  BY <1>2 DEF RowsFit

\* The policy that a pass follows is one of Policies.
PolicyOK == pass # "idle" => policy \in Policies /\ todo \subseteq DOMAIN policy

LEMMA DaysAreInt ==
  ASSUME PolicyOK, pass # "idle", NEW s \in DOMAIN policy
  PROVE  policy[s] \in Int /\ s \in Surfaces \cup {NoName}
BY RetentionAssumption DEF PolicyOK

(***************************************************************************)
(* What a purge of one surface deletes.                                    *)
(***************************************************************************)
\* Where the cutoff is after 1970, only rows that may go.
LEMMA ExpiredMayGo ==
  ASSUME RowsFit, PolicyOK, pass # "idle", NEW s \in DOMAIN policy, ~ Skipped(s),
         policy[s] < Now, NEW r \in Expired(s)
  PROVE  MayGo(r)
<1>1. policy[s] \in Int /\ s \in Surfaces /\ policy[s] > 0
  BY DaysAreInt DEF Skipped
<1>2. Now \in Nat /\ Now < HalfWord /\ HalfWord \in Nat
  BY RetentionAssumption
<1>3. Now - policy[s] \in Int /\ Now - policy[s] > 0 /\ -HalfWord <= Now - policy[s] /\ Now - policy[s] < HalfWord
  BY <1>1, <1>2
<1>4. Cutoff(s) = Now - policy[s]
  BY <1>3, WrapIsExact DEF Cutoff
<1>5. r \in rows /\ s \in {Every, r.surface} /\ (Cutoff(s) > 0 => r.ts < Cutoff(s))
  BY DEF Expired, Until, OfSurface
<1>6. s # Every
  BY <1>1, ReadsAssumption
<1> QED
  BY <1>1, <1>3, <1>4, <1>5, <1>6 DEF MayGo

\* And all of the surface's rows that may go, however long its days: where the
\* cutoff wraps around, no row is old enough.
LEMMA MayGoExpires ==
  ASSUME RowsFit, PolicyOK, pass # "idle", NEW r \in rows, MayGo(r)
  PROVE  ~ Skipped(r.surface) /\ r \in Expired(r.surface)
<1> DEFINE s == r.surface
<1>1. s \in DOMAIN policy /\ policy[s] > 0 /\ r.ts < Now - policy[s]
  BY DEF MayGo
<1>2. policy[s] \in Int /\ s \in Surfaces /\ r.ts \in Times
  BY <1>1, DaysAreInt DEF RowsFit
<1>3. r.ts \in Int /\ -HalfWord <= r.ts
  BY <1>2, RetentionAssumption, ReadsAssumption
<1>4. Now \in Nat /\ Now < HalfWord /\ HalfWord \in Nat /\ s # NoName
  BY <1>2, RetentionAssumption
<1> HIDE DEF s
<1>5. Now - policy[s] \in Int /\ -HalfWord <= Now - policy[s] /\ Now - policy[s] < HalfWord
  BY <1>1, <1>2, <1>3, <1>4
<1>6. Cutoff(s) = Now - policy[s]
  BY <1>5, WrapIsExact DEF Cutoff
<1>7. ~ Skipped(s)
  BY <1>1, <1>2, <1>4 DEF Skipped
<1>8. r \in Expired(s)
  BY <1>1, <1>6 DEF Expired, Until, OfSurface, s
<1> QED
  BY <1>7, <1>8 DEF s

(***************************************************************************)
(* The pass.                                                               *)
(***************************************************************************)
\* What has been deleted, or is still owed, by where the pass is.
Owed ==
  pass \in {"purge", "purged"} =>
    /\ present \subseteq rows
    /\ \A r \in present : MayGo(r) => r.surface \in failed \cup todo

PassInv ==
  /\ PassIdle
  /\ RowsFit
  /\ PolicyOK
  /\ pass = "idle" => deleted = {} /\ present = {}
  /\ pass = "purged" => todo = {}
  /\ OnlyExpiredGo
  /\ Owed

LEMMA PassInvInit == ClientsInit => PassInv
BY DEF ClientsInit, Init, PassInit, PassInv, PassIdle, RowsFit, PolicyOK, OnlyExpiredGo, Owed

LEMMA ReadPolicyStep == ASSUME PassInv, ReadPolicy, UNCHANGED client, client = "pass" PROVE PassInv'
<1>1. RowsFit' /\ PassIdle' /\ deleted' = {} /\ present' = rows' /\ pass' \in {"purge", "dry"}
  BY DEF PassInv, ReadPolicy, RowsFit, PassIdle
<1>2. policy' \in Policies /\ todo' = DOMAIN policy'
  BY DEF ReadPolicy
<1>3. OnlyExpiredGo'
  BY <1>1 DEF OnlyExpiredGo
<1>4. Owed'
  BY <1>1, <1>2 DEF Owed, MayGo
<1> QED
  BY <1>1, <1>2, <1>3, <1>4 DEF PassInv, PolicyOK

\* Neither the policy nor the table change where MayGo is asked again.
LEMMA SamePolicy == ASSUME UNCHANGED policy PROVE \A r : MayGo(r)' <=> MayGo(r)
BY DEF MayGo

LEMMA PurgeStep ==
  ASSUME PassInv, NEW s \in todo, PurgeSurface(s), UNCHANGED client, client = "pass"
  PROVE  PassInv'
<1>1. /\ pass = "purge" /\ pass' = "purge" /\ ~ Skipped(s) /\ policy' = policy /\ failed' = failed
      /\ todo' = todo \ {s} /\ rows' = rows \ Expired(s) /\ present' = present \ Expired(s)
      /\ deleted' = deleted \cup Expired(s)
  BY DEF PurgeSurface
<1>2. RowsFit' /\ PolicyOK' /\ PassIdle'
  BY <1>1 DEF PassInv, RowsFit, PolicyOK, PassIdle
<1>3. RowsFit /\ PolicyOK /\ s \in DOMAIN policy
  BY <1>1 DEF PassInv, PolicyOK
<1>4. OnlyExpiredGo'
  <2> SUFFICES ASSUME \A t \in DOMAIN policy : policy[t] < Now, NEW r \in deleted \cup Expired(s)
               PROVE  MayGo(r)
    BY <1>1, SamePolicy DEF OnlyExpiredGo
  <2>1. CASE r \in deleted
    BY <2>1 DEF PassInv, OnlyExpiredGo
  <2>2. CASE r \in Expired(s)
    BY <1>1, <1>3, <2>2, ExpiredMayGo
  <2> QED
    BY <2>1, <2>2
<1>5. Owed'
  <2>1. present' \subseteq rows'
    BY <1>1 DEF PassInv, Owed
  <2>2. ASSUME NEW r \in present \ Expired(s), MayGo(r) PROVE r.surface \in failed \cup (todo \ {s})
    <3>1. r \in rows /\ r.surface \in failed \cup todo
      BY <1>1, <2>2 DEF PassInv, Owed
    <3>2. r \in Expired(r.surface)
      BY <1>1, <1>3, <2>2, <3>1, MayGoExpires
    <3>3. r.surface # s
      BY <2>2, <3>2
    <3> QED
      BY <3>1, <3>3
  <2> QED
    BY <1>1, <2>1, <2>2, SamePolicy DEF Owed
<1> QED
  BY <1>1, <1>2, <1>4, <1>5 DEF PassInv

LEMMA SkipStep ==
  ASSUME PassInv, NEW s \in todo, Skip(s) \/ SurfaceFails(s) \/ CountSurface(s),
         UNCHANGED client, client = "pass"
  PROVE  PassInv'
<1>1. /\ todo' = todo \ {s} /\ UNCHANGED <<rows, pass, policy, deleted, present>>
  BY DEF Skip, SurfaceFails, CountSurface
<1>2. (Skip(s) /\ failed' = failed) \/ failed' = failed \cup {s} \/ pass = "dry"
  BY DEF Skip, SurfaceFails, CountSurface
<1>3. RowsFit' /\ PolicyOK' /\ PassIdle' /\ (pass' = "purged" => todo' = {})
  BY <1>1 DEF PassInv, RowsFit, PolicyOK, PassIdle
<1>4. OnlyExpiredGo'
  BY <1>1, SamePolicy DEF PassInv, OnlyExpiredGo
<1>5. Owed'
  <2> SUFFICES ASSUME pass \in {"purge", "purged"} PROVE Owed'
    BY <1>1 DEF Owed
  <2>1. present \subseteq rows /\ \A r \in present : MayGo(r) => r.surface \in failed \cup todo
    BY DEF PassInv, Owed
  <2>2. CASE failed' = failed \cup {s}
    BY <1>1, <2>1, <2>2, SamePolicy DEF Owed
  <2>3. CASE Skip(s) /\ failed' = failed
    <3>1. pass # "idle" /\ RowsFit /\ PolicyOK
      BY DEF PassInv
    <3>2. ASSUME NEW r \in present, MayGo(r) PROVE r.surface # s
      <4>1. ~ Skipped(r.surface)
        BY <2>1, <3>1, <3>2, MayGoExpires
      <4> QED
        BY <2>3, <4>1 DEF Skip
    <3> QED
      BY <1>1, <2>1, <2>3, <3>2, SamePolicy DEF Owed
  <2> QED
    BY <1>2, <2>2, <2>3
<1> QED
  BY <1>1, <1>3, <1>4, <1>5 DEF PassInv

LEMMA EndPassStep == ASSUME PassInv, EndPass, UNCHANGED client, client = "pass" PROVE PassInv'
<1>1. /\ pass \in {"purge", "dry"} /\ todo = {} /\ UNCHANGED <<rows, policy, todo, failed, deleted, present>>
      /\ pass' \in {"purged", "counted"} /\ (pass' = "purged" => pass = "purge")
  BY DEF EndPass
<1>2. OnlyExpiredGo'
  BY <1>1, SamePolicy DEF PassInv, OnlyExpiredGo
<1>3. Owed'
  BY <1>1, SamePolicy DEF PassInv, Owed
<1> QED
  BY <1>1, <1>2, <1>3 DEF PassInv, RowsFit, PolicyOK, PassIdle

LEMMA WriterStep == ASSUME PassInv, OtherWriter, UNCHANGED client, client = "pass" PROVE PassInv'
<1>1. UNCHANGED <<pass, policy, todo, failed, deleted>> /\ present' = present \cap rows'
  BY DEF OtherWriter, passState
<1>2. RowsFit'
  <2>1. CASE InsertBatch
    BY <2>1, InsertFits DEF PassInv
  <2>2. CASE DeleteByID
    BY <2>2 DEF PassInv, RowsFit, DeleteByID, Delete
  <2> QED
    BY <2>1, <2>2 DEF OtherWriter
<1>3. OnlyExpiredGo'
  BY <1>1, SamePolicy DEF PassInv, OnlyExpiredGo
<1>4. Owed'
  BY <1>1, SamePolicy DEF PassInv, Owed
<1> QED
  BY <1>1, <1>2, <1>3, <1>4 DEF PassInv, PolicyOK, PassIdle

\* A reader's own steps and its writers.
LEMMA ReaderFits == ASSUME RowsFit, Next PROVE RowsFit'
<1>1. CASE InsertBatch
  BY <1>1, InsertFits
<1>2. CASE DeleteByID \/ Purge
  BY <1>2 DEF RowsFit, DeleteByID, Purge, Delete
<1>3. CASE UNCHANGED rows
  BY <1>3 DEF RowsFit
<1>4. \/ InsertBatch \/ DeleteByID \/ Purge \/ UNCHANGED rows
  BY DEF Next, BeginExport, ReadPage, ExportBreaks, BeginTimeline, BeginDigest, Begin,
         QuerySurface, Answer, QueryFails
<1> QED
  BY <1>1, <1>2, <1>3, <1>4

LEMMA PassInvStep == PassInv /\ [ClientsNext]_clientVars => PassInv'
<1> SUFFICES ASSUME PassInv, [ClientsNext]_clientVars PROVE PassInv'
  OBVIOUS
<1>1. CASE Reader
  <2>1. UNCHANGED passVars /\ pass = "idle" /\ UNCHANGED client
    BY <1>1 DEF Reader, PassInv, PassIdle
  <2>2. UNCHANGED <<pass, policy, todo, failed, deleted, present>>
    BY <2>1 DEF passVars, passState
  <2>3. RowsFit'
    BY <1>1, ReaderFits DEF Reader, PassInv
  <2>4. OnlyExpiredGo' /\ Owed'
    BY <2>1, <2>2 DEF PassInv, OnlyExpiredGo, Owed
  <2> QED
    BY <2>1, <2>2, <2>3, <2>4 DEF PassInv, PassIdle, PolicyOK
<1>2. CASE Pass
  <2>1. client = "pass" /\ UNCHANGED client /\ PassNext
    BY <1>2 DEF Pass
  <2>2. CASE ReadPolicy
    BY <2>1, <2>2, ReadPolicyStep
  <2>3. CASE EndPass
    BY <2>1, <2>3, EndPassStep
  <2>4. CASE OtherWriter
    BY <2>1, <2>4, WriterStep
  <2>5. ASSUME NEW s \in todo, Skip(s) \/ PurgeSurface(s) \/ SurfaceFails(s) \/ CountSurface(s)
        PROVE  PassInv'
    BY <2>1, <2>5, SkipStep, PurgeStep
  <2> QED
    BY <2>1, <2>2, <2>3, <2>4, <2>5 DEF PassNext
<1>3. CASE Question \/ Viewer \/ UNCHANGED clientVars
  <2>1. UNCHANGED <<client, rows, pass, policy, todo, failed, deleted, present>>
    BY <1>3 DEF Question, Viewer, clientVars, vars, passVars, passState
  <2>2. OnlyExpiredGo' /\ Owed'
    BY <2>1, SamePolicy DEF PassInv, OnlyExpiredGo, Owed
  <2> QED
    BY <2>1, <2>2 DEF PassInv, RowsFit, PassIdle, PolicyOK
<1> QED
  BY <1>1, <1>2, <1>3 DEF ClientsNext

LEMMA PassInvariant == ClientsSpec => []PassInv
<1> QED
  BY PassInvInit, PassInvStep, PTL DEF ClientsSpec

\* eideticd-compliance deletes nothing that its policy keeps, on any surface,
\* while others write, provided that every cutoff falls after 1970.
THEOREM OnlyExpired == ClientsSpec => []OnlyExpiredGo
<1>1. PassInv => OnlyExpiredGo
  BY DEF PassInv
<1> QED
  BY <1>1, PassInvariant, PTL

\* A pass that has ended leaves no expired row that was there when it began,
\* however long the days, but on surfaces whose query failed.
THEOREM AllExpired == ClientsSpec => []ExpiredAllGo
<1>1. PassInv => ExpiredAllGo
  BY DEF PassInv, Owed, ExpiredAllGo
<1> QED
  BY <1>1, PassInvariant, PTL

(***************************************************************************)
(* The viewer.                                                             *)
(***************************************************************************)
\* When the timer of the last keystroke has ended, all that was typed has been
\* searched for: a timer of an earlier keystroke neither searches nor
\* keeps the last from doing so.
THEOREM SearchIsSettled == ClientsSpec => []SearchSettles
<1>1. ClientsInit => SearchSettles
  BY DEF ClientsInit, BrowseInit, SearchSettles
<1>2. SearchSettles /\ [ClientsNext]_clientVars => SearchSettles'
  <2> SUFFICES ASSUME SearchSettles, [ClientsNext]_clientVars PROVE SearchSettles'
    OBVIOUS
  <2>1. ASSUME NEW text \in Texts, Type(text) PROVE SearchSettles'
    BY <2>1 DEF Type, SearchSettles
  <2>2. ASSUME NEW t \in timers, TimerEnds(t) PROVE SearchSettles'
    BY <2>2 DEF TimerEnds, SearchSettles
  <2>3. CASE UNCHANGED <<input, typed, timers, searched>>
    BY <2>3 DEF SearchSettles
  <2>4. ASSUME BrowseNext
        PROVE  \/ \E text \in Texts : Type(text)
               \/ \E t \in timers : TimerEnds(t)
               \/ UNCHANGED <<input, typed, timers, searched>>
    BY <2>4 DEF BrowseNext, DetailKey, Move, Enter, CycleSurface, EnterAsk, SwitchView, TypeAsk,
                Loaded, LoadFails, boxes
  <2>5. BrowseNext \/ UNCHANGED browseVars
    BY DEF ClientsNext, Reader, Question, Pass, Viewer, clientVars
  <2> QED
    BY <2>1, <2>2, <2>3, <2>4, <2>5 DEF browseVars
<1> QED
  BY <1>1, <1>2, PTL DEF ClientsSpec

(***************************************************************************)
(* The list of the cache and its map.                                      *)
(***************************************************************************)
\* A list that names each key of a set once.
Lists(seq, K) ==
  /\ seq \in Seq(Keys)
  /\ \A i, j \in 1 .. Len(seq) : seq[i] = seq[j] => i = j
  /\ K = {seq[i] : i \in 1 .. Len(seq)}

\* A removed element leaves a list of the other keys.
LEMMA WithoutLists ==
  ASSUME Lists(order, DOMAIN entries), NEW k
  PROVE  /\ Lists(Without(k), DOMAIN entries \ {k})
         /\ Len(Without(k)) = IF k \in DOMAIN entries THEN Len(order) - 1 ELSE Len(order)
<1> DEFINE m == Len(order)
           w == Without(k)
<1>0. /\ order \in Seq(Keys) /\ m \in Nat /\ DOMAIN order = 1..m
      /\ \A i \in 1..m : order[i] \in Keys
      /\ \A i, j \in 1..m : order[i] = order[j] => i = j
      /\ \A j : j \in DOMAIN entries <=> \E i \in 1..m : order[i] = j
  BY DEF Lists
<1>1. CASE k \notin DOMAIN entries
  <2>1. w = order
    BY <1>1 DEF Without
  <2>2. DOMAIN entries \ {k} = DOMAIN entries
    BY <1>1
  <2> QED
    BY <1>1, <2>1, <2>2
<1>2. CASE k \in DOMAIN entries
  <2> DEFINE a == At(k)
  <2>1. a \in 1..m /\ order[a] = k
    BY <1>0, <1>2 DEF At
  <2>2. w = [i \in 1 .. m - 1 |-> order[IF i < a THEN i ELSE i + 1]]
    BY <1>2 DEF Without
  <2> HIDE DEF a, m, w
  <2>3. m - 1 \in Nat
    BY <1>0, <2>1
  <2>4. ASSUME NEW i \in 1 .. m - 1
        PROVE  /\ i < a => w[i] = order[i] /\ i \in 1..m
               /\ ~ i < a => w[i] = order[i + 1] /\ i + 1 \in 1..m
               /\ w[i] \in Keys
    BY <1>0, <2>1, <2>2
  <2>5. w \in Seq(Keys) /\ Len(w) = m - 1
    BY <2>2, <2>3, <2>4
  <2>6. ASSUME NEW i \in 1 .. m - 1, NEW j \in 1 .. m - 1, w[i] = w[j]
        PROVE  i = j
    BY <1>0, <2>1, <2>4, <2>6
  <2>7. ASSUME NEW i \in 1 .. m - 1
        PROVE  w[i] \in DOMAIN entries \ {k}
    BY <1>0, <2>1, <2>4
  <2>8. ASSUME NEW j \in DOMAIN entries \ {k}
        PROVE  \E i \in 1 .. m - 1 : w[i] = j
    <3>1. PICK i \in 1..m : order[i] = j
      BY <1>0
    <3>2. CASE i < a
      BY <1>0, <2>1, <2>4, <3>1, <3>2
    <3>3. CASE ~ i < a
      <4>1. i # a
        BY <2>1, <3>1
      <4>2. i - 1 \in 1 .. m - 1 /\ ~ i - 1 < a /\ (i - 1) + 1 = i
        BY <1>0, <2>1, <3>1, <3>3, <4>1
      <4> QED
        BY <2>4, <3>1, <4>2
    <3> QED
      BY <3>2, <3>3
  <2>9. DOMAIN entries \ {k} = {w[i] : i \in 1 .. Len(w)}
    BY <2>5, <2>7, <2>8
  <2> QED
    BY <1>2, <2>5, <2>6, <2>9 DEF Lists, m, w
<1> QED
  BY <1>1, <1>2

\* A key in front of a list that does not name it.
LEMMA PushLists ==
  ASSUME NEW seq, NEW K, Lists(seq, K), NEW k \in Keys, k \notin K,
         NEW w, w = <<k>> \o seq
  PROVE  Lists(w, K \cup {k}) /\ Len(w) = Len(seq) + 1
<1> DEFINE m == Len(seq)
<1>0. /\ seq \in Seq(Keys) /\ m \in Nat
      /\ \A i, j \in 1..m : seq[i] = seq[j] => i = j
      /\ \A j : j \in K <=> \E i \in 1..m : seq[i] = j
  BY DEF Lists
<1>1. /\ w \in Seq(Keys) /\ Len(w) = m + 1 /\ w[1] = k
      /\ \A i \in 2 .. m + 1 : w[i] = seq[i - 1]
      /\ \A i \in 1..m : w[i + 1] = seq[i]
  BY <1>0
<1> HIDE DEF m
<1>2. \A i \in 2 .. m + 1 : w[i] \in K /\ i - 1 \in 1..m
  BY <1>0, <1>1
<1>3. ASSUME NEW i \in 1 .. m + 1, NEW j \in 1 .. m + 1, w[i] = w[j]
      PROVE  i = j
  <2>1. i # 1 => i \in 2 .. m + 1
    BY <1>0
  <2>2. j # 1 => j \in 2 .. m + 1
    BY <1>0
  <2> QED
    BY <1>0, <1>1, <1>2, <1>3, <2>1, <2>2
<1>4. ASSUME NEW j \in K
      PROVE  \E i \in 1 .. m + 1 : w[i] = j
  <2>1. PICK i \in 1..m : seq[i] = j
    BY <1>0
  <2>2. m \in Nat /\ w[i + 1] = j
    BY <1>0, <1>1, <2>1
  <2>3. i + 1 \in 1 .. m + 1
    BY <2>2
  <2> QED
    BY <2>2, <2>3
<1>5. ASSUME NEW i \in 1 .. m + 1
      PROVE  w[i] \in K \cup {k}
  BY <1>0, <1>1, <1>2
<1>6. 1 \in 1 .. m + 1
  BY <1>0
<1>7. K \cup {k} = {w[i] : i \in 1 .. m + 1}
  BY <1>1, <1>4, <1>5, <1>6
<1> QED
  BY <1>1, <1>3, <1>7 DEF Lists, m

LEMMA FrontLists ==
  ASSUME Lists(order, DOMAIN entries), NEW k \in Keys
  PROVE  /\ Lists(Front(k), DOMAIN entries \cup {k})
         /\ Len(Front(k)) = IF k \in DOMAIN entries THEN Len(order) ELSE Len(order) + 1
<1> DEFINE K == DOMAIN entries \ {k}
           seq == Without(k)
<1>1. /\ Lists(seq, K) /\ k \notin K
      /\ Len(seq) = IF k \in DOMAIN entries THEN Len(order) - 1 ELSE Len(order)
  BY WithoutLists
<1>2. K \cup {k} = DOMAIN entries \cup {k}
  OBVIOUS
<1>3. Len(order) \in Nat
  BY DEF Lists
<1>4. Front(k) = <<k>> \o seq
  BY DEF Front
<1> HIDE DEF K, seq
<1>5. Lists(Front(k), K \cup {k}) /\ Len(Front(k)) = Len(seq) + 1
  BY <1>1, <1>4, PushLists
<1>6. Lists(Front(k), DOMAIN entries \cup {k})
  BY <1>2, <1>5
<1>7. Len(Front(k)) = IF k \in DOMAIN entries THEN Len(order) ELSE Len(order) + 1
  BY <1>1, <1>3, <1>5
<1> QED
  BY <1>6, <1>7

\* The first elements of a list.
LEMMA TopLists ==
  ASSUME NEW seq, NEW K, Lists(seq, K)
  PROVE  /\ Lists(Top(seq), {Top(seq)[i] : i \in 1 .. Len(Top(seq))})
         /\ Len(Top(seq)) <= Max
         /\ {Top(seq)[i] : i \in 1 .. Len(Top(seq))} \subseteq K
<1> DEFINE n == IF Len(seq) > Max THEN Max ELSE Len(seq)
           w == Top(seq)
<1>0. Max \in Nat /\ Len(seq) \in Nat /\ seq \in Seq(Keys)
  BY AskAssumption DEF Lists
<1>1. n \in Nat /\ n <= Max /\ n <= Len(seq)
  BY <1>0
<1>2. w = SubSeq(seq, 1, n)
  BY DEF Top
<1> HIDE DEF n, w
<1>3. w \in Seq(Keys) /\ Len(w) = n /\ \A i \in 1..n : w[i] = seq[i] /\ i \in 1 .. Len(seq)
  BY <1>0, <1>1, <1>2
<1> QED
  BY <1>1, <1>3 DEF Lists, w

\* As many keys as the list is long.
LEMMA CountLists ==
  ASSUME NEW seq, NEW K, Lists(seq, K)
  PROVE  Cardinality(K) = Len(seq)
<1>1. Len(seq) \in Nat /\ IsFiniteSet(1 .. Len(seq)) /\ Cardinality(1 .. Len(seq)) = Len(seq)
  BY FS_Interval DEF Lists
<1> DEFINE I == 1 .. Len(seq)
<1>2. /\ seq \in [I -> K]
      /\ \A i, j \in I : seq[i] = seq[j] => i = j
      /\ \A k \in K : \E i \in I : seq[i] = k
  BY DEF Lists
<1> HIDE DEF I
<1>3. seq \in Bijection(I, K)
  BY <1>2 DEF Bijection, Injection, Surjection, IsInjective
<1>4. ExistsBijection(I, K)
  BY <1>3 DEF ExistsBijection
<1>5. IsFiniteSet(I) /\ Cardinality(I) = Len(seq)
  BY <1>1 DEF I
<1> QED
  BY <1>4, <1>5, FS_Bijection

(***************************************************************************)
(* The invariant: the list names the keys of the map, within the bound;    *)
(* and who holds a number of engrams holds all that were stored before the *)
(* search it came from, which was no more than Lag before its Put.         *)
(***************************************************************************)
Asked == [pc : {"free", "missed", "found", "answered"}, key : Keys \cup {NoKey},
             answer : Nat, at : Nat]

AskTypes ==
  /\ now \in Nat /\ stored \in Seq(Nat)
  /\ ask \in [Asks -> Asked]
  /\ entries \in [DOMAIN entries -> [answer : Nat, until : Nat]]
  /\ \A r \in Asks : ask[r].pc # "free" => ask[r].key \in Keys

CacheInv == Lists(order, DOMAIN entries) /\ Len(order) <= Max

\* The first n engrams are all that were stored before t.
Has(n, t) == \A i \in 1 .. Len(stored) : stored[i] < t => i <= n

StoredInv == \A i \in 1 .. Len(stored) : stored[i] <= now

EntryInv == \A k \in DOMAIN entries :
  entries[k].until <= now + TTL /\ Has(entries[k].answer, entries[k].until - TTL - Lag)

RequestInv == \A r \in Asks :
  /\ ask[r].pc = "found" => /\ ask[r].at <= now /\ now <= ask[r].at + Lag
                            /\ Has(ask[r].answer, ask[r].at)
  /\ ask[r].pc = "answered" => /\ ask[r].at <= now
                               /\ Has(ask[r].answer, ask[r].at - TTL - Lag)

AskInv == AskTypes /\ CacheInv /\ StoredInv /\ EntryInv /\ RequestInv

LEMMA AskInvInit == AskInit => AskInv
<1> SUFFICES ASSUME AskInit PROVE AskInv
  OBVIOUS
<1>1. AskTypes
  BY DEF AskInit, AskTypes, Asked, Free
<1>2. CacheInv
  BY AskAssumption DEF AskInit, CacheInv, Lists
<1>3. StoredInv /\ EntryInv /\ RequestInv
  BY DEF AskInit, StoredInv, EntryInv, RequestInv, Free
<1> QED
  BY <1>1, <1>2, <1>3 DEF AskInv

\* A request that finds a fresh entry.
LEMMA HitStep ==
  ASSUME AskInv, NEW r \in Asks, NEW k \in Keys, Get(r, k), Fresh(k)
  PROVE  AskInv'
<1> DEFINE new == [pc |-> "answered", key |-> k, answer |-> entries[k].answer, at |-> now]
<1>1. /\ order' = Front(k) /\ ask' = [ask EXCEPT ![r] = new]
      /\ UNCHANGED <<entries, now, stored>>
  BY DEF Get
<1>2. k \in DOMAIN entries /\ now <= entries[k].until
  BY DEF Fresh
<1>3. /\ now \in Nat /\ TTL \in Nat /\ Lag \in Nat /\ stored \in Seq(Nat)
      /\ entries[k] \in [answer : Nat, until : Nat]
  BY <1>2, AskAssumption DEF AskInv, AskTypes
<1>4. AskTypes'
  <2>1. new \in Asked
    BY <1>3 DEF Asked
  <2> QED
    BY <1>1, <2>1 DEF AskInv, AskTypes
<1>5. CacheInv'
  <2>1. DOMAIN entries \cup {k} = DOMAIN entries
    BY <1>2
  <2>2. Lists(Front(k), DOMAIN entries) /\ Len(Front(k)) = Len(order)
    BY <1>2, <2>1, FrontLists DEF AskInv, CacheInv
  <2>3. Lists(order, DOMAIN entries)'
    BY <1>1, <2>2 DEF Lists
  <2> QED
    BY <1>1, <2>2, <2>3 DEF AskInv, CacheInv
<1>6. StoredInv' /\ EntryInv'
  BY <1>1 DEF AskInv, StoredInv, EntryInv, Has
<1>7. RequestInv'
  <2>1. Has(entries[k].answer, entries[k].until - TTL - Lag)
    BY <1>2 DEF AskInv, EntryInv
  <2>2. Has(entries[k].answer, now - TTL - Lag)
    BY <1>2, <1>3, <2>1 DEF Has
  <2>3. ask'[r] = new /\ \A q \in Asks : q # r => ask'[q] = ask[q]
    BY <1>1 DEF AskInv, AskTypes
  <2> QED
    BY <1>1, <1>3, <2>2, <2>3 DEF AskInv, RequestInv, Has
<1> QED
  BY <1>4, <1>5, <1>6, <1>7 DEF AskInv

\* A request that finds none, or one that has expired, which it removes.
LEMMA MissStep ==
  ASSUME AskInv, NEW r \in Asks, NEW k \in Keys, Get(r, k), ~ Fresh(k)
  PROVE  AskInv'
<1> DEFINE new == [Free EXCEPT !.pc = "missed", !.key = k]
<1>1. /\ order' = Without(k) /\ entries' = Only(DOMAIN entries \ {k})
      /\ ask' = [ask EXCEPT ![r] = new] /\ UNCHANGED <<now, stored>>
  BY DEF Get
<1>2. /\ DOMAIN entries' = DOMAIN entries \ {k}
      /\ \A j \in DOMAIN entries' : j \in DOMAIN entries /\ entries'[j] = entries[j]
      /\ entries' = [j \in DOMAIN entries' |-> entries[j]]
  BY <1>1 DEF Only
<1>3. new \in Asked /\ new.pc = "missed" /\ new.key = k
  BY DEF Free, Asked
<1> HIDE DEF new
<1>4. AskTypes'
  <2>2. entries' \in [DOMAIN entries' -> [answer : Nat, until : Nat]]
    BY <1>2 DEF AskInv, AskTypes
  <2> QED
    BY <1>1, <1>3, <2>2 DEF AskInv, AskTypes
<1>5. CacheInv'
  <2>1. Lists(order', DOMAIN entries') /\ Len(order') <= Len(order)
    <3>1. Len(order) \in Nat
      BY DEF AskInv, CacheInv, Lists
    <3> QED
      BY <1>1, <1>2, <3>1, WithoutLists DEF AskInv, CacheInv
  <2>2. Len(order) \in Nat /\ Len(order') \in Nat /\ Max \in Nat
    BY <2>1, AskAssumption DEF AskInv, CacheInv, Lists
  <2>3. Lists(order, DOMAIN entries)'
    BY <2>1 DEF Lists
  <2> QED
    BY <2>1, <2>2, <2>3 DEF AskInv, CacheInv
<1>6. StoredInv' /\ EntryInv'
  BY <1>1, <1>2 DEF AskInv, StoredInv, EntryInv, Has
<1>7. RequestInv'
  <2>1. ask'[r] = new /\ \A q \in Asks : q # r => ask'[q] = ask[q]
    BY <1>1 DEF AskInv, AskTypes
  <2> QED
    BY <1>1, <1>3, <2>1 DEF AskInv, RequestInv, Has
<1> QED
  BY <1>4, <1>5, <1>6, <1>7 DEF AskInv

LEMMA SearchStep ==
  ASSUME AskInv, NEW r \in Asks, Search(r)
  PROVE  AskInv'
<1>1. ask[r].pc = "missed" /\ UNCHANGED <<now, stored, order, entries>>
  BY DEF Search
<1>2. CacheInv' /\ StoredInv' /\ EntryInv'
  BY <1>1 DEF AskInv, CacheInv, Lists, StoredInv, EntryInv, Has
<1>3. PICK new \in Asked :
        /\ ask' = [ask EXCEPT ![r] = new]
        /\ \/ /\ new.pc = "found" /\ new.key = ask[r].key
              /\ new.answer = Len(stored) /\ new.at = now
           \/ new.pc = "free"
  <2> DEFINE found == [ask[r] EXCEPT !.pc = "found", !.answer = Len(stored), !.at = now]
  <2>1. ask[r] \in Asked /\ now \in Nat /\ Len(stored) \in Nat
    BY DEF AskInv, AskTypes
  <2>2. /\ found \in Asked /\ found.pc = "found" /\ found.key = ask[r].key
        /\ found.answer = Len(stored) /\ found.at = now
    BY <2>1 DEF Asked
  <2>3. Free \in Asked /\ Free.pc = "free"
    BY DEF Free, Asked
  <2>4. ask' = [ask EXCEPT ![r] = found] \/ ask' = [ask EXCEPT ![r] = Free]
    BY DEF Search
  <2> HIDE DEF found
  <2> QED
    BY <2>2, <2>3, <2>4
<1>4. new.pc # "free" => new.key \in Keys
  BY <1>1, <1>3 DEF AskInv, AskTypes
<1>5. AskTypes'
  BY <1>1, <1>3, <1>4 DEF AskInv, AskTypes
<1>6. RequestInv'
  <2>1. ask'[r] = new /\ \A q \in Asks : q # r => ask'[q] = ask[q]
    BY <1>3 DEF AskInv, AskTypes
  <2>2. new.pc = "found" => new.at = now /\ Has(new.answer, now)
    BY <1>3 DEF Has
  <2>3. new.pc # "answered" /\ now \in Nat /\ Lag \in Nat
    BY <1>3, AskAssumption DEF AskInv, AskTypes
  <2> QED
    BY <1>1, <2>1, <2>2, <2>3 DEF AskInv, RequestInv, Has
<1> QED
  BY <1>2, <1>5, <1>6 DEF AskInv

LEMMA PutStep ==
  ASSUME AskInv, NEW r \in Asks, Put(r)
  PROVE  AskInv'
<1> DEFINE k   == ask[r].key
           new == [answer |-> ask[r].answer, until |-> now + TTL]
           map == [j \in DOMAIN entries \cup {k} |-> IF j = k THEN new ELSE entries[j]]
           top == Top(Front(k))
           K   == {top[i] : i \in 1 .. Len(top)}
           ans == [ask[r] EXCEPT !.pc = "answered", !.at = now]
<1>1. /\ ask[r].pc = "found" /\ order' = top /\ entries' = [j \in {top[i] : i \in DOMAIN top} |-> map[j]]
      /\ ask' = [ask EXCEPT ![r] = ans] /\ UNCHANGED <<now, stored>>
  BY DEF Put, Cut
<1>2. k \in Keys /\ ask[r] \in Asked
  BY <1>1 DEF AskInv, AskTypes
<1>3. Lists(top, K) /\ Len(top) <= Max /\ K \subseteq DOMAIN entries \cup {k}
  BY <1>2, FrontLists, TopLists DEF AskInv, CacheInv
<1>4. /\ ans \in Asked /\ ans.pc = "answered" /\ ans.key = k
      /\ ans.answer = ask[r].answer /\ ans.at = now
  BY <1>2 DEF Asked, AskInv, AskTypes
<1>5. now \in Nat /\ TTL \in Nat /\ Lag \in Nat /\ stored \in Seq(Nat) /\ ask[r].answer \in Nat
      /\ ask[r].at \in Nat
  BY <1>2, AskAssumption DEF AskInv, AskTypes, Asked
<1>6. DOMAIN top = 1 .. Len(top)
  BY <1>3 DEF Lists
<1> HIDE DEF top
<1>7. entries' = [j \in K |-> map[j]]
  BY <1>1, <1>6
<1>8. /\ DOMAIN entries' = K
      /\ \A j \in K : /\ j = k => entries'[j] = new
                      /\ j # k => j \in DOMAIN entries /\ entries'[j] = entries[j]
  BY <1>3, <1>7
<1>9. CacheInv'
  BY <1>1, <1>3, <1>8 DEF CacheInv, Lists
<1>15. new \in [answer : Nat, until : Nat] /\ new.answer = ask[r].answer /\ new.until = now + TTL
  BY <1>5
<1> HIDE DEF K, map, ans, new
<1>10. AskTypes'
  <2>3. entries' = [j \in DOMAIN entries' |-> map[j]]
    BY <1>7, <1>8
  <2>4. ASSUME NEW j \in K
        PROVE  entries'[j] \in [answer : Nat, until : Nat]
    <3>1. CASE j = k
      BY <1>8, <1>15, <3>1
    <3>2. CASE j # k
      BY <1>8, <3>2 DEF AskInv, AskTypes
    <3> QED
      BY <3>1, <3>2
  <2>5. entries' \in [DOMAIN entries' -> [answer : Nat, until : Nat]]
    BY <1>8, <2>3, <2>4
  <2> QED
    BY <1>1, <1>2, <1>4, <2>5 DEF AskInv, AskTypes
<1>11. StoredInv'
  BY <1>1 DEF AskInv, StoredInv
<1>12. Has(ask[r].answer, now - Lag)
  <2>1. now <= ask[r].at + Lag /\ Has(ask[r].answer, ask[r].at)
    BY <1>1 DEF AskInv, RequestInv
  <2> QED
    BY <1>5, <2>1 DEF Has
<1>13. EntryInv'
  <2>1. ASSUME NEW j \in K, j = k
        PROVE  /\ entries'[j].until <= now + TTL
               /\ Has(entries'[j].answer, entries'[j].until - TTL - Lag)
    <3>1. entries'[j] = new
      BY <1>8, <2>1
    <3>2. /\ entries'[j].answer = ask[r].answer
          /\ entries'[j].until <= now + TTL
          /\ entries'[j].until - TTL - Lag = now - Lag
      BY <1>5, <1>15, <3>1
    <3> QED
      BY <1>12, <3>2
  <2>2. ASSUME NEW j \in K, j # k
        PROVE  /\ entries'[j].until <= now + TTL
               /\ Has(entries'[j].answer, entries'[j].until - TTL - Lag)
    BY <1>8, <2>2 DEF AskInv, EntryInv
  <2> QED
    BY <1>1, <1>8, <2>1, <2>2 DEF EntryInv, Has
<1>14. RequestInv'
  <2>1. ask'[r] = ans /\ \A q \in Asks : q # r => ask'[q] = ask[q]
    BY <1>1 DEF AskInv, AskTypes
  <2>2. Has(ask[r].answer, now - TTL - Lag)
    BY <1>5, <1>12 DEF Has
  <2> QED
    BY <1>1, <1>4, <1>5, <2>1, <2>2 DEF AskInv, RequestInv, Has
<1> QED
  BY <1>9, <1>10, <1>11, <1>13, <1>14 DEF AskInv

LEMMA WriteStep == ASSUME AskInv, Write PROVE AskInv'
<1>1. stored' = Append(stored, now) /\ UNCHANGED <<now, order, entries, ask>>
  BY DEF Write
<1>2. now \in Nat /\ stored \in Seq(Nat) /\ TTL \in Nat /\ Lag \in Nat
  BY AskAssumption DEF AskInv, AskTypes
<1>3. /\ stored' \in Seq(Nat) /\ Len(stored') = Len(stored) + 1
      /\ \A i \in 1 .. Len(stored) : stored'[i] = stored[i]
      /\ stored'[Len(stored) + 1] = now
  BY <1>1, <1>2
<1>4. ASSUME NEW i \in 1 .. Len(stored')
      PROVE  (i \in 1 .. Len(stored) /\ stored'[i] = stored[i]) \/ stored'[i] = now
  BY <1>2, <1>3
\* What is stored now was not stored before a time that has passed.
<1>5. ASSUME NEW n \in Nat, NEW t \in Int, t <= now, Has(n, t)
      PROVE  Has(n, t)'
  BY <1>2, <1>4, <1>5 DEF Has
<1>6. AskTypes' /\ CacheInv'
  BY <1>1, <1>3 DEF AskInv, AskTypes, CacheInv, Lists
<1>7. StoredInv'
  BY <1>1, <1>2, <1>4 DEF AskInv, StoredInv
<1>8. EntryInv'
  <2> SUFFICES ASSUME NEW k \in DOMAIN entries
               PROVE  /\ entries[k].until <= now + TTL
                      /\ Has(entries[k].answer, entries[k].until - TTL - Lag)'
    BY <1>1 DEF EntryInv, Has
  <2>1. entries[k].answer \in Nat /\ entries[k].until \in Nat
    BY DEF AskInv, AskTypes
  <2>2. entries[k].until <= now + TTL /\ Has(entries[k].answer, entries[k].until - TTL - Lag)
    BY DEF AskInv, EntryInv
  <2>3. entries[k].until - TTL - Lag \in Int /\ entries[k].until - TTL - Lag <= now
    BY <1>2, <2>1, <2>2
  <2>4. \A i \in 1 .. Len(stored') :
          stored'[i] < entries[k].until - TTL - Lag => i <= entries[k].answer
    BY <1>2, <1>4, <2>2, <2>3 DEF Has
  <2> QED
    BY <1>1, <2>2, <2>4 DEF Has
<1>9. RequestInv'
  <2> SUFFICES ASSUME NEW r \in Asks
               PROVE  /\ ask[r].pc = "found" =>
                           /\ ask[r].at <= now /\ now <= ask[r].at + Lag
                           /\ \A i \in 1 .. Len(stored') : stored'[i] < ask[r].at => i <= ask[r].answer
                      /\ ask[r].pc = "answered" =>
                           /\ ask[r].at <= now
                           /\ \A i \in 1 .. Len(stored') :
                                stored'[i] < ask[r].at - TTL - Lag => i <= ask[r].answer
    BY <1>1 DEF RequestInv, Has
  <2>1. ask[r].answer \in Nat /\ ask[r].at \in Nat
    BY DEF AskInv, AskTypes, Asked
  <2>2. CASE ask[r].pc = "found"
    <3>1. ask[r].at <= now /\ now <= ask[r].at + Lag /\ Has(ask[r].answer, ask[r].at)
      BY <2>2 DEF AskInv, RequestInv
    <3>2. ASSUME NEW i \in 1 .. Len(stored'), stored'[i] < ask[r].at
          PROVE  i <= ask[r].answer
      <4>1. stored'[i] # now
        BY <1>2, <2>1, <3>1, <3>2
      <4> QED
        BY <1>4, <3>1, <3>2, <4>1 DEF Has
    <3> QED
      BY <2>2, <3>1, <3>2
  <2>3. CASE ask[r].pc = "answered"
    <3>1. ask[r].at <= now /\ Has(ask[r].answer, ask[r].at - TTL - Lag)
      BY <2>3 DEF AskInv, RequestInv
    <3>2. ASSUME NEW i \in 1 .. Len(stored'), stored'[i] < ask[r].at - TTL - Lag
          PROVE  i <= ask[r].answer
      <4>1. stored'[i] # now
        BY <1>2, <2>1, <3>1, <3>2
      <4> QED
        BY <1>4, <3>1, <3>2, <4>1 DEF Has
    <3> QED
      BY <2>3, <3>1, <3>2
  <2> QED
    BY <2>2, <2>3
<1> QED
  BY <1>6, <1>7, <1>8, <1>9 DEF AskInv

LEMMA TickStep == ASSUME AskInv, Tick PROVE AskInv'
<1>1. /\ \A r \in Asks : ask[r].pc = "found" => now < ask[r].at + Lag
      /\ now' = now + 1 /\ UNCHANGED <<stored, order, entries, ask>>
  BY DEF Tick
<1>2. now \in Nat /\ stored \in Seq(Nat) /\ TTL \in Nat /\ Lag \in Nat
  BY AskAssumption DEF AskInv, AskTypes
<1>3. AskTypes' /\ CacheInv'
  BY <1>1, <1>2 DEF AskInv, AskTypes, CacheInv, Lists
<1>4. StoredInv'
  BY <1>1, <1>2 DEF AskInv, StoredInv
<1>5. EntryInv'
  <2>1. ASSUME NEW k \in DOMAIN entries
        PROVE  /\ entries[k].until <= now + 1 + TTL
               /\ Has(entries[k].answer, entries[k].until - TTL - Lag)
    <3>1. entries[k].until \in Nat
      BY DEF AskInv, AskTypes
    <3> QED
      BY <1>2, <3>1 DEF AskInv, EntryInv
  <2> QED
    BY <1>1, <2>1 DEF EntryInv, Has
<1>6. RequestInv'
  <2>1. ASSUME NEW r \in Asks
        PROVE  /\ ask[r].at <= now => ask[r].at <= now + 1
               /\ ask[r].pc = "found" => now + 1 <= ask[r].at + Lag
    <3>1. ask[r].at \in Nat
      BY DEF AskInv, AskTypes, Asked
    <3> QED
      BY <1>1, <1>2, <3>1
  <2> QED
    BY <1>1, <2>1 DEF AskInv, RequestInv, Has
<1> QED
  BY <1>3, <1>4, <1>5, <1>6 DEF AskInv

LEMMA AskInvStep == ASSUME AskInv, [AskNext]_askVars PROVE AskInv'
<1>1. CASE UNCHANGED askVars
  <2>1. UNCHANGED <<now, stored, order, entries, ask>>
    BY <1>1 DEF askVars
  <2>2. AskTypes' /\ CacheInv'
    BY <2>1 DEF AskInv, AskTypes, CacheInv, Lists
  <2>3. StoredInv' /\ EntryInv' /\ RequestInv'
    BY <2>1 DEF AskInv, StoredInv, EntryInv, RequestInv, Has
  <2> QED
    BY <2>2, <2>3 DEF AskInv
<1>2. ASSUME NEW r \in Asks, NEW k \in Keys, Get(r, k)
      PROVE  AskInv'
  BY <1>2, HitStep, MissStep
<1>3. ASSUME NEW r \in Asks, Search(r) \/ Put(r)
      PROVE  AskInv'
  BY <1>3, SearchStep, PutStep
<1> QED
  BY <1>1, <1>2, <1>3, WriteStep, TickStep DEF AskNext

LEMMA AskInvariant == ClientsSpec => []AskInv
<1>1. ClientsInit => AskInv
  BY AskInvInit DEF ClientsInit
<1>2. AskInv /\ [ClientsNext]_clientVars => AskInv'
  <2>1. [ClientsNext]_clientVars => [AskNext]_askVars
    BY DEF ClientsNext, Reader, Question, Pass, Viewer, clientVars
  <2> QED
    BY <2>1, AskInvStep
<1> QED
  BY <1>1, <1>2, PTL DEF ClientsSpec

\* The cache holds at most Max entries, and the list that eviction reads names
\* exactly the keys of the map, each once, whatever requests are under way.
THEOREM CacheIsBounded == ClientsSpec => []CacheBounded
<1>1. ASSUME AskInv PROVE CacheBounded
  <2>1. /\ Lists(order, DOMAIN entries) /\ Len(order) <= Max
        /\ DOMAIN order = 1 .. Len(order)
    BY <1>1 DEF AskInv, CacheInv, Lists
  <2>2. DOMAIN entries = {order[i] : i \in DOMAIN order}
    BY <2>1 DEF Lists
  <2>3. Cardinality(DOMAIN entries) = Len(order)
    BY <2>1, CountLists
  <2> QED
    BY <2>1, <2>2, <2>3 DEF CacheBounded
<1> QED
  BY <1>1, AskInvariant, PTL

\* No answer of /ask lacks an engram that was stored more than the TTL and a
\* request's lag before it.
THEOREM AnswersAreRecent == ClientsSpec => []AnswersRecent
<1>1. ASSUME AskInv PROVE AnswersRecent
  <2> SUFFICES ASSUME NEW r \in Asks, ask[r].pc = "answered", NEW i \in DOMAIN stored,
                      stored[i] + TTL + Lag < ask[r].at
               PROVE  i <= ask[r].answer
    BY DEF AnswersRecent
  <2>1. /\ i \in 1 .. Len(stored) /\ stored[i] \in Nat /\ ask[r].at \in Nat
        /\ TTL \in Nat /\ Lag \in Nat
    BY <1>1, AskAssumption DEF AskInv, AskTypes, Asked
  <2>2. stored[i] < ask[r].at - TTL - Lag
    BY <2>1
  <2> QED
    BY <1>1, <2>1, <2>2 DEF AskInv, RequestInv, Has
<1> QED
  BY <1>1, AskInvariant, PTL

(***************************************************************************)
(* The readers among the other clients: whoever else is followed, no       *)
(* request is under way.                                                   *)
(***************************************************************************)
ReaderInv ==
  /\ client = "reader" => TypeInv /\ ExportInv /\ TimelineInv
  /\ client # "reader" => phase = "idle" /\ pages = <<>>

LEMMA ReaderInvariant == ClientsSpec => []ReaderInv
<1>1. ClientsInit => ReaderInv
  <2>1. Init => TypeInv /\ ExportInv
    BY TypeInit, ExportInit
  <2>2. Init => TimelineInv
    BY FS_EmptySet DEF Init, TimelineInv, AskedAreGot, KeptAreWanted, TimelineHasNoHole
  <2>3. Init => phase = "idle" /\ pages = <<>>
    BY DEF Init
  <2> QED
    BY <2>1, <2>2, <2>3 DEF ClientsInit, ReaderInv
<1>2. ReaderInv /\ [ClientsNext]_clientVars => ReaderInv'
  <2> SUFFICES ASSUME ReaderInv, [ClientsNext]_clientVars
               PROVE  ReaderInv'
    OBVIOUS
  <2>1. UNCHANGED client
    BY DEF ClientsNext, Reader, Question, Pass, Viewer, clientVars
  <2>2. CASE client = "reader"
    <3>1. [Next]_vars
      BY <2>2 DEF ClientsNext, Reader, Question, Pass, Viewer, clientVars
    <3> QED
      BY <2>1, <2>2, <3>1, TypeStep, ExportStep, TimelineInvStep DEF ReaderInv
  <2>3. CASE client # "reader"
    <3>1. UNCHANGED <<phase, pages>>
      BY <2>3 DEF ClientsNext, Reader, Question, Pass, Viewer, clientVars, vars, request
    <3> QED
      BY <2>1, <2>3, <3>1 DEF ReaderInv
  <2> QED
    BY <2>2, <2>3
<1> QED
  BY <1>1, <1>2, PTL DEF ClientsSpec

\* Whatever the page size, a finished export holds every row asked for that
\* was there throughout, though pages end between rows of one time and writers
\* go on between them.
THEOREM ExportIsComplete == ClientsSpec => []ExportComplete
<1>1. ReaderInv => ExportComplete
  BY DEF ReaderInv, ExportInv, ExportComplete
<1> QED
  BY <1>1, ReaderInvariant, PTL

\* An export's pages follow each other in the order of (ts, id): no row comes
\* twice, in broken exports too.
THEOREM ExportIsOrdered == ClientsSpec => []ExportOrdered
<1>1. ReaderInv => ExportOrdered
  BY DEF ReaderInv, ExportInv, ExportOrdered
<1> QED
  BY <1>1, ReaderInvariant, PTL

\* Within the limit one query serves, a timeline leaves out no row older than
\* one it shows, however many surfaces it reads and whatever is written meanwhile.
THEOREM TimelineIsWhole == ClientsSpec => []TimelineHasNoHole
<1>1. ReaderInv => TimelineHasNoHole
  BY DEF ReaderInv, TimelineInv, TimelineHasNoHole
<1> QED
  BY <1>1, ReaderInvariant, PTL
=============================================================================
