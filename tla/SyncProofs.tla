----------------------------- MODULE SyncProofs -----------------------------
(***************************************************************************)
(* Proofs about Sync and the Worker's bucket, for every number of uploads, *)
(* objects kept, faults and restarts: what a restore and a team member get *)
(* is as new as what sync-state.json lists, as long as a single Syncer is  *)
(* at work.                                                                *)
(*                                                                         *)
(* The bucket forgets entries that have ended, and the others move up: the *)
(* first part says that a rank in a set of indices keeps their order, so   *)
(* that nothing is mixed up. The second says of each handler what becomes  *)
(* of the objects and copies. The invariant then is that versions grow     *)
(* with the keys, that a request whose answer is awaited holds the         *)
(* snapshot of the Syncer that waits, and that what sync-state.json lists, *)
(* or is about to list, is backed.                                         *)
(***************************************************************************)
EXTENDS Sync, FiniteSetTheorems, TLAPS

---------------------------------------------------------------------------
(* Ranks *)

\* The ranks of a set of indices are 1, 2, ... in the order of the indices.
LEMMA RankOrder ==
  ASSUME NEW m \in Nat, NEW S \in SUBSET (1..m)
  PROVE  /\ IsFiniteSet(S) /\ Cardinality(S) \in Nat
         /\ \A i \in S : Rank(S, i) \in 1 .. Cardinality(S)
         /\ \A i, j \in S : i < j => Rank(S, i) < Rank(S, j)
<1> DEFINE Upto(i) == {j \in S : j <= i}
<1>1. IsFiniteSet(S)
  <2>1. IsFiniteSet(1..m)
    BY FS_Interval
  <2> QED
    BY <2>1, FS_Subset
<1>2. Cardinality(S) \in Nat
  BY <1>1, FS_CardinalityType
<1>3. ASSUME NEW i \in S
      PROVE  /\ IsFiniteSet(Upto(i)) /\ Rank(S, i) = Cardinality(Upto(i))
             /\ Rank(S, i) \in 1 .. Cardinality(S)
  <2>1. Rank(S, i) = Cardinality(Upto(i))
    BY DEF Rank
  <2>2. Upto(i) \in SUBSET S /\ i \in Upto(i)
    OBVIOUS
  <2> HIDE DEF Upto
  <2>3. IsFiniteSet(Upto(i)) /\ Cardinality(Upto(i)) <= Cardinality(S)
    BY <1>1, <2>2, FS_Subset
  <2>4. Cardinality(Upto(i)) \in Nat /\ Cardinality(Upto(i)) # 0
    BY <2>2, <2>3, FS_CardinalityType, FS_EmptySet
  <2> QED
    BY <1>2, <2>1, <2>3, <2>4
<1>4. ASSUME NEW i \in S, NEW j \in S, i < j
      PROVE  Rank(S, i) < Rank(S, j)
  <2>1. /\ Upto(i) \cup {j} \in SUBSET Upto(j) /\ j \notin Upto(i)
    <3>1. i \in Nat /\ j \in Nat /\ ~ j <= i /\ j <= j /\ \A x \in S : x <= i => x <= j
      BY <1>4
    <3> QED
      BY <3>1
  <2>2. /\ Rank(S, i) = Cardinality(Upto(i)) /\ Rank(S, j) = Cardinality(Upto(j))
        /\ Rank(S, i) \in Nat /\ Rank(S, j) \in Nat
        /\ IsFiniteSet(Upto(i)) /\ IsFiniteSet(Upto(j))
    BY <1>2, <1>3
  <2> HIDE DEF Upto
  <2>3. Cardinality(Upto(i) \cup {j}) = Cardinality(Upto(i)) + 1
    BY <2>1, <2>2, FS_AddElement
  <2>4. Cardinality(Upto(i) \cup {j}) <= Cardinality(Upto(j))
    BY <2>1, <2>2, FS_Subset
  <2> QED
    BY <2>2, <2>3, <2>4
<1> QED
  BY <1>1, <1>2, <1>3, <1>4

LEMMA RankOnto ==
  ASSUME NEW m \in Nat, NEW S \in SUBSET (1..m), NEW n \in 1 .. Cardinality(S)
  PROVE  \E i \in S : Rank(S, i) = n
<1> DEFINE T == 1 .. Cardinality(S)
           r == [i \in S |-> Rank(S, i)]
<1>1. /\ IsFiniteSet(S) /\ Cardinality(S) \in Nat
      /\ \A i \in S : Rank(S, i) \in T
      /\ \A i, j \in S : i < j => Rank(S, i) < Rank(S, j)
  BY RankOrder
<1>2. IsFiniteSet(T) /\ Cardinality(T) = Cardinality(S)
  BY <1>1, FS_Interval
<1>3. ASSUME NEW i \in S, NEW j \in S, Rank(S, i) = Rank(S, j)
      PROVE  i = j
  <2>1. i \in Nat /\ j \in Nat /\ Rank(S, i) \in Nat /\ Rank(S, j) \in Nat
    BY <1>1
  <2> QED
    BY <1>1, <1>3, <2>1
<1>4. n \in T
  OBVIOUS
<1> HIDE DEF T
<1>5. r \in Injection(S, T)
  BY <1>1, <1>3 DEF Injection, IsInjective
<1>6. r \in Surjection(S, T)
  BY <1>2, <1>5, FS_Injection
<1>7. PICK i \in S : r[i] = n
  BY <1>4, <1>6 DEF Surjection
<1> QED
  BY <1>7

\* A set of indices that is not empty has a last one.
LEMMA Greatest ==
  ASSUME NEW m \in Nat, NEW S \in SUBSET (1..m), S # {}
  PROVE  Max(S) \in S /\ \A j \in S : j <= Max(S)
<1>1. IsFiniteSet(S) /\ Cardinality(S) \in Nat
  BY RankOrder
<1>2. Cardinality(S) \in 1 .. Cardinality(S)
  BY <1>1, FS_EmptySet
<1>3. PICK i \in S : Rank(S, i) = Cardinality(S)
  BY <1>2, RankOnto
<1>4. {j \in S : j <= i} = S
  BY <1>1, <1>3, FS_Subset DEF Rank
<1>5. i \in Int /\ \A j \in S : j \in Int /\ i >= j
  BY <1>4
<1>6. \E x \in S : \A y \in S : x >= y
  BY <1>5
<1>7. Max(S) \in S /\ \A y \in S : Max(S) >= y
  BY <1>6 DEF Max
<1> QED
  BY <1>5, <1>7

\* The elements of a set of indices, in order.
LEMMA NthOrder ==
  ASSUME NEW m \in Nat, NEW S \in SUBSET (1..m)
  PROVE  /\ \A k \in 1 .. Cardinality(S) : Nth(S, k) \in S
         /\ \A k, l \in 1 .. Cardinality(S) : k < l => Nth(S, k) < Nth(S, l)
         /\ \A i \in S : \E k \in 1 .. Cardinality(S) : Nth(S, k) = i
<1> DEFINE n == Cardinality(S)
<1>1. /\ n \in Nat
      /\ \A i \in S : Rank(S, i) \in 1..n
      /\ \A i, j \in S : i < j => Rank(S, i) < Rank(S, j)
  BY RankOrder
<1>2. ASSUME NEW k \in 1..n
      PROVE  Nth(S, k) \in S /\ Rank(S, Nth(S, k)) = k
  <2>1. \E i \in S : Rank(S, i) = k
    BY RankOnto
  <2> QED
    BY <2>1 DEF Nth
<1> HIDE DEF n
<1>3. ASSUME NEW k \in 1..n, NEW l \in 1..n, k < l
      PROVE  Nth(S, k) < Nth(S, l)
  <2> DEFINE x == Nth(S, k)
             y == Nth(S, l)
  <2>1. x \in S /\ Rank(S, x) = k /\ y \in S /\ Rank(S, y) = l
    BY <1>2
  <2> HIDE DEF x, y
  <2>2. x \in 1..m /\ y \in 1..m /\ k \in Nat /\ l \in Nat
    BY <2>1
  <2>3. x # y /\ ~ y < x
    BY <1>1, <1>3, <2>1, <2>2
  <2>4. x < y
    BY <2>2, <2>3
  <2> QED
    BY <2>4 DEF x, y
<1>4. ASSUME NEW i \in S
      PROVE  \E k \in 1..n : Nth(S, k) = i
  <2> DEFINE k == Rank(S, i)
             x == Nth(S, k)
  <2>1. k \in 1..n
    BY <1>1
  <2>2. x \in S /\ Rank(S, x) = k
    BY <1>2, <2>1
  <2> HIDE DEF x
  <2>3. x \in 1..m /\ i \in 1..m /\ k \in Nat
    BY <2>1, <2>2
  <2>4. ~ x < i /\ ~ i < x
    BY <1>1, <2>2, <2>3
  <2>5. x = i
    BY <2>3, <2>4
  <2> QED
    BY <2>1, <2>5 DEF x
<1> QED
  BY <1>2, <1>3, <1>4 DEF n

(***************************************************************************)
(* The bucket: after a request that has put its object there is one under  *)
(* its key or a newer one, and so for the team's copies; a Syncer waits    *)
(* for one request at most; and one Syncer's snapshots never get older.    *)
(***************************************************************************)
PutDone == {"put", "pruned", "copied"}

Uploads == [by : Uploaders \cup {Nobody}, snap : Nat, there : BOOLEAN, copied : BOOLEAN,
            step : {"stamped", "put", "pruned", "copied", "answered"}]

Sound(b) ==
  /\ b \in Seq(Uploads)
  /\ \A i \in DOMAIN b : b[i].step \in PutDone => \E j \in DOMAIN b : i <= j /\ b[j].there
  /\ \A i \in DOMAIN b : b[i].step = "copied" => \E j \in DOMAIN b : i <= j /\ b[j].copied
  /\ \A i, j \in DOMAIN b : b[i].by = b[j].by => i = j \/ b[i].by = Nobody
  /\ Single => \A i, j \in DOMAIN b : i <= j => b[i].snap <= b[j].snap

\* What is in one bucket is, as far as a restore goes, in the next one, which
\* has nobody's request that the first did not have.
Carries(b, c) ==
  /\ \A i \in DOMAIN b : b[i].there =>
       \E j \in DOMAIN c : c[j].there /\ (Single => b[i].snap <= c[j].snap)
  /\ \A i \in DOMAIN b : b[i].copied =>
       \E j \in DOMAIN c : c[j].copied /\ (Single => b[i].snap <= c[j].snap)
  /\ \A j \in DOMAIN c : \E i \in DOMAIN b :
       c[j].snap = b[i].snap /\ (c[j].by = b[i].by \/ c[j].by = Nobody)

LEMMA BucketShape ==
  ASSUME NEW b \in Seq(Uploads)
  PROVE  /\ Len(b) \in Nat /\ DOMAIN b = 1 .. Len(b)
         /\ \A i \in DOMAIN b : b[i] \in Uploads /\ b[i].snap \in Nat /\ i \in Nat
<1>1. Len(b) \in Nat /\ DOMAIN b = 1 .. Len(b) /\ \A i \in DOMAIN b : b[i] \in Uploads
  OBVIOUS
<1>2. \A u \in Uploads : u.snap \in Nat
  BY DEF Uploads
<1> QED
  BY <1>1, <1>2

LEMMA CarriesTrans ==
  ASSUME NEW a \in Seq(Uploads), NEW b \in Seq(Uploads), NEW c \in Seq(Uploads),
         Carries(a, b), Carries(b, c)
  PROVE  Carries(a, c)
<1>1. ASSUME NEW i \in DOMAIN a, a[i].there
      PROVE  \E k \in DOMAIN c : c[k].there /\ (Single => a[i].snap <= c[k].snap)
  <2>1. PICK j \in DOMAIN b : b[j].there /\ (Single => a[i].snap <= b[j].snap)
    BY <1>1 DEF Carries
  <2>2. PICK k \in DOMAIN c : c[k].there /\ (Single => b[j].snap <= c[k].snap)
    BY <2>1 DEF Carries
  <2>3. a[i].snap \in Nat /\ b[j].snap \in Nat /\ c[k].snap \in Nat
    BY BucketShape
  <2> QED
    BY <2>1, <2>2, <2>3
<1>2. ASSUME NEW i \in DOMAIN a, a[i].copied
      PROVE  \E k \in DOMAIN c : c[k].copied /\ (Single => a[i].snap <= c[k].snap)
  <2>1. PICK j \in DOMAIN b : b[j].copied /\ (Single => a[i].snap <= b[j].snap)
    BY <1>2 DEF Carries
  <2>2. PICK k \in DOMAIN c : c[k].copied /\ (Single => b[j].snap <= c[k].snap)
    BY <2>1 DEF Carries
  <2>3. a[i].snap \in Nat /\ b[j].snap \in Nat /\ c[k].snap \in Nat
    BY BucketShape
  <2> QED
    BY <2>1, <2>2, <2>3
<1>3. ASSUME NEW k \in DOMAIN c
      PROVE  \E i \in DOMAIN a : c[k].snap = a[i].snap /\ (c[k].by = a[i].by \/ c[k].by = Nobody)
  <2>1. PICK j \in DOMAIN b : c[k].snap = b[j].snap /\ (c[k].by = b[j].by \/ c[k].by = Nobody)
    BY DEF Carries
  <2>2. PICK i \in DOMAIN a : b[j].snap = a[i].snap /\ (b[j].by = a[i].by \/ b[j].by = Nobody)
    BY DEF Carries
  <2> QED
    BY <2>1, <2>2
<1> QED
  BY <1>1, <1>2, <1>3 DEF Carries

LEMMA CompactSound ==
  ASSUME NEW b, Sound(b)
  PROVE  Sound(Compact(b)) /\ Carries(b, Compact(b))
<1> DEFINE m == Len(b)
           c == Compact(b)
<1>1. /\ b \in Seq(Uploads) /\ m \in Nat /\ DOMAIN b = 1..m
      /\ \A i \in 1..m : b[i] \in Uploads /\ b[i].snap \in Nat
  BY BucketShape DEF Sound
<1> DEFINE S == Kept(b)
           n == Cardinality(S)
           f(k) == Nth(S, k)
<1>2. /\ S \in SUBSET (1..m) /\ n \in Nat
      /\ c = [k \in 1..n |-> b[f(k)]]
  <2>1. S \in SUBSET (1..m)
    BY <1>1 DEF Kept
  <2> QED
    BY <1>1, <2>1, RankOrder DEF Compact
<1> HIDE DEF S, m, c
<1>13. /\ \A k \in 1..n : f(k) \in S
       /\ \A k, l \in 1..n : k < l => f(k) < f(l)
       /\ \A i \in S : \E k \in 1..n : f(k) = i
  BY <1>1, <1>2, NthOrder
<1> HIDE DEF n, f
<1>3. DOMAIN c = 1..n /\ \A k \in 1..n : f(k) \in 1..m /\ c[k] = b[f(k)]
  BY <1>2, <1>13
<1>4. c \in Seq(Uploads)
  BY <1>1, <1>2, <1>3
<1>5. ASSUME NEW i \in 1..m, b[i].there \/ b[i].copied
      PROVE  \E k \in 1..n : f(k) = i
  <2>1. i \in S
    BY <1>1, <1>5 DEF S, Kept
  <2> QED
    BY <1>13, <2>1
<1>6. ASSUME NEW k \in 1..n, NEW l \in 1..n, f(k) <= f(l)
      PROVE  k <= l
  <2>1. f(k) \in Nat /\ f(l) \in Nat /\ k \in Nat /\ l \in Nat
    BY <1>3
  <2>2. ~ l < k
    BY <1>13, <1>6, <2>1
  <2> QED
    BY <2>1, <2>2
<1>7. ASSUME NEW k \in 1..n, c[k].step \in PutDone
      PROVE  \E l \in 1..n : k <= l /\ c[l].there
  <2>1. PICK j \in 1..m : f(k) <= j /\ b[j].there
    BY <1>1, <1>3, <1>7 DEF Sound
  <2>2. PICK l \in 1..n : f(l) = j
    BY <1>5, <2>1
  <2> QED
    BY <1>3, <1>6, <2>1, <2>2
<1>8. ASSUME NEW k \in 1..n, c[k].step = "copied"
      PROVE  \E l \in 1..n : k <= l /\ c[l].copied
  <2>1. PICK j \in 1..m : f(k) <= j /\ b[j].copied
    BY <1>1, <1>3, <1>8 DEF Sound
  <2>2. PICK l \in 1..n : f(l) = j
    BY <1>5, <2>1
  <2> QED
    BY <1>3, <1>6, <2>1, <2>2
<1>9. ASSUME NEW k \in 1..n, NEW l \in 1..n, c[k].by = c[l].by
      PROVE  k = l \/ c[k].by = Nobody
  <2>1. f(k) = f(l) \/ b[f(k)].by = Nobody
    BY <1>1, <1>3, <1>9 DEF Sound
  <2>2. f(k) \in Nat /\ f(l) \in Nat /\ k \in Nat /\ l \in Nat
    BY <1>3
  <2> QED
    BY <1>3, <1>6, <2>1, <2>2
<1>10. ASSUME Single, NEW k \in 1..n, NEW l \in 1..n, k <= l
       PROVE  c[k].snap <= c[l].snap
  <2>1. f(k) \in Nat /\ f(l) \in Nat /\ k \in Nat /\ l \in Nat
    BY <1>3
  <2>2. f(k) <= f(l)
    <3>1. CASE k = l
      BY <2>1, <3>1
    <3>2. CASE k # l
      <4>1. k < l
        BY <1>10, <2>1, <3>2
      <4> QED
        BY <1>13, <2>1, <4>1
    <3> QED
      BY <3>1, <3>2
  <2> QED
    BY <1>1, <1>3, <1>10, <2>2 DEF Sound
<1>11. Sound(c)
  BY <1>3, <1>4, <1>7, <1>8, <1>9, <1>10 DEF Sound
<1>12. Carries(b, c)
  <2>1. ASSUME NEW i \in 1..m, b[i].there \/ b[i].copied
        PROVE  \E k \in 1..n : c[k] = b[i] /\ b[i].snap <= c[k].snap
    <3>1. PICK k \in 1..n : f(k) = i
      BY <1>5, <2>1
    <3> QED
      BY <1>1, <1>3, <3>1
  <2>2. \A k \in 1..n : c[k] = b[f(k)]
    BY <1>3
  <2> QED
    BY <1>1, <1>3, <2>1, <2>2 DEF Carries
<1> QED
  BY <1>11, <1>12 DEF c

\* A handler's step: it gives up no object but for a newer one.
LEMMA Redrawn ==
  ASSUME NEW b, Sound(b), NEW q \in Seq(Uploads), Len(q) = Len(b),
         \A i \in DOMAIN b : q[i].snap = b[i].snap /\ (q[i].by = b[i].by \/ q[i].by = Nobody),
         \A i \in DOMAIN b : b[i].there => \E j \in DOMAIN b : i <= j /\ q[j].there,
         \A i \in DOMAIN b : b[i].copied => \E j \in DOMAIN b : i <= j /\ q[j].copied,
         \A i \in DOMAIN b : q[i].step \in PutDone =>
            b[i].step \in PutDone \/ \E j \in DOMAIN b : i <= j /\ q[j].there,
         \A i \in DOMAIN b : q[i].step = "copied" =>
            b[i].step = "copied" \/ \E j \in DOMAIN b : i <= j /\ q[j].copied
  PROVE  Sound(q) /\ Carries(b, q)
<1>1. /\ b \in Seq(Uploads) /\ DOMAIN q = DOMAIN b
      /\ \A i \in DOMAIN b : i \in Nat /\ b[i].snap \in Nat
  BY BucketShape DEF Sound
<1>2. ASSUME NEW i \in DOMAIN b, q[i].step \in PutDone
      PROVE  \E k \in DOMAIN b : i <= k /\ q[k].there
  <2>1. CASE b[i].step \in PutDone
    <3>1. PICK j \in DOMAIN b : i <= j /\ b[j].there
      BY <2>1 DEF Sound
    <3>2. PICK k \in DOMAIN b : j <= k /\ q[k].there
      BY <3>1
    <3> QED
      BY <1>1, <3>1, <3>2
  <2> QED
    BY <1>2, <2>1
<1>3. ASSUME NEW i \in DOMAIN b, q[i].step = "copied"
      PROVE  \E k \in DOMAIN b : i <= k /\ q[k].copied
  <2>1. CASE b[i].step = "copied"
    <3>1. PICK j \in DOMAIN b : i <= j /\ b[j].copied
      BY <2>1 DEF Sound
    <3>2. PICK k \in DOMAIN b : j <= k /\ q[k].copied
      BY <3>1
    <3> QED
      BY <1>1, <3>1, <3>2
  <2> QED
    BY <1>3, <2>1
<1>4. \A i, j \in DOMAIN b : q[i].by = q[j].by => i = j \/ q[i].by = Nobody
  BY DEF Sound
<1>5. Single => \A i, j \in DOMAIN b : i <= j => q[i].snap <= q[j].snap
  BY DEF Sound
<1>6. Sound(q)
  BY <1>1, <1>2, <1>3, <1>4, <1>5 DEF Sound
<1>7. ASSUME NEW i \in DOMAIN b, b[i].there
      PROVE  \E j \in DOMAIN q : q[j].there /\ (Single => b[i].snap <= q[j].snap)
  <2>1. PICK j \in DOMAIN b : i <= j /\ q[j].there
    BY <1>7
  <2>2. Single => b[i].snap <= b[j].snap
    BY <2>1 DEF Sound
  <2> QED
    BY <1>1, <2>1, <2>2
<1>8. ASSUME NEW i \in DOMAIN b, b[i].copied
      PROVE  \E j \in DOMAIN q : q[j].copied /\ (Single => b[i].snap <= q[j].snap)
  <2>1. PICK j \in DOMAIN b : i <= j /\ q[j].copied
    BY <1>8
  <2>2. Single => b[i].snap <= b[j].snap
    BY <2>1 DEF Sound
  <2> QED
    BY <1>1, <2>1, <2>2
<1>9. Carries(b, q)
  BY <1>1, <1>7, <1>8 DEF Carries
<1> QED
  BY <1>6, <1>9

(***************************************************************************)
(* The Worker's handlers.                                                  *)
(***************************************************************************)
LEMMA PutObjectSound ==
  ASSUME Sound(bucket), NEW i \in DOMAIN bucket, PutObject(i)
  PROVE  Sound(bucket') /\ Carries(bucket, bucket')
<1> DEFINE e == [bucket[i] EXCEPT !.step = "put", !.there = TRUE]
<1>1. /\ bucket \in Seq(Uploads) /\ Len(bucket) \in Nat /\ DOMAIN bucket = 1 .. Len(bucket)
      /\ \A j \in DOMAIN bucket : bucket[j] \in Uploads /\ j \in Nat
  BY BucketShape DEF Sound
<1>2. /\ e \in Uploads /\ e.snap = bucket[i].snap /\ e.by = bucket[i].by
      /\ e.step = "put" /\ e.there /\ e.copied = bucket[i].copied
  BY <1>1 DEF Uploads
<1>3. bucket' = [bucket EXCEPT ![i] = e]
  BY DEF PutObject
<1> HIDE DEF e
<1>4. bucket' \in Seq(Uploads) /\ Len(bucket') = Len(bucket)
  BY <1>1, <1>2, <1>3
<1>5. bucket'[i] = e /\ \A j \in DOMAIN bucket : j # i => bucket'[j] = bucket[j]
  BY <1>1, <1>3
<1>6. ASSUME NEW j \in DOMAIN bucket
      PROVE  /\ bucket'[j].snap = bucket[j].snap /\ bucket'[j].by = bucket[j].by
             /\ bucket[j].there => j <= j /\ bucket'[j].there
             /\ bucket[j].copied => j <= j /\ bucket'[j].copied
             /\ bucket'[j].step \in PutDone =>
                  bucket[j].step \in PutDone \/ (j <= j /\ bucket'[j].there)
             /\ bucket'[j].step = "copied" => bucket[j].step = "copied"
  <2>1. j <= j
    BY <1>1
  <2>2. CASE j = i
    BY <1>2, <1>5, <2>1, <2>2
  <2>3. CASE j # i
    BY <1>5, <2>1, <2>3
  <2> QED
    BY <2>2, <2>3
<1> QED
  BY <1>4, <1>6, Redrawn

\* The object with the largest key stays.
LEMMA PruneSound ==
  ASSUME Sound(bucket), NEW i \in DOMAIN bucket, Prune(i)
  PROVE  Sound(bucket') /\ Carries(bucket, bucket')
<1> DEFINE cut(j) == bucket[j].there /\ Cardinality(Newer(j)) < Keep
           e(j) == [bucket[j] EXCEPT !.step = IF j = i THEN "pruned" ELSE bucket[j].step,
                                     !.there = cut(j)]
           q == [j \in DOMAIN bucket |-> e(j)]
<1>1. /\ bucket \in Seq(Uploads) /\ Len(bucket) \in Nat /\ DOMAIN bucket = 1 .. Len(bucket)
      /\ \A j \in DOMAIN bucket : bucket[j] \in Uploads /\ j \in Nat
  BY BucketShape DEF Sound
<1>2. bucket' = Compact(q) /\ bucket[i].step = "put"
  BY DEF Prune
<1>3. ASSUME NEW j \in DOMAIN bucket
      PROVE  /\ e(j) \in Uploads
             /\ e(j).snap = bucket[j].snap /\ e(j).by = bucket[j].by /\ e(j).copied = bucket[j].copied
             /\ e(j).step = IF j = i THEN "pruned" ELSE bucket[j].step
             /\ e(j).there <=> cut(j)
  <2>1. cut(j) \in BOOLEAN
    OBVIOUS
  <2> HIDE DEF cut
  <2> QED
    BY <1>1, <2>1 DEF Uploads
<1> HIDE DEF e
<1>4. q \in Seq(Uploads) /\ Len(q) = Len(bucket) /\ \A j \in DOMAIN bucket : q[j] = e(j)
  BY <1>1, <1>3
<1> HIDE DEF q
<1>5. ASSUME NEW j \in DOMAIN bucket, bucket[j].there
      PROVE  \E k \in DOMAIN bucket : j <= k /\ q[k].there
  <2> DEFINE top == Max(Objects)
  <2>1. j \in Objects /\ Objects \in SUBSET (1 .. Len(bucket))
    BY <1>1, <1>5 DEF Objects
  <2>2. top \in Objects /\ \A k \in Objects : k <= top
    BY <1>1, <2>1, Greatest
  <2> HIDE DEF top
  <2>3. top \in Nat /\ \A k \in Objects : k \in Nat
    <3>1. \A k \in Objects : k \in 1 .. Len(bucket)
      BY <2>1
    <3>2. \A k \in 1 .. Len(bucket) : k \in Nat
      BY <1>1
    <3> QED
      BY <2>2, <3>1, <3>2
  <2>4. Newer(top) = {}
    <3>1. ASSUME NEW k \in Objects
          PROVE  ~ k > top
      <4>1. k <= top /\ k \in Nat /\ top \in Nat
        BY <2>2, <2>3
      <4> QED
        BY <4>1
    <3> QED
      BY <3>1, Zenon DEF Newer
  <2>5. Cardinality(Newer(top)) < Keep
    BY <2>4, FS_EmptySet, WorkerAssumption
  <2>6. cut(top) /\ top \in DOMAIN bucket
    BY <2>2, <2>5 DEF Objects
  <2> QED
    BY <1>3, <1>4, <2>1, <2>2, <2>6
<1>6. ASSUME NEW j \in DOMAIN bucket
      PROVE  /\ q[j].snap = bucket[j].snap /\ q[j].by = bucket[j].by
             /\ bucket[j].copied => j <= j /\ q[j].copied
             /\ q[j].step \in PutDone => bucket[j].step \in PutDone
             /\ q[j].step = "copied" => bucket[j].step = "copied"
  <2>1. q[j] = e(j) /\ j <= j
    BY <1>1, <1>4
  <2> QED
    BY <1>2, <1>3, <2>1 DEF PutDone
<1>7. Sound(q) /\ Carries(bucket, q)
  BY <1>4, <1>5, <1>6, Redrawn
<1>8. Sound(Compact(q)) /\ Carries(q, Compact(q))
  BY <1>7, CompactSound
<1> QED
  BY <1>1, <1>2, <1>4, <1>7, <1>8, CarriesTrans DEF Sound

\* The team's copy with the largest key stays.
LEMMA PutCopySound ==
  ASSUME Sound(bucket), NEW i \in DOMAIN bucket, PutCopy(i)
  PROVE  Sound(bucket') /\ Carries(bucket, bucket')
<1> DEFINE copies == Copies \cup {i}
           cut(j) == j \in copies /\ (Cardinality({k \in copies : k < j}) < TeamCap
                                      \/ \A k \in copies : k <= j)
           e(j) == [bucket[j] EXCEPT !.step = IF j = i THEN "copied" ELSE bucket[j].step,
                                     !.copied = cut(j)]
           q == [j \in DOMAIN bucket |-> e(j)]
<1>1. /\ bucket \in Seq(Uploads) /\ Len(bucket) \in Nat /\ DOMAIN bucket = 1 .. Len(bucket)
      /\ \A j \in DOMAIN bucket : bucket[j] \in Uploads /\ j \in Nat
  BY BucketShape DEF Sound
<1>2. bucket' = Compact(q) /\ bucket[i].step = "pruned"
  BY DEF PutCopy
<1>3. ASSUME NEW j \in DOMAIN bucket
      PROVE  /\ e(j) \in Uploads
             /\ e(j).snap = bucket[j].snap /\ e(j).by = bucket[j].by /\ e(j).there = bucket[j].there
             /\ e(j).step = IF j = i THEN "copied" ELSE bucket[j].step
             /\ e(j).copied <=> cut(j)
  <2>1. cut(j) \in BOOLEAN
    OBVIOUS
  <2> HIDE DEF cut
  <2> QED
    BY <1>1, <2>1 DEF Uploads
<1> HIDE DEF e
<1>4. q \in Seq(Uploads) /\ Len(q) = Len(bucket) /\ \A j \in DOMAIN bucket : q[j] = e(j)
  <2>1. \A j \in 1 .. Len(bucket) : e(j) \in Uploads
    BY <1>1, <1>3
  <2> HIDE DEF cut, copies
  <2> QED
    BY <1>1, <2>1
<1> HIDE DEF q
<1>5. ASSUME NEW j \in copies
      PROVE  \E k \in DOMAIN bucket : j <= k /\ q[k].copied
  <2> DEFINE top == Max(copies)
  <2>1. copies \in SUBSET (1 .. Len(bucket))
    BY <1>1 DEF Copies
  <2>2. top \in copies /\ \A k \in copies : k <= top
    BY <1>1, <2>1, Greatest
  <2> HIDE DEF top
  <2>3. cut(top) /\ top \in DOMAIN bucket
    BY <1>1, <2>1, <2>2
  <2> QED
    BY <1>3, <1>4, <2>2, <2>3
<1>6. ASSUME NEW j \in DOMAIN bucket
      PROVE  /\ q[j].snap = bucket[j].snap /\ q[j].by = bucket[j].by
             /\ bucket[j].there => j <= j /\ q[j].there
             /\ q[j].step \in PutDone => bucket[j].step \in PutDone
             /\ q[j].step = "copied" => bucket[j].step = "copied" \/ j = i
  <2>1. q[j] = e(j) /\ j <= j
    BY <1>1, <1>4
  <2> QED
    BY <1>2, <1>3, <2>1 DEF PutDone
<1>7. /\ \A j \in DOMAIN bucket : bucket[j].copied => j \in copies
      /\ i \in copies
  BY DEF Copies
<1> HIDE DEF copies
<1>8. Sound(q) /\ Carries(bucket, q)
  BY <1>4, <1>5, <1>6, <1>7, Redrawn
<1>9. Sound(Compact(q)) /\ Carries(q, Compact(q))
  BY <1>8, CompactSound
<1> QED
  BY <1>1, <1>2, <1>4, <1>8, <1>9, CarriesTrans DEF Sound

\* A request that ends, with an answer or without.
LEMMA DoneSound ==
  ASSUME Sound(bucket), NEW i \in DOMAIN bucket, bucket' = Done(bucket, i)
  PROVE  /\ Sound(bucket') /\ Carries(bucket, bucket')
         /\ \A k \in DOMAIN bucket' : bucket'[k].by = bucket[i].by => bucket'[k].by = Nobody
<1> DEFINE e == [bucket[i] EXCEPT !.step = "answered", !.by = Nobody]
           q == [bucket EXCEPT ![i] = e]
<1>1. /\ bucket \in Seq(Uploads) /\ Len(bucket) \in Nat /\ DOMAIN bucket = 1 .. Len(bucket)
      /\ \A j \in DOMAIN bucket : bucket[j] \in Uploads /\ j \in Nat
  BY BucketShape DEF Sound
<1>2. bucket' = Compact(q)
  BY DEF Done
<1>11. /\ e \in Uploads /\ e.snap = bucket[i].snap /\ e.by = Nobody /\ e.step = "answered"
       /\ e.there = bucket[i].there /\ e.copied = bucket[i].copied
  BY <1>1 DEF Uploads
<1> HIDE DEF e
<1>3. /\ q \in Seq(Uploads) /\ Len(q) = Len(bucket)
      /\ q[i].snap = bucket[i].snap /\ q[i].by = Nobody /\ q[i].step = "answered"
      /\ q[i].there = bucket[i].there /\ q[i].copied = bucket[i].copied
      /\ \A j \in DOMAIN bucket : j # i => q[j] = bucket[j]
  <2>1. q \in Seq(Uploads) /\ Len(q) = Len(bucket)
    BY <1>1, <1>11
  <2>2. q[i] = e /\ \A j \in DOMAIN bucket : j # i => q[j] = bucket[j]
    BY <1>1
  <2> HIDE DEF q
  <2> QED
    BY <1>11, <2>1, <2>2
<1> HIDE DEF q
<1>4. ASSUME NEW j \in DOMAIN bucket
      PROVE  /\ q[j].snap = bucket[j].snap /\ (q[j].by = bucket[j].by \/ q[j].by = Nobody)
             /\ bucket[j].there => j <= j /\ q[j].there
             /\ bucket[j].copied => j <= j /\ q[j].copied
             /\ q[j].step \in PutDone => bucket[j].step \in PutDone
             /\ q[j].step = "copied" => bucket[j].step = "copied"
  <2>1. j <= j
    BY <1>1
  <2>2. CASE j = i
    BY <1>3, <2>1, <2>2 DEF PutDone
  <2>3. CASE j # i
    BY <1>3, <2>1, <2>3
  <2> QED
    BY <2>2, <2>3
<1>5. Sound(q) /\ Carries(bucket, q)
  BY <1>3, <1>4, Redrawn
<1>6. Sound(Compact(q)) /\ Carries(q, Compact(q))
  BY <1>5, CompactSound
<1>7. Sound(bucket') /\ Carries(bucket, bucket')
  BY <1>1, <1>2, <1>3, <1>5, <1>6, CarriesTrans DEF Sound
<1>8. DOMAIN q = DOMAIN bucket
  BY <1>1, <1>3, BucketShape
<1>9. \A j \in DOMAIN bucket : q[j].by = bucket[i].by => q[j].by = Nobody
  BY <1>3 DEF Sound
<1>10. ASSUME NEW k \in DOMAIN bucket', bucket'[k].by = bucket[i].by
       PROVE  bucket'[k].by = Nobody
  <2>1. PICK j \in DOMAIN q : bucket'[k].by = q[j].by \/ bucket'[k].by = Nobody
    BY <1>2, <1>6 DEF Carries
  <2> QED
    BY <1>8, <1>9, <1>10, <2>1
<1> QED
  BY <1>7, <1>10

\* Clients that hang up, one (HangUp) or all of a process (Gone).
LEMMA NobodySound ==
  ASSUME Sound(bucket), NEW U \in SUBSET (Uploaders \cup {Nobody}),
         bucket' = [i \in DOMAIN bucket |->
                      IF bucket[i].by \in U THEN [bucket[i] EXCEPT !.by = Nobody] ELSE bucket[i]]
  PROVE  /\ Sound(bucket') /\ Carries(bucket, bucket')
         /\ \A k \in DOMAIN bucket' : bucket'[k].by \notin U \ {Nobody}
<1>1. /\ bucket \in Seq(Uploads) /\ Len(bucket) \in Nat /\ DOMAIN bucket = 1 .. Len(bucket)
      /\ \A j \in DOMAIN bucket : bucket[j] \in Uploads /\ j \in Nat
  BY BucketShape DEF Sound
<1>2. ASSUME NEW j \in DOMAIN bucket
      PROVE  /\ bucket'[j] \in Uploads /\ bucket'[j].by \notin U \ {Nobody}
             /\ bucket'[j].snap = bucket[j].snap
             /\ bucket'[j].by = bucket[j].by \/ bucket'[j].by = Nobody
             /\ bucket'[j].there = bucket[j].there /\ bucket'[j].copied = bucket[j].copied
             /\ bucket'[j].step = bucket[j].step
  BY <1>1, WorkerAssumption DEF Uploads
<1>3. bucket' \in Seq(Uploads) /\ Len(bucket') = Len(bucket) /\ DOMAIN bucket' = DOMAIN bucket
  BY <1>1, <1>2
<1>4. ASSUME NEW j \in DOMAIN bucket
      PROVE  /\ bucket[j].there => j <= j /\ bucket'[j].there
             /\ bucket[j].copied => j <= j /\ bucket'[j].copied
             /\ bucket'[j].step = bucket[j].step
  BY <1>1, <1>2
<1>5. Sound(bucket') /\ Carries(bucket, bucket')
  BY <1>2, <1>3, <1>4, Redrawn
<1> QED
  BY <1>2, <1>3, <1>5

(***************************************************************************)
(* The inductive invariant. A version is backed up when the Worker has an  *)
(* object for it, and the team's prefix too, at a version not older if     *)
(* only one Syncer has been at work.                                       *)
(***************************************************************************)
Backed ==
  {v \in Nat :
     /\ \E j \in DOMAIN bucket : bucket[j].there /\ (Single => v <= bucket[j].snap)
     /\ Team => \E j \in DOMAIN bucket : bucket[j].copied /\ (Single => v <= bucket[j].snap)}
BackedNotes == [snap : Backed, key : {NoKey}]

Stages == {"idle", "snapshot", "post", "wait", "load", "create", "write", "rename"}
Saving == {"load", "create", "write", "rename"}

UploadType ==
  /\ pc \in [Uploaders -> Stages] /\ snap \in [Uploaders -> Nat]

MainType ==
  /\ ver \in Nat /\ runs \in Nat /\ reloads \in Nat
  /\ cur \in Daemon \cup {None} /\ polled \in Daemon \cup {None} /\ kicked \in SUBSET Uploaders
  /\ mu \in [Uploaders -> {"free", "poll", "now"}] /\ key \in [Uploaders -> {NoKey}]

\* A request that somebody waits for is about that Syncer's snapshot.
OwnerInv ==
  \A i \in DOMAIN bucket : bucket[i].by # Nobody =>
    pc[bucket[i].by] = "wait" /\ bucket[i].snap = snap[bucket[i].by]

\* A single Syncer's snapshots rise to the store's version.
RisingInv ==
  Single =>
    /\ \A i \in DOMAIN bucket : bucket[i].snap <= ver
    /\ \A s \in Uploaders : pc[s] = "post" =>
         snap[s] <= ver /\ \A i \in DOMAIN bucket : bucket[i].snap <= snap[s]

AloneInv ==
  /\ \A s \in Uploaders : pc[s] # "idle" => mu[s] # "free"
  /\ Single => kicked = {} /\ \A s \in Uploaders : pc[s] # "idle" => s = polled /\ mu[s] = "poll"

\* What a Syncer writes down after the answer, and what the files list.
SavedInv ==
  /\ prev \in [Uploaders -> Seq(BackedNotes)]
  /\ \A s \in Uploaders : pc[s] \in Saving => snap[s] \in Backed

FilesInv ==
  state \in Seq(BackedNotes) \cup {Torn, Absent} /\ tmp \in Seq(BackedNotes) \cup {Torn, Absent}

SafeInv ==
  /\ UploadType /\ MainType /\ Sound(bucket) /\ OwnerInv
  /\ RisingInv /\ AloneInv /\ SavedInv /\ FilesInv

\* What was backed up stays so.
LEMMA BackedGrows ==
  ASSUME Sound(bucket), Sound(bucket'), Carries(bucket, bucket'), Single' => Single
  PROVE  Backed \subseteq Backed' /\ Seq(BackedNotes) \subseteq Seq(BackedNotes')
<1>1. bucket \in Seq(Uploads) /\ bucket' \in Seq(Uploads)
  BY DEF Sound
<1>2. /\ \A i \in DOMAIN bucket : bucket[i].snap \in Nat
      /\ \A i \in DOMAIN bucket' : bucket'[i].snap \in Nat
  BY <1>1, BucketShape
<1>3. ASSUME NEW v \in Nat, NEW i \in DOMAIN bucket, bucket[i].there, Single => v <= bucket[i].snap
      PROVE  \E j \in DOMAIN bucket' : bucket'[j].there /\ (Single' => v <= bucket'[j].snap)
  <2>1. PICK j \in DOMAIN bucket' : bucket'[j].there /\ (Single => bucket[i].snap <= bucket'[j].snap)
    BY <1>3 DEF Carries
  <2>2. bucket[i].snap \in Nat /\ bucket'[j].snap \in Nat
    BY <1>2
  <2> QED
    BY <1>3, <2>1, <2>2
<1>4. ASSUME NEW v \in Nat, NEW i \in DOMAIN bucket, bucket[i].copied, Single => v <= bucket[i].snap
      PROVE  \E j \in DOMAIN bucket' : bucket'[j].copied /\ (Single' => v <= bucket'[j].snap)
  <2>1. PICK j \in DOMAIN bucket' : bucket'[j].copied /\ (Single => bucket[i].snap <= bucket'[j].snap)
    BY <1>4 DEF Carries
  <2>2. bucket[i].snap \in Nat /\ bucket'[j].snap \in Nat
    BY <1>2
  <2> QED
    BY <1>4, <2>1, <2>2
<1>5. ASSUME NEW v \in Backed
      PROVE  v \in Backed'
  BY <1>3, <1>4 DEF Backed
<1>6. BackedNotes \subseteq BackedNotes'
  BY <1>5 DEF BackedNotes
<1> QED
  BY <1>5, <1>6

LEMMA SameBucket ==
  ASSUME Sound(bucket), UNCHANGED bucket
  PROVE  Sound(bucket') /\ Carries(bucket, bucket')
<1>1. \A i \in DOMAIN bucket : bucket[i].snap <= bucket[i].snap
  BY BucketShape DEF Sound
<1>2. Carries(bucket, bucket)
  BY <1>1 DEF Carries
<1> QED
  BY <1>2

\* Steps that move one Syncer's upload, or none, and take no new request in.
LEMMA MoveFrame ==
  ASSUME SafeInv, NEW s \in Uploaders, NEW c \in Stages, NEW v \in Nat, NEW p \in Seq(BackedNotes'),
         pc' = [pc EXCEPT ![s] = c], snap' = [snap EXCEPT ![s] = v], prev' = [prev EXCEPT ![s] = p],
         Sound(bucket'), Carries(bucket, bucket'), Single' => Single,
         ver' \in Nat, ver <= ver',
         \/ pc[s] # "wait"
         \/ c = "wait" /\ v = snap[s]
         \/ \A k \in DOMAIN bucket' : bucket'[k].by # s,
         c \in Saving => v \in Backed',
         Single' /\ c = "post" => v <= ver /\ \A i \in DOMAIN bucket : bucket[i].snap <= v
  PROVE  UploadType' /\ Sound(bucket)' /\ OwnerInv' /\ RisingInv' /\ SavedInv'
<1>1. /\ pc \in [Uploaders -> Stages] /\ snap \in [Uploaders -> Nat]
      /\ Sound(bucket) /\ OwnerInv /\ RisingInv /\ SavedInv /\ ver \in Nat
  BY DEF SafeInv, UploadType, MainType
<1>2. UploadType'
  BY <1>1 DEF UploadType
<1>3. Sound(bucket)'
  BY <1>1 DEF Sound
<1>4. /\ pc'[s] = c /\ snap'[s] = v
      /\ \A t \in Uploaders : t # s => pc'[t] = pc[t] /\ snap'[t] = snap[t]
  BY <1>1
<1>5. /\ \A i \in DOMAIN bucket : bucket[i].snap \in Nat /\ bucket[i] \in Uploads
      /\ \A i \in DOMAIN bucket' : bucket'[i].snap \in Nat /\ bucket'[i] \in Uploads
  BY <1>1, BucketShape DEF Sound
<1>6. ASSUME NEW k \in DOMAIN bucket', bucket'[k].by # Nobody
      PROVE  pc'[bucket'[k].by] = "wait" /\ bucket'[k].snap = snap'[bucket'[k].by]
  <2> DEFINE u == bucket'[k].by
  <2>1. PICK i \in DOMAIN bucket : bucket'[k].snap = bucket[i].snap /\ u = bucket[i].by
    BY <1>6 DEF Carries
  <2>2. pc[u] = "wait" /\ bucket'[k].snap = snap[u] /\ u \in Uploaders
    BY <1>1, <1>5, <1>6, <2>1 DEF OwnerInv, Uploads
  <2> QED
    BY <1>4, <2>2
<1>7. OwnerInv'
  BY <1>6 DEF OwnerInv
<1>8. ASSUME Single', NEW k \in DOMAIN bucket'
      PROVE  bucket'[k].snap <= ver' /\ \A t \in Uploaders : pc'[t] = "post" => bucket'[k].snap <= snap'[t]
  <2>1. PICK i \in DOMAIN bucket : bucket'[k].snap = bucket[i].snap
    BY DEF Carries
  <2>2. bucket[i].snap <= ver /\ \A t \in Uploaders : pc[t] = "post" => bucket[i].snap <= snap[t]
    BY <1>1, <1>8 DEF RisingInv
  <2>3. bucket[i].snap \in Nat
    BY <1>5
  <2>4. bucket[i].snap <= ver'
    BY <1>1, <2>2, <2>3
  <2> QED
    BY <1>4, <1>8, <2>1, <2>2, <2>4
<1>9. ASSUME Single', NEW t \in Uploaders, pc'[t] = "post"
      PROVE  snap'[t] <= ver'
  <2>1. snap'[t] <= ver
    BY <1>1, <1>4, <1>9 DEF RisingInv
  <2>2. snap'[t] \in Nat
    BY <1>2 DEF UploadType
  <2> QED
    BY <1>1, <2>1, <2>2
<1>10. RisingInv'
  BY <1>8, <1>9 DEF RisingInv
<1>11. Backed \subseteq Backed' /\ Seq(BackedNotes) \subseteq Seq(BackedNotes')
  BY <1>1, BackedGrows
<1>12. prev' \in [Uploaders -> Seq(BackedNotes')]
  BY <1>1, <1>11 DEF SavedInv
<1>13. \A t \in Uploaders : pc'[t] \in Saving => snap'[t] \in Backed'
  BY <1>1, <1>4, <1>11 DEF SavedInv
<1> QED
  BY <1>2, <1>3, <1>7, <1>10, <1>12, <1>13 DEF SavedInv

\* Steps of main, and the Worker's, that leave every upload where it is.
LEMMA StillFrame ==
  ASSUME SafeInv, UNCHANGED <<pc, snap, prev, state, tmp>>,
         Sound(bucket'), Carries(bucket, bucket'), Single' => Single,
         ver' \in Nat, ver <= ver'
  PROVE  UploadType' /\ Sound(bucket)' /\ OwnerInv' /\ RisingInv' /\ SavedInv' /\ FilesInv'
<1> DEFINE s == Cli
<1>1. /\ pc \in [Uploaders -> Stages] /\ snap \in [Uploaders -> Nat] /\ s \in Uploaders
      /\ Sound(bucket) /\ OwnerInv /\ RisingInv /\ SavedInv /\ FilesInv
      /\ prev \in [Uploaders -> Seq(BackedNotes)]
  BY SyncAssumption DEF SafeInv, UploadType, SavedInv
<1> HIDE DEF s
<1>2. Backed \subseteq Backed' /\ Seq(BackedNotes) \subseteq Seq(BackedNotes')
  BY <1>1, BackedGrows
<1>3. FilesInv'
  BY <1>1, <1>2 DEF FilesInv
<1>4. /\ pc[s] \in Stages /\ snap[s] \in Nat /\ prev[s] \in Seq(BackedNotes')
      /\ pc' = [pc EXCEPT ![s] = pc[s]] /\ snap' = [snap EXCEPT ![s] = snap[s]]
      /\ prev' = [prev EXCEPT ![s] = prev[s]]
  BY <1>1, <1>2
<1>5. pc[s] \in Saving => snap[s] \in Backed'
  BY <1>1, <1>2 DEF SavedInv
<1>6. Single' /\ pc[s] = "post" => snap[s] <= ver /\ \A i \in DOMAIN bucket : bucket[i].snap <= snap[s]
  BY <1>1 DEF RisingInv
<1>7. pc[s] # "wait" \/ (pc[s] = "wait" /\ snap[s] = snap[s])
  OBVIOUS
<1> QED
  BY <1>1, <1>3, <1>4, <1>5, <1>6, <1>7, MoveFrame

(***************************************************************************)
(* The steps.                                                              *)
(***************************************************************************)
LEMMA SafeInit == Init => SafeInv
<1> SUFFICES ASSUME Init
             PROVE  SafeInv
  OBVIOUS
<1>1. bucket = <<>> /\ Len(bucket) = 0 /\ DOMAIN bucket = {} /\ bucket \in Seq(Uploads)
  BY DEF Init
<1>2. Sound(bucket) /\ OwnerInv
  BY <1>1 DEF Sound, OwnerInv
<1>3. pc = [s \in Uploaders |-> "idle"]
  BY DEF Init
<1>4. UploadType /\ MainType
  BY DEF Init, UploadType, MainType, Stages
<1>5. \A s \in Uploaders : pc[s] = "idle"
  BY <1>3
<1>6. RisingInv
  BY <1>1, <1>5 DEF RisingInv
<1>7. AloneInv
  BY <1>5 DEF AloneInv, Init
<1>8. <<>> \in Seq(BackedNotes)
  OBVIOUS
<1>9. SavedInv /\ FilesInv
  BY <1>5, <1>8 DEF SavedInv, FilesInv, Init, Saving
<1> QED
  BY <1>2, <1>4, <1>6, <1>7, <1>9 DEF SafeInv

LEMMA WriteSafe ==
  ASSUME SafeInv, Write
  PROVE  SafeInv'
<1>1. Sound(bucket') /\ Carries(bucket, bucket')
  BY SameBucket DEF SafeInv, Write
<1>2. ver \in Nat /\ ver' \in Nat /\ ver <= ver'
  BY DEF SafeInv, MainType, Write
<1>3. /\ UNCHANGED <<pc, snap, prev, state, tmp>>
      /\ UNCHANGED <<cur, polled, kicked, mu, key, runs, reloads>>
  BY DEF Write, mainVars, synVars, upVars, fileVars, boundVars
<1>4. Single' => Single
  BY <1>3 DEF Single
<1>5. UploadType' /\ Sound(bucket)' /\ OwnerInv' /\ RisingInv' /\ SavedInv' /\ FilesInv'
  BY <1>1, <1>2, <1>3, <1>4, StillFrame
<1>6. MainType' /\ AloneInv'
  BY <1>2, <1>3, <1>4 DEF SafeInv, MainType, AloneInv
<1> QED
  BY <1>5, <1>6 DEF SafeInv

\* Time, the poll loop's looks without an upload, and the changes of sync.json.
LEMMA MainStep ==
  ASSUME SafeInv,
         UNCHANGED <<bucket, ver, pc, snap, prev, key, mu, state, tmp>>,
         MainType', AloneInv', Single' => Single
  PROVE  SafeInv'
<1>1. Sound(bucket') /\ Carries(bucket, bucket')
  BY SameBucket DEF SafeInv
<1>2. ver \in Nat /\ ver' \in Nat /\ ver <= ver'
  BY DEF SafeInv, MainType
<1>3. UploadType' /\ Sound(bucket)' /\ OwnerInv' /\ RisingInv' /\ SavedInv' /\ FilesInv'
  BY <1>1, <1>2, StillFrame
<1> QED
  BY <1>3 DEF SafeInv

LEMMA TickSafe ==
  ASSUME SafeInv, Tick
  PROVE  SafeInv'
<1>1. UNCHANGED <<bucket, ver, cur, polled, kicked, mu, pc, snap, prev, key, state, tmp, runs, reloads>>
  BY DEF Tick, storeVars, upVars, fileVars, boundVars
<1>2. MainType' /\ AloneInv' /\ (Single' => Single)
  BY <1>1 DEF SafeInv, MainType, AloneInv, Single
<1> QED
  BY <1>1, <1>2, MainStep

LEMMA PollSafe ==
  ASSUME SafeInv, Poll
  PROVE  SafeInv'
<1>1. UNCHANGED <<bucket, ver, cur, kicked, mu, pc, snap, prev, key, state, tmp, runs, reloads>>
  BY DEF Poll, storeVars, synVars, upVars, fileVars, boundVars
<1>2. polled = None /\ polled' = cur
  BY DEF Poll
<1>3. Single => \A s \in Uploaders : pc[s] = "idle"
  BY <1>2, SyncAssumption DEF SafeInv, AloneInv
<1>4. MainType' /\ AloneInv' /\ (Single' => Single)
  BY <1>1, <1>2, <1>3 DEF SafeInv, MainType, AloneInv, Single
<1> QED
  BY <1>1, <1>4, MainStep

LEMMA LookSafe ==
  ASSUME SafeInv, NEW s \in Daemon, NotDue(s) \/ NotIdle(s)
  PROVE  SafeInv'
<1>1. /\ UNCHANGED <<bucket, ver, cur, kicked, mu, pc, snap, prev, key, state, tmp, runs, reloads>>
      /\ polled = s /\ mu[s] = "free" /\ polled' = None
  BY DEF NotDue, NotIdle, Look, storeVars, synVars, upVars, fileVars, boundVars
<1>2. Single => \A t \in Uploaders : pc[t] = "idle"
  BY <1>1 DEF SafeInv, AloneInv
<1>3. MainType' /\ AloneInv' /\ (Single' => Single)
  BY <1>1, <1>2 DEF SafeInv, MainType, AloneInv, Single
<1> QED
  BY <1>1, <1>3, MainStep

LEMMA ReloadSafe ==
  ASSUME SafeInv, Reload
  PROVE  SafeInv'
<1>1. /\ UNCHANGED <<bucket, ver, polled, mu, pc, snap, prev, key, state, tmp, runs>>
      /\ reloads' = reloads + 1 /\ reloads \in Nat
  BY DEF Reload, storeVars, upVars, fileVars, SafeInv, MainType
<1>2. cur' \in Daemon \cup {None} /\ kicked' \in SUBSET Uploaders
  BY DEF Reload, Daemon, SafeInv, MainType
<1>3. ~ Single'
  BY <1>1 DEF Single
<1>4. MainType' /\ AloneInv'
  BY <1>1, <1>2, <1>3 DEF SafeInv, MainType, AloneInv
<1> QED
  BY <1>1, <1>3, <1>4, MainStep

LEMMA RunCliSafe ==
  ASSUME SafeInv, RunCli
  PROVE  SafeInv'
<1>1. /\ UNCHANGED <<bucket, ver, cur, polled, mu, pc, snap, prev, key, state, tmp, reloads>>
      /\ runs' = runs + 1 /\ runs \in Nat
  BY DEF RunCli, storeVars, upVars, fileVars, SafeInv, MainType
<1>2. kicked' \in SUBSET Uploaders
  BY SyncAssumption DEF RunCli, SafeInv, MainType
<1>3. ~ Single'
  BY <1>1 DEF Single
<1>4. MainType' /\ AloneInv'
  BY <1>1, <1>2, <1>3 DEF SafeInv, MainType, AloneInv
<1> QED
  BY <1>1, <1>3, <1>4, MainStep

\* An upload begins: only when the Syncer's mutex was free.
LEMMA BeginFrame ==
  ASSUME SafeInv, NEW s \in Uploaders, mu[s] = "free",
         UNCHANGED <<bucket, ver, snap, prev, key, state, tmp>>,
         pc' = [pc EXCEPT ![s] = "snapshot"],
         MainType', AloneInv', Single' => Single
  PROVE  SafeInv'
<1>1. /\ snap \in [Uploaders -> Nat] /\ prev \in [Uploaders -> Seq(BackedNotes)]
      /\ Sound(bucket) /\ ver \in Nat /\ FilesInv
  BY DEF SafeInv, UploadType, MainType, SavedInv
<1>2. Sound(bucket') /\ Carries(bucket, bucket')
  BY <1>1, SameBucket
<1>3. Backed \subseteq Backed' /\ Seq(BackedNotes) \subseteq Seq(BackedNotes')
  BY <1>1, <1>2, BackedGrows
<1>4. /\ snap[s] \in Nat /\ prev[s] \in Seq(BackedNotes')
      /\ snap' = [snap EXCEPT ![s] = snap[s]] /\ prev' = [prev EXCEPT ![s] = prev[s]]
  BY <1>1, <1>3
<1>5. pc[s] # "wait" /\ ver' \in Nat /\ ver <= ver'
  BY <1>1 DEF SafeInv, AloneInv
<1>6. "snapshot" \in Stages /\ "snapshot" \notin Saving
  BY DEF Stages, Saving
<1>7. UploadType' /\ Sound(bucket)' /\ OwnerInv' /\ RisingInv' /\ SavedInv'
  BY <1>2, <1>4, <1>5, <1>6, MoveFrame
<1>8. FilesInv'
  BY <1>1, <1>3 DEF FilesInv
<1> QED
  BY <1>7, <1>8 DEF SafeInv

LEMMA TriggerUploadSafe ==
  ASSUME SafeInv, NEW s \in Daemon, TriggerUpload(s)
  PROVE  SafeInv'
<1>1. /\ UNCHANGED <<bucket, ver, cur, polled, kicked, snap, prev, key, state, tmp, runs, reloads>>
      /\ pc' = [pc EXCEPT ![s] = "snapshot"] /\ mu' = [mu EXCEPT ![s] = "poll"]
      /\ polled = s /\ mu[s] = "free" /\ s \in Uploaders
  BY DEF TriggerUpload, Look, Daemon, storeVars, mainVars, fileVars, boundVars
<1>2. /\ pc \in [Uploaders -> Stages] /\ mu \in [Uploaders -> {"free", "poll", "now"}]
      /\ AloneInv /\ MainType
  BY DEF SafeInv, UploadType, MainType
<1>3. Single' => Single
  BY <1>1 DEF Single
<1>4. MainType'
  BY <1>1, <1>2 DEF MainType
<1>5. ASSUME NEW t \in Uploaders, pc'[t] # "idle"
      PROVE  mu'[t] # "free" /\ (Single => t = polled' /\ mu'[t] = "poll")
  <2>1. CASE t = s
    BY <1>1, <1>2, <2>1
  <2>2. CASE t # s
    BY <1>1, <1>2, <1>5, <2>2 DEF AloneInv
  <2> QED
    BY <2>1, <2>2
<1>6. AloneInv'
  BY <1>1, <1>2, <1>3, <1>5 DEF AloneInv
<1> QED
  BY <1>1, <1>3, <1>4, <1>6, BeginFrame

LEMMA SyncNowSafe ==
  ASSUME SafeInv, NEW s \in Uploaders, SyncNow(s)
  PROVE  SafeInv'
<1>1. /\ UNCHANGED <<bucket, ver, cur, polled, snap, prev, key, state, tmp, runs, reloads>>
      /\ pc' = [pc EXCEPT ![s] = "snapshot"] /\ mu' = [mu EXCEPT ![s] = "now"]
      /\ s \in kicked /\ kicked' = kicked \ {s} /\ mu[s] = "free"
  BY DEF SyncNow, storeVars, fileVars, boundVars
<1>2. /\ pc \in [Uploaders -> Stages] /\ mu \in [Uploaders -> {"free", "poll", "now"}]
      /\ AloneInv /\ MainType
  BY DEF SafeInv, UploadType, MainType
<1>3. ~ Single /\ ~ Single'
  BY <1>1, <1>2 DEF Single, AloneInv
<1>4. MainType'
  BY <1>1, <1>2 DEF MainType
<1>5. ASSUME NEW t \in Uploaders, pc'[t] # "idle"
      PROVE  mu'[t] # "free"
  <2>1. CASE t = s
    BY <1>1, <1>2, <2>1
  <2>2. CASE t # s
    BY <1>1, <1>2, <1>5, <2>2 DEF AloneInv
  <2> QED
    BY <2>1, <2>2
<1>6. AloneInv'
  BY <1>3, <1>5 DEF AloneInv
<1> QED
  BY <1>1, <1>3, <1>4, <1>6, BeginFrame

\* An upload goes on: the mutex stays with its Syncer.
LEMMA AloneOn ==
  ASSUME AloneInv, NEW s \in Uploaders, NEW c, pc \in [Uploaders -> Stages], pc[s] # "idle",
         pc' = [pc EXCEPT ![s] = c], UNCHANGED <<kicked, polled, mu, runs, reloads>>
  PROVE  AloneInv' /\ (Single' => Single)
<1>1. Single' => Single
  BY DEF Single
<1>2. \A t \in Uploaders : pc'[t] # "idle" => pc[t] # "idle"
  OBVIOUS
<1> QED
  BY <1>1, <1>2 DEF AloneInv

\* And it ends.
LEMMA AloneReturn ==
  ASSUME SafeInv, NEW s \in Uploaders, NEW ok, pc[s] # "idle", Return(s, ok),
         UNCHANGED <<ver, cur, kicked, runs, reloads>>
  PROVE  MainType' /\ AloneInv' /\ (Single' => Single)
<1>1. /\ pc \in [Uploaders -> Stages] /\ mu \in [Uploaders -> {"free", "poll", "now"}]
      /\ key \in [Uploaders -> {NoKey}] /\ AloneInv /\ MainType
  BY DEF SafeInv, UploadType, MainType
<1>2. /\ pc' = [pc EXCEPT ![s] = "idle"] /\ mu' = [mu EXCEPT ![s] = "free"]
      /\ polled' = (IF mu[s] = "poll" THEN None ELSE polled) /\ key' = [key EXCEPT ![s] = NoKey]
  BY DEF Return, Goto
<1>3. Single' => Single
  BY DEF Single
<1>4. MainType'
  BY <1>1, <1>2 DEF MainType
<1>5. ASSUME NEW t \in Uploaders, pc'[t] # "idle"
      PROVE  mu'[t] # "free" /\ ~ Single
  <2>1. t # s
    BY <1>1, <1>2, <1>5
  <2>2. pc[t] # "idle" /\ mu'[t] = mu[t]
    BY <1>1, <1>2, <1>5, <2>1
  <2> QED
    BY <1>1, <2>1, <2>2 DEF AloneInv
<1>6. AloneInv'
  BY <1>1, <1>3, <1>5 DEF AloneInv
<1> QED
  BY <1>3, <1>4, <1>6

\* upload returns: no request of the Syncer's is waited for any more.
LEMMA ReturnFrame ==
  ASSUME SafeInv, NEW s \in Uploaders, NEW ok, pc[s] # "idle", Return(s, ok),
         UNCHANGED <<ver, cur, kicked, runs, reloads>>,
         Sound(bucket'), Carries(bucket, bucket'),
         pc[s] # "wait" \/ \A k \in DOMAIN bucket' : bucket'[k].by # s,
         state' \in {state, tmp}, tmp' \in {tmp, Absent}
  PROVE  SafeInv'
<1>1. /\ snap \in [Uploaders -> Nat] /\ prev \in [Uploaders -> Seq(BackedNotes)]
      /\ Sound(bucket) /\ ver \in Nat /\ FilesInv
  BY DEF SafeInv, UploadType, MainType, SavedInv
<1>2. MainType' /\ AloneInv' /\ (Single' => Single)
  BY AloneReturn
<1>3. Seq(BackedNotes) \subseteq Seq(BackedNotes')
  BY <1>1, <1>2, BackedGrows
<1>4. /\ 0 \in Nat /\ <<>> \in Seq(BackedNotes') /\ "idle" \in Stages /\ "idle" \notin Saving
      /\ ver' \in Nat /\ ver <= ver'
  BY <1>1 DEF Stages, Saving
<1>5. /\ pc' = [pc EXCEPT ![s] = "idle"] /\ snap' = [snap EXCEPT ![s] = 0]
      /\ prev' = [prev EXCEPT ![s] = <<>>]
  BY DEF Return, Goto
<1>6. UploadType' /\ Sound(bucket)' /\ OwnerInv' /\ RisingInv' /\ SavedInv'
  BY <1>2, <1>4, <1>5, MoveFrame
<1>7. FilesInv'
  BY <1>1, <1>3 DEF FilesInv
<1> QED
  BY <1>2, <1>6, <1>7 DEF SafeInv

\* The steps of an upload that stay on the daemon's side.
LEMMA LocalFrame ==
  ASSUME SafeInv, NEW s \in Uploaders, NEW c \in Stages, NEW v \in Nat, NEW p \in Seq(BackedNotes),
         pc[s] \notin {"idle", "wait"},
         pc' = [pc EXCEPT ![s] = c], snap' = [snap EXCEPT ![s] = v], prev' = [prev EXCEPT ![s] = p],
         UNCHANGED <<bucket, ver, cur, kicked, polled, mu, key, runs, reloads>>,
         c \in Saving => v \in Backed,
         c = "post" => v = ver,
         state' \in Seq(BackedNotes) \cup {Torn, Absent}, tmp' \in Seq(BackedNotes) \cup {Torn, Absent}
  PROVE  SafeInv'
<1>1. /\ pc \in [Uploaders -> Stages] /\ Sound(bucket) /\ ver \in Nat
      /\ AloneInv /\ MainType /\ RisingInv
  BY DEF SafeInv, UploadType, MainType
<1>2. AloneInv' /\ (Single' => Single)
  BY <1>1, AloneOn
<1>3. Sound(bucket') /\ Carries(bucket, bucket')
  BY <1>1, SameBucket
<1>4. Backed \subseteq Backed' /\ Seq(BackedNotes) \subseteq Seq(BackedNotes')
  BY <1>1, <1>2, <1>3, BackedGrows
<1>5. MainType'
  BY <1>1 DEF MainType
<1>6. ver' \in Nat /\ ver <= ver' /\ p \in Seq(BackedNotes') /\ (c \in Saving => v \in Backed')
  BY <1>1, <1>4
<1>7. Single' /\ c = "post" => v <= ver /\ \A i \in DOMAIN bucket : bucket[i].snap <= v
  BY <1>1, <1>2 DEF RisingInv
<1>8. UploadType' /\ Sound(bucket)' /\ OwnerInv' /\ RisingInv' /\ SavedInv'
  BY <1>2, <1>3, <1>6, <1>7, MoveFrame
<1>9. FilesInv'
  BY <1>4 DEF FilesInv
<1> QED
  BY <1>2, <1>5, <1>8, <1>9 DEF SafeInv

\* The entries of the history that is written are those that were read, and
\* the new one.
LEMMA RecordOf ==
  ASSUME NEW T, NEW e \in T, NEW h \in Seq(T)
  PROVE  Record(e, h) \in Seq(T)
<1> DEFINE q == <<e>> \o h
           n == IF Len(h) < MaxHistory THEN Len(h) + 1 ELSE MaxHistory
<1>1. Len(h) \in Nat /\ MaxHistory \in Nat
  BY SyncAssumption
<1>2. q \in Seq(T) /\ Len(q) = Len(h) + 1
  BY <1>1
<1>3. n \in Nat /\ n <= Len(q)
  BY <1>1, <1>2
<1> HIDE DEF q, n
<1>4. SubSeq(q, 1, n) \in Seq(T)
  BY <1>2, <1>3
<1> QED
  BY <1>4 DEF Record, q, n

LEMMA SnapshotSafe ==
  ASSUME SafeInv, NEW s \in Uploaders, Snapshot(s)
  PROVE  SafeInv'
<1>1. /\ ver \in Nat /\ prev[s] \in Seq(BackedNotes) /\ prev = [prev EXCEPT ![s] = prev[s]]
      /\ FilesInv
  BY DEF SafeInv, MainType, SavedInv
<1>2. /\ pc[s] = "snapshot" /\ pc' = [pc EXCEPT ![s] = "post"] /\ snap' = [snap EXCEPT ![s] = ver]
      /\ UNCHANGED <<bucket, ver, cur, kicked, polled, mu, key, prev, state, tmp, runs, reloads>>
  BY DEF Snapshot, Goto, storeVars, mainVars, synVars, fileVars, boundVars
<1>3. "post" \in Stages /\ "post" \notin Saving
  BY DEF Stages, Saving
<1> QED
  BY <1>1, <1>2, <1>3, LocalFrame DEF FilesInv

LEMMA TooLargeSafe ==
  ASSUME SafeInv, NEW s \in Uploaders, TooLarge(s)
  PROVE  SafeInv'
<1>1. /\ pc[s] = "snapshot" /\ Return(s, FALSE)
      /\ UNCHANGED <<bucket, ver, cur, kicked, runs, reloads, state, tmp>>
  BY DEF TooLarge, storeVars, fileVars, boundVars
<1>2. Sound(bucket') /\ Carries(bucket, bucket')
  BY <1>1, SameBucket DEF SafeInv
<1> QED
  BY <1>1, <1>2, ReturnFrame

LEMMA LoadSyncStateSafe ==
  ASSUME SafeInv, NEW s \in Uploaders, LoadSyncState(s)
  PROVE  SafeInv'
<1>1. /\ snap[s] \in Nat /\ snap = [snap EXCEPT ![s] = snap[s]] /\ FilesInv
      /\ pc[s] \in Saving => snap[s] \in Backed
  BY DEF SafeInv, UploadType, SavedInv
<1>2. /\ pc[s] = "load" /\ pc' = [pc EXCEPT ![s] = "create"]
      /\ prev' = [prev EXCEPT ![s] = History(state)]
      /\ UNCHANGED <<bucket, ver, cur, kicked, polled, mu, key, snap, state, tmp, runs, reloads>>
  BY DEF LoadSyncState, Goto, storeVars, mainVars, synVars, fileVars, boundVars
<1>3. History(state) \in Seq(BackedNotes)
  BY <1>1 DEF FilesInv, History
<1>4. "create" \in Stages /\ snap[s] \in Backed
  BY <1>1, <1>2 DEF Stages, Saving
<1> QED
  BY <1>1, <1>2, <1>3, <1>4, LocalFrame DEF FilesInv

LEMMA CreateTmpSafe ==
  ASSUME SafeInv, NEW s \in Uploaders, CreateTmp(s)
  PROVE  SafeInv'
<1>1. /\ snap[s] \in Nat /\ snap = [snap EXCEPT ![s] = snap[s]] /\ FilesInv
      /\ pc[s] \in Saving => snap[s] \in Backed
      /\ prev[s] \in Seq(BackedNotes) /\ prev = [prev EXCEPT ![s] = prev[s]]
  BY DEF SafeInv, UploadType, SavedInv
<1>2. /\ pc[s] = "create" /\ pc' = [pc EXCEPT ![s] = "write"] /\ tmp' = Torn
      /\ UNCHANGED <<bucket, ver, cur, kicked, polled, mu, key, snap, prev, state, runs, reloads>>
  BY DEF CreateTmp, Goto, storeVars, mainVars, synVars, boundVars
<1>3. "write" \in Stages /\ snap[s] \in Backed
  BY <1>1, <1>2 DEF Stages, Saving
<1> QED
  BY <1>1, <1>2, <1>3, LocalFrame DEF FilesInv

LEMMA WriteTmpSafe ==
  ASSUME SafeInv, NEW s \in Uploaders, WriteTmp(s)
  PROVE  SafeInv'
<1> DEFINE new == Record([snap |-> snap[s], key |-> key[s]], prev[s])
<1>1. /\ snap[s] \in Nat /\ snap = [snap EXCEPT ![s] = snap[s]] /\ FilesInv
      /\ pc[s] \in Saving => snap[s] \in Backed
      /\ prev[s] \in Seq(BackedNotes) /\ prev = [prev EXCEPT ![s] = prev[s]]
      /\ key[s] = NoKey
  BY DEF SafeInv, UploadType, MainType, SavedInv
<1>2. /\ pc[s] = "write" /\ pc' = [pc EXCEPT ![s] = "rename"]
      /\ UNCHANGED <<bucket, ver, cur, kicked, polled, mu, key, snap, prev, runs, reloads>>
  BY DEF WriteTmp, Goto, storeVars, mainVars, synVars, boundVars
<1>3. "rename" \in Stages /\ snap[s] \in Backed
  BY <1>1, <1>2 DEF Stages, Saving
<1>4. [snap |-> snap[s], key |-> key[s]] \in BackedNotes
  BY <1>1, <1>3 DEF BackedNotes
<1>5. new \in Seq(BackedNotes)
  BY <1>1, <1>4, RecordOf
<1>6. state' \in {state, new, Torn} /\ tmp' \in {tmp, new, Torn}
  BY DEF WriteTmp
<1> HIDE DEF new
<1>7. state' \in Seq(BackedNotes) \cup {Torn, Absent} /\ tmp' \in Seq(BackedNotes) \cup {Torn, Absent}
  BY <1>1, <1>5, <1>6 DEF FilesInv
<1> QED
  BY <1>1, <1>2, <1>3, <1>7, LocalFrame

LEMMA RenameTmpSafe ==
  ASSUME SafeInv, NEW s \in Uploaders, RenameTmp(s)
  PROVE  SafeInv'
<1>1. /\ pc[s] = "rename" /\ Return(s, TRUE)
      /\ UNCHANGED <<bucket, ver, cur, kicked, runs, reloads>>
      /\ state' \in {state, tmp} /\ tmp' \in {tmp, Absent}
  BY DEF RenameTmp, storeVars, boundVars
<1>2. Sound(bucket') /\ Carries(bucket, bucket')
  BY <1>1, SameBucket DEF SafeInv
<1> QED
  BY <1>1, <1>2, ReturnFrame

LEMMA UploadFailsSafe ==
  ASSUME SafeInv, NEW s \in Uploaders, UploadFails(s)
  PROVE  SafeInv'
<1>1. /\ pc[s] # "idle" /\ Return(s, FALSE) /\ HangUp(s)
      /\ UNCHANGED <<ver, cur, kicked, runs, reloads, state, tmp>>
  BY DEF UploadFails, storeVars, fileVars
<1> DEFINE U == {s}
<1>2. /\ U \in SUBSET (Uploaders \cup {Nobody}) /\ s \in U /\ s # Nobody
      /\ bucket' = [i \in DOMAIN bucket |->
                      IF bucket[i].by \in U THEN [bucket[i] EXCEPT !.by = Nobody] ELSE bucket[i]]
  BY <1>1, WorkerAssumption DEF HangUp
<1> HIDE DEF U
<1>3. /\ Sound(bucket') /\ Carries(bucket, bucket')
      /\ \A k \in DOMAIN bucket' : bucket'[k].by \notin U \ {Nobody}
  BY <1>2, NobodySound DEF SafeInv
<1>4. \A k \in DOMAIN bucket' : bucket'[k].by # s
  BY <1>2, <1>3
<1> QED
  BY <1>1, <1>3, <1>4, ReturnFrame

\* The Worker takes a request in.
LEMMA PostSafe ==
  ASSUME SafeInv, NEW s \in Uploaders, Post(s)
  PROVE  SafeInv'
<1> DEFINE m == Len(bucket)
           e == Entry(s, snap[s])
<1>1. /\ pc \in [Uploaders -> Stages] /\ snap \in [Uploaders -> Nat] /\ s # Nobody
      /\ Sound(bucket) /\ OwnerInv /\ RisingInv /\ AloneInv /\ SavedInv /\ FilesInv /\ MainType
  BY WorkerAssumption DEF SafeInv, UploadType
<1>2. /\ bucket \in Seq(Uploads) /\ m \in Nat /\ DOMAIN bucket = 1..m
      /\ \A i \in 1..m : bucket[i] \in Uploads /\ bucket[i].snap \in Nat
  BY <1>1, BucketShape DEF Sound
<1>3. /\ pc[s] = "post" /\ pc' = [pc EXCEPT ![s] = "wait"] /\ bucket' = Append(bucket, e)
      /\ UNCHANGED <<ver, cur, kicked, polled, mu, key, snap, prev, state, tmp, runs, reloads>>
  BY DEF Post, Receive, Goto, storeVars, mainVars, synVars, fileVars, boundVars
<1>4. /\ e \in Uploads /\ e.by = s /\ e.snap = snap[s] /\ e.step = "stamped"
      /\ ~ e.there /\ ~ e.copied
  BY <1>1 DEF Entry, Uploads
<1> HIDE DEF e
<1>5. /\ bucket' \in Seq(Uploads) /\ Len(bucket') = m + 1 /\ DOMAIN bucket' = 1 .. m + 1
      /\ bucket'[m + 1] = e /\ \A i \in 1..m : bucket'[i] = bucket[i]
  BY <1>2, <1>3, <1>4
<1>6. \A i \in 1 .. m + 1 : i \in 1..m \/ i = m + 1
  BY <1>2
<1>7. AloneInv' /\ (Single' => Single)
  BY <1>1, <1>3, AloneOn
<1>8. UploadType' /\ MainType'
  BY <1>1, <1>3 DEF UploadType, MainType, Stages
<1> HIDE DEF m
<1>9. \A i \in 1..m : bucket[i].by # s
  BY <1>1, <1>2, <1>3 DEF OwnerInv
<1>10. ASSUME NEW i \in 1 .. m + 1, NEW j \in 1 .. m + 1, bucket'[i].by = bucket'[j].by
       PROVE  i = j \/ bucket'[i].by = Nobody
  <2>1. CASE i \in 1..m /\ j \in 1..m
    BY <1>1, <1>2, <1>5, <1>10, <2>1 DEF Sound
  <2>2. CASE i = m + 1
    BY <1>4, <1>5, <1>6, <1>9, <1>10, <2>2
  <2>3. CASE j = m + 1
    BY <1>4, <1>5, <1>6, <1>9, <1>10, <2>3
  <2> QED
    BY <1>6, <2>1, <2>2, <2>3
<1>11. ASSUME Single, NEW i \in 1..m
       PROVE  bucket[i].snap <= snap[s]
  BY <1>1, <1>2, <1>3, <1>11 DEF RisingInv
<1>12. ASSUME Single, NEW i \in 1 .. m + 1, NEW j \in 1 .. m + 1, i <= j
       PROVE  bucket'[i].snap <= bucket'[j].snap
  <2>1. CASE i \in 1..m /\ j \in 1..m
    BY <1>1, <1>2, <1>5, <1>12, <2>1 DEF Sound
  <2>2. CASE i \in 1..m /\ j = m + 1
    BY <1>4, <1>5, <1>11, <1>12, <2>2
  <2>3. CASE i = m + 1
    <3>1. j = m + 1
      BY <1>2, <1>6, <1>12, <2>3
    <3>2. snap[s] <= snap[s]
      BY <1>1
    <3> QED
      BY <1>4, <1>5, <2>3, <3>1, <3>2
  <2> QED
    BY <1>6, <2>1, <2>2, <2>3
<1>13. ASSUME NEW i \in 1 .. m + 1, bucket'[i].step \in PutDone
       PROVE  /\ \E j \in 1 .. m + 1 : i <= j /\ bucket'[j].there
              /\ bucket'[i].step = "copied" => \E j \in 1 .. m + 1 : i <= j /\ bucket'[j].copied
  <2>1. i \in 1..m
    BY <1>4, <1>5, <1>6, <1>13 DEF PutDone
  <2>2. \A j \in 1..m : j \in 1 .. m + 1
    BY <1>2
  <2>3. \E j \in 1..m : i <= j /\ bucket[j].there
    BY <1>1, <1>2, <1>5, <1>13, <2>1 DEF Sound
  <2>4. bucket[i].step = "copied" => \E j \in 1..m : i <= j /\ bucket[j].copied
    BY <1>1, <1>2, <2>1 DEF Sound
  <2> QED
    BY <1>5, <2>1, <2>2, <2>3, <2>4
<1>14. Sound(bucket)'
  BY <1>5, <1>7, <1>10, <1>12, <1>13 DEF Sound, PutDone
<1>15. OwnerInv'
  <2>1. ASSUME NEW i \in 1 .. m + 1, bucket'[i].by # Nobody
        PROVE  pc'[bucket'[i].by] = "wait" /\ bucket'[i].snap = snap'[bucket'[i].by]
    <3>1. CASE i \in 1..m
      <4>1. /\ bucket'[i] = bucket[i] /\ bucket[i].by \in Uploaders /\ bucket[i].by # s
            /\ pc[bucket[i].by] = "wait" /\ bucket[i].snap = snap[bucket[i].by]
        BY <1>1, <1>2, <1>5, <1>9, <2>1, <3>1 DEF OwnerInv, Uploads
      <4> QED
        BY <1>1, <1>3, <4>1
    <3>2. CASE i = m + 1
      BY <1>1, <1>3, <1>4, <1>5, <3>2
    <3> QED
      BY <1>6, <3>1, <3>2
  <2> QED
    BY <1>5, <2>1 DEF OwnerInv
<1>16. RisingInv'
  <2>1. ASSUME Single, NEW i \in 1 .. m + 1
        PROVE  bucket'[i].snap <= ver
    <3>1. CASE i \in 1..m
      BY <1>1, <1>2, <1>5, <2>1, <3>1 DEF RisingInv
    <3>2. CASE i = m + 1
      BY <1>1, <1>3, <1>4, <1>5, <2>1, <3>2 DEF RisingInv
    <3> QED
      BY <1>6, <3>1, <3>2
  <2>2. Single => \A t \in Uploaders : pc'[t] # "post"
    BY <1>1, <1>3 DEF AloneInv
  <2> QED
    BY <1>3, <1>5, <1>7, <2>1, <2>2 DEF RisingInv
<1>17. ASSUME NEW v \in Backed
       PROVE  v \in Backed'
  <2>1. \A j \in 1..m : j \in 1 .. m + 1 /\ bucket'[j] = bucket[j]
    BY <1>2, <1>5
  <2> QED
    BY <1>2, <1>5, <1>7, <2>1 DEF Backed
<1>18. Backed \subseteq Backed' /\ Seq(BackedNotes) \subseteq Seq(BackedNotes')
  <2>1. BackedNotes \subseteq BackedNotes'
    BY <1>17 DEF BackedNotes
  <2> QED
    BY <1>17, <2>1
<1>19. SavedInv' /\ FilesInv'
  BY <1>1, <1>3, <1>18 DEF SavedInv, FilesInv, Saving
<1> QED
  BY <1>7, <1>8, <1>14, <1>15, <1>16, <1>19 DEF SafeInv

\* The answer comes after the object, and after the team's copy.
LEMMA CreatedSafe ==
  ASSUME SafeInv, NEW s \in Uploaders, Created(s)
  PROVE  SafeInv'
<1>1. /\ pc \in [Uploaders -> Stages] /\ snap \in [Uploaders -> Nat] /\ s # Nobody /\ ver \in Nat
      /\ Sound(bucket) /\ OwnerInv /\ AloneInv /\ FilesInv /\ MainType
      /\ prev \in [Uploaders -> Seq(BackedNotes)]
  BY WorkerAssumption DEF SafeInv, UploadType, MainType, SavedInv
<1>2. PICK i \in DOMAIN bucket :
        bucket[i].by = s /\ Answer(i) /\ key' = [key EXCEPT ![s] = BackupKeyHeader(i)]
  BY DEF Created
<1>3. /\ pc[s] = "wait" /\ pc' = [pc EXCEPT ![s] = "load"]
      /\ UNCHANGED <<ver, cur, kicked, polled, mu, snap, prev, state, tmp, runs, reloads>>
  BY DEF Created, Goto, storeVars, mainVars, synVars, fileVars, boundVars
<1>4. /\ Sound(bucket') /\ Carries(bucket, bucket')
      /\ \A k \in DOMAIN bucket' : bucket'[k].by # s
  BY <1>1, <1>2, DoneSound DEF Answer
<1>5. AloneInv' /\ (Single' => Single)
  BY <1>1, <1>3, AloneOn
<1>6. MainType'
  BY <1>1, <1>2, <1>3 DEF MainType, BackupKeyHeader
<1>7. bucket[i].snap = snap[s] /\ \A j \in DOMAIN bucket : bucket[j].snap \in Nat
  BY <1>1, <1>2, BucketShape DEF OwnerInv, Sound
<1>8. bucket[i].step \in PutDone /\ (Team => bucket[i].step = "copied")
  BY <1>2 DEF Answer, Answered, PutDone
<1>9. \E j \in DOMAIN bucket : bucket[j].there /\ (Single => snap[s] <= bucket[j].snap)
  BY <1>1, <1>7, <1>8 DEF Sound
<1>10. Team => \E j \in DOMAIN bucket : bucket[j].copied /\ (Single => snap[s] <= bucket[j].snap)
  BY <1>1, <1>7, <1>8 DEF Sound
<1>11. snap[s] \in Backed
  BY <1>1, <1>9, <1>10 DEF Backed
<1>12. Backed \subseteq Backed' /\ Seq(BackedNotes) \subseteq Seq(BackedNotes')
  BY <1>1, <1>4, <1>5, BackedGrows
<1>13. /\ snap[s] \in Nat /\ snap' = [snap EXCEPT ![s] = snap[s]]
       /\ prev[s] \in Seq(BackedNotes') /\ prev' = [prev EXCEPT ![s] = prev[s]]
       /\ snap[s] \in Backed' /\ "load" \in Stages /\ ver' \in Nat /\ ver <= ver'
  BY <1>1, <1>3, <1>11, <1>12 DEF Stages
<1>14. UploadType' /\ Sound(bucket)' /\ OwnerInv' /\ RisingInv' /\ SavedInv'
  BY <1>3, <1>4, <1>5, <1>13, MoveFrame
<1>15. FilesInv'
  BY <1>1, <1>3, <1>12 DEF FilesInv
<1> QED
  BY <1>5, <1>6, <1>14, <1>15 DEF SafeInv

\* The Worker's own steps change no upload.
LEMMA WorkerFrame ==
  ASSUME SafeInv, UNCHANGED <<ver, cur, kicked, polled, mu, pc, key, snap, prev, state, tmp, runs, reloads>>,
         Sound(bucket'), Carries(bucket, bucket')
  PROVE  SafeInv'
<1>1. Single' => Single
  BY DEF Single
<1>2. ver' \in Nat /\ ver <= ver'
  BY DEF SafeInv, MainType
<1>3. MainType' /\ AloneInv'
  BY <1>1 DEF SafeInv, MainType, AloneInv
<1>4. UploadType' /\ Sound(bucket)' /\ OwnerInv' /\ RisingInv' /\ SavedInv' /\ FilesInv'
  BY <1>1, <1>2, StillFrame
<1> QED
  BY <1>3, <1>4 DEF SafeInv

LEMMA WorkerStepSafe ==
  ASSUME SafeInv, NEW i \in DOMAIN bucket, WorkerStep(i)
  PROVE  SafeInv'
<1>1. Sound(bucket') /\ Carries(bucket, bucket')
  BY PutObjectSound, PruneSound, PutCopySound DEF WorkerStep, SafeInv
<1>2. UNCHANGED <<ver, cur, kicked, polled, mu, pc, key, snap, prev, state, tmp, runs, reloads>>
  BY DEF WorkerStep, Others, storeVars, mainVars, synVars, upVars, fileVars, boundVars
<1> QED
  BY <1>1, <1>2, WorkerFrame

LEMMA WorkerEndsSafe ==
  ASSUME SafeInv, NEW i \in DOMAIN bucket, WorkerEnds(i)
  PROVE  SafeInv'
<1>1. Sound(bucket') /\ Carries(bucket, bucket')
  BY DoneSound DEF WorkerEnds, Answer, SafeInv
<1>2. UNCHANGED <<ver, cur, kicked, polled, mu, pc, key, snap, prev, state, tmp, runs, reloads>>
  BY DEF WorkerEnds, Others, storeVars, mainVars, synVars, upVars, fileVars, boundVars
<1> QED
  BY <1>1, <1>2, WorkerFrame

LEMMA WorkerFailsSafe ==
  ASSUME SafeInv, NEW i \in DOMAIN bucket, WorkerFails(i)
  PROVE  SafeInv'
<1> DEFINE s == bucket[i].by
<1>1. /\ Sound(bucket') /\ Carries(bucket, bucket')
      /\ \A k \in DOMAIN bucket' : bucket'[k].by = s => bucket'[k].by = Nobody
  BY DoneSound DEF WorkerFails, Abort, SafeInv
<1>2. UNCHANGED <<ver, cur, kicked, state, tmp, runs, reloads>>
  BY DEF WorkerFails, storeVars, fileVars
<1>3. CASE s = Nobody
  <2>1. UNCHANGED <<polled, mu, pc, key, snap, prev>>
    BY <1>3 DEF WorkerFails, synVars, upVars
  <2> QED
    BY <1>1, <1>2, <2>1, WorkerFrame
<1>4. CASE s # Nobody
  <2>1. Return(s, FALSE)
    BY <1>4 DEF WorkerFails
  <2>2. s \in Uploaders /\ pc[s] # "idle"
    <3>1. bucket[i] \in Uploads /\ OwnerInv
      BY BucketShape DEF SafeInv, Sound
    <3> QED
      BY <1>4, <3>1 DEF Uploads, OwnerInv
  <2>3. \A k \in DOMAIN bucket' : bucket'[k].by # s
    BY <1>1, <1>4
  <2> HIDE DEF s
  <2> QED
    BY <1>1, <1>2, <2>1, <2>2, <2>3, ReturnFrame
<1> QED
  BY <1>3, <1>4

\* The daemon's end: its requests go on without it.
LEMMA RestartSafe ==
  ASSUME SafeInv, Restart
  PROVE  SafeInv'
<1>1. /\ UploadType /\ MainType /\ Sound(bucket) /\ OwnerInv /\ RisingInv /\ AloneInv
      /\ SavedInv /\ FilesInv
  BY DEF SafeInv
<1> DEFINE U == Daemon \cup {Nobody}
<1>2. /\ UNCHANGED <<ver, runs, reloads, state, tmp>>
      /\ polled' = None /\ kicked' = kicked \cap {Cli} /\ cur' \in Daemon \cup {None}
      /\ mu' = [s \in Uploaders |-> IF s = Cli THEN mu[s] ELSE "free"]
      /\ pc' = [s \in Uploaders |-> IF s = Cli THEN pc[s] ELSE "idle"]
      /\ snap' = [s \in Uploaders |-> IF s = Cli THEN snap[s] ELSE 0]
      /\ key' = [s \in Uploaders |-> IF s = Cli THEN key[s] ELSE NoKey]
      /\ prev' = [s \in Uploaders |-> IF s = Cli THEN prev[s] ELSE <<>>]
  BY DEF Restart, storeVars
<1>3. U \in SUBSET (Uploaders \cup {Nobody}) /\ Cli \notin U /\ Cli \in Uploaders
  BY WorkerAssumption, SyncAssumption DEF Daemon
<1>4. \A i \in DOMAIN bucket : bucket[i].by = Cli <=> bucket[i].by \notin U
  <2>1. \A i \in DOMAIN bucket : bucket[i].by \in Uploaders \cup {Nobody}
    BY <1>1, BucketShape DEF Sound, Uploads
  <2> QED
    BY <1>3, <2>1 DEF Daemon
<1>5. bucket' = [i \in DOMAIN bucket |->
                   IF bucket[i].by \in U THEN [bucket[i] EXCEPT !.by = Nobody] ELSE bucket[i]]
  BY <1>4 DEF Restart, Gone
<1> HIDE DEF U
<1>6. /\ Sound(bucket') /\ Carries(bucket, bucket')
      /\ \A k \in DOMAIN bucket' : bucket'[k].by \notin U \ {Nobody}
  BY <1>1, <1>3, <1>5, NobodySound
<1>7. Single' => Single
  BY <1>2 DEF Single
<1>8. Backed \subseteq Backed' /\ Seq(BackedNotes) \subseteq Seq(BackedNotes')
  BY <1>1, <1>6, <1>7, BackedGrows
<1>9. pc'[Cli] = pc[Cli] /\ snap'[Cli] = snap[Cli] /\ \A t \in Uploaders : t # Cli => pc'[t] = "idle"
  BY <1>2, <1>3
<1>10. UploadType' /\ MainType'
  BY <1>1, <1>2 DEF UploadType, MainType, Stages
<1>11. Sound(bucket)'
  BY <1>6, <1>7 DEF Sound
<1>12. OwnerInv'
  <2>1. ASSUME NEW k \in DOMAIN bucket', bucket'[k].by # Nobody
        PROVE  pc'[bucket'[k].by] = "wait" /\ bucket'[k].snap = snap'[bucket'[k].by]
    <3>1. PICK i \in DOMAIN bucket : bucket'[k].snap = bucket[i].snap /\ bucket'[k].by = bucket[i].by
      BY <1>6, <2>1 DEF Carries
    <3>2. bucket[i].by = Cli
      BY <1>4, <1>6, <2>1, <3>1
    <3> QED
      BY <1>1, <1>9, <2>1, <3>1, <3>2 DEF OwnerInv
  <2> QED
    BY <2>1 DEF OwnerInv
<1>13. AloneInv'
  <2>1. Single => pc[Cli] = "idle"
    BY <1>1, <1>3, SyncAssumption DEF AloneInv, MainType, Daemon
  <2>2. pc'[Cli] # "idle" => mu'[Cli] # "free"
    BY <1>1, <1>2, <1>3, <1>9 DEF AloneInv
  <2> QED
    BY <1>1, <1>2, <1>7, <1>9, <2>1, <2>2 DEF AloneInv
<1>14. RisingInv'
  <2>1. Single' => \A t \in Uploaders : pc'[t] = "idle"
    BY <1>2, <1>13, SyncAssumption DEF AloneInv
  <2>2. ASSUME Single', NEW k \in DOMAIN bucket'
        PROVE  bucket'[k].snap <= ver'
    <3>1. PICK i \in DOMAIN bucket : bucket'[k].snap = bucket[i].snap
      BY <1>6 DEF Carries
    <3> QED
      BY <1>1, <1>2, <1>7, <2>2, <3>1 DEF RisingInv
  <2> QED
    BY <2>1, <2>2 DEF RisingInv
<1>15. SavedInv' /\ FilesInv'
  <2>1. <<>> \in Seq(BackedNotes')
    OBVIOUS
  <2>2. prev' \in [Uploaders -> Seq(BackedNotes')]
    BY <1>1, <1>2, <1>8, <2>1 DEF SavedInv
  <2>3. \A s \in Uploaders : pc'[s] \in Saving => snap'[s] \in Backed'
    BY <1>1, <1>3, <1>8, <1>9 DEF SavedInv, Saving
  <2>4. FilesInv'
    BY <1>1, <1>2, <1>8 DEF FilesInv
  <2> QED
    BY <2>2, <2>3, <2>4 DEF SavedInv
<1> QED
  BY <1>10, <1>11, <1>12, <1>13, <1>14, <1>15 DEF SafeInv

LEMMA SafeStep == SafeInv /\ [Next]_vars => SafeInv'
<1> SUFFICES ASSUME SafeInv, [Next]_vars
             PROVE  SafeInv'
  OBVIOUS
<1>1. CASE UNCHANGED vars
  <2>1. UNCHANGED <<ver, cur, kicked, polled, mu, pc, key, snap, prev, state, tmp, runs, reloads, bucket>>
    BY <1>1 DEF vars, storeVars, mainVars, synVars, upVars, fileVars, boundVars
  <2>2. Sound(bucket') /\ Carries(bucket, bucket')
    BY <2>1, SameBucket DEF SafeInv
  <2> QED
    BY <2>1, <2>2, WorkerFrame
<1>2. CASE Write \/ Tick \/ Poll \/ Reload \/ RunCli \/ Restart
  BY <1>2, WriteSafe, TickSafe, PollSafe, ReloadSafe, RunCliSafe, RestartSafe
<1>3. ASSUME NEW s \in Daemon, NotDue(s) \/ NotIdle(s) \/ TriggerUpload(s)
      PROVE  SafeInv'
  BY <1>3, LookSafe, TriggerUploadSafe
<1>4. ASSUME NEW s \in Uploaders, SyncNow(s) \/ UploadStep(s) \/ UploadFails(s)
      PROVE  SafeInv'
  BY <1>4, SyncNowSafe, SnapshotSafe, TooLargeSafe, PostSafe, CreatedSafe, LoadSyncStateSafe,
     CreateTmpSafe, WriteTmpSafe, RenameTmpSafe, UploadFailsSafe DEF UploadStep
<1>5. ASSUME NEW i \in DOMAIN bucket, WorkerStep(i) \/ WorkerEnds(i) \/ WorkerFails(i)
      PROVE  SafeInv'
  BY <1>5, WorkerStepSafe, WorkerEndsSafe, WorkerFailsSafe
<1> QED
  BY <1>1, <1>2, <1>3, <1>4, <1>5 DEF Next, PollStep

LEMMA Safe == Spec => []SafeInv
BY SafeInit, SafeStep, PTL DEF Spec

LEMMA RestoreFollows == SafeInv => RestoreIsCurrent
<1> SUFFICES ASSUME SafeInv, NEW k \in DOMAIN History(state)
             PROVE  Objects # {} /\ (Single => Download >= History(state)[k].snap)
  BY DEF RestoreIsCurrent
<1>1. /\ Sound(bucket) /\ bucket \in Seq(Uploads) /\ Len(bucket) \in Nat
      /\ DOMAIN bucket = 1 .. Len(bucket) /\ \A i \in DOMAIN bucket : bucket[i].snap \in Nat
  BY BucketShape DEF SafeInv, Sound
<1> DEFINE v == History(state)[k].snap
<1>2. v \in Backed
  <2>1. History(state) \in Seq(BackedNotes)
    BY DEF SafeInv, FilesInv, History
  <2>2. History(state)[k] \in BackedNotes
    BY <2>1
  <2> QED
    BY <2>2 DEF BackedNotes
<1> HIDE DEF v
<1>3. PICK j \in DOMAIN bucket : bucket[j].there /\ (Single => v <= bucket[j].snap)
  BY <1>2 DEF Backed
<1> DEFINE top == Max(Objects)
<1>4. j \in Objects /\ Objects \in SUBSET (1 .. Len(bucket))
  BY <1>1, <1>3 DEF Objects
<1>5. top \in Objects /\ j <= top
  BY <1>1, <1>4, Greatest
<1>6. Download = bucket[top].snap
  BY DEF Download
<1> HIDE DEF top
<1>7. ASSUME Single
      PROVE  Download >= v
  <2>1. top \in DOMAIN bucket
    BY <1>5 DEF Objects
  <2>2. bucket[j].snap <= bucket[top].snap
    BY <1>1, <1>5, <1>7, <2>1 DEF Sound
  <2>3. v <= bucket[j].snap /\ v \in Nat /\ bucket[j].snap \in Nat /\ bucket[top].snap \in Nat
    BY <1>1, <1>2, <1>3, <1>7, <2>1 DEF Backed
  <2> QED
    BY <1>6, <2>2, <2>3
<1> QED
  BY <1>4, <1>7 DEF v

LEMMA TeamFollows == SafeInv => TeamIsCurrent
<1> SUFFICES ASSUME SafeInv, NEW k \in DOMAIN History(state), Team
             PROVE  /\ Copies # {}
                    /\ Single => bucket[Max(Copies)].snap >= History(state)[k].snap
  BY DEF TeamIsCurrent
<1>1. /\ Sound(bucket) /\ bucket \in Seq(Uploads) /\ Len(bucket) \in Nat
      /\ DOMAIN bucket = 1 .. Len(bucket) /\ \A i \in DOMAIN bucket : bucket[i].snap \in Nat
  BY BucketShape DEF SafeInv, Sound
<1> DEFINE v == History(state)[k].snap
<1>2. v \in Backed
  <2>1. History(state) \in Seq(BackedNotes)
    BY DEF SafeInv, FilesInv, History
  <2>2. History(state)[k] \in BackedNotes
    BY <2>1
  <2> QED
    BY <2>2 DEF BackedNotes
<1> HIDE DEF v
<1>3. PICK j \in DOMAIN bucket : bucket[j].copied /\ (Single => v <= bucket[j].snap)
  BY <1>2 DEF Backed
<1> DEFINE top == Max(Copies)
<1>4. j \in Copies /\ Copies \in SUBSET (1 .. Len(bucket))
  BY <1>1, <1>3 DEF Copies
<1>5. top \in Copies /\ j <= top
  BY <1>1, <1>4, Greatest
<1> HIDE DEF top
<1>6. ASSUME Single
      PROVE  bucket[top].snap >= v
  <2>1. top \in DOMAIN bucket
    BY <1>5 DEF Copies
  <2>2. bucket[j].snap <= bucket[top].snap
    BY <1>1, <1>5, <1>6, <2>1 DEF Sound
  <2>3. v <= bucket[j].snap /\ v \in Nat /\ bucket[j].snap \in Nat /\ bucket[top].snap \in Nat
    BY <1>1, <1>2, <1>3, <1>6, <2>1 DEF Backed
  <2> QED
    BY <2>2, <2>3
<1> QED
  BY <1>4, <1>6 DEF v, top

---------------------------------------------------------------------------
(* Every step carries over what the Worker has. *)

LEMMA PostCarries ==
  ASSUME SafeInv, NEW s \in Uploaders, Post(s)
  PROVE  /\ \A i \in DOMAIN bucket : i \in DOMAIN bucket' /\ bucket'[i] = bucket[i]
         /\ Sound(bucket')
<1>1. bucket \in Seq(Uploads) /\ bucket' = Append(bucket, Entry(s, snap[s]))
  BY DEF Post, Receive, SafeInv, Sound
<1>2. Sound(bucket)' /\ (Single' <=> Single)
  BY PostSafe DEF SafeInv, Post, boundVars, Single
<1>3. Sound(bucket')
  BY <1>2 DEF Sound
<1> QED
  BY <1>1, <1>3

LEMMA StepCarries ==
  ASSUME SafeInv, [Next]_vars
  PROVE  /\ Sound(bucket')
         /\ \/ Carries(bucket, bucket')
            \/ \A i \in DOMAIN bucket : i \in DOMAIN bucket' /\ bucket'[i] = bucket[i]
<1>1. CASE UNCHANGED bucket
  BY <1>1, SameBucket DEF SafeInv
<1>2. ASSUME UNCHANGED vars \/ Write \/ Tick \/ Poll \/ Reload \/ RunCli
      PROVE  UNCHANGED bucket
  BY <1>2 DEF vars, Write, Tick, Poll, Reload, RunCli
<1>3. ASSUME NEW s \in Daemon, NotDue(s) \/ NotIdle(s) \/ TriggerUpload(s)
      PROVE  UNCHANGED bucket
  BY <1>3 DEF NotDue, NotIdle, TriggerUpload
<1>4. ASSUME NEW s \in Uploaders,
             \/ SyncNow(s) \/ Snapshot(s) \/ TooLarge(s) \/ LoadSyncState(s)
             \/ CreateTmp(s) \/ WriteTmp(s) \/ RenameTmp(s)
      PROVE  UNCHANGED bucket
  BY <1>4 DEF SyncNow, Snapshot, TooLarge, LoadSyncState, CreateTmp, WriteTmp, RenameTmp
<1>5. ASSUME NEW s \in Uploaders, UploadFails(s)
      PROVE  Sound(bucket') /\ Carries(bucket, bucket')
  <2>1. {s} \in SUBSET (Uploaders \cup {Nobody})
        /\ bucket' = [i \in DOMAIN bucket |->
                        IF bucket[i].by \in {s} THEN [bucket[i] EXCEPT !.by = Nobody] ELSE bucket[i]]
    BY <1>5 DEF UploadFails, HangUp
  <2> QED
    BY <2>1, NobodySound DEF SafeInv
<1>6. ASSUME Restart
      PROVE  Sound(bucket') /\ Carries(bucket, bucket')
  <2> DEFINE U == Daemon \cup {Nobody}
  <2>1. U \in SUBSET (Uploaders \cup {Nobody}) /\ Cli \notin U
    BY WorkerAssumption, SyncAssumption DEF Daemon
  <2>2. \A i \in DOMAIN bucket : bucket[i].by \in Uploaders \cup {Nobody}
    BY BucketShape DEF SafeInv, Sound, Uploads
  <2>3. \A i \in DOMAIN bucket : bucket[i].by = Cli <=> bucket[i].by \notin U
    BY <2>1, <2>2 DEF Daemon
  <2>4. bucket' = [i \in DOMAIN bucket |->
                     IF bucket[i].by \in U THEN [bucket[i] EXCEPT !.by = Nobody] ELSE bucket[i]]
    BY <1>6, <2>3 DEF Restart, Gone
  <2> HIDE DEF U
  <2> QED
    BY <2>1, <2>4, NobodySound DEF SafeInv
<1>7. ASSUME NEW s \in Uploaders, Created(s)
      PROVE  Sound(bucket') /\ Carries(bucket, bucket')
  BY <1>7, DoneSound DEF Created, Answer, SafeInv
<1>8. ASSUME NEW i \in DOMAIN bucket, WorkerStep(i) \/ WorkerEnds(i) \/ WorkerFails(i)
      PROVE  Sound(bucket') /\ Carries(bucket, bucket')
  BY <1>8, PutObjectSound, PruneSound, PutCopySound, DoneSound
     DEF WorkerStep, WorkerEnds, WorkerFails, Answer, Abort, SafeInv
<1>9. ASSUME NEW s \in Uploaders, Post(s)
      PROVE  /\ Sound(bucket')
             /\ \A i \in DOMAIN bucket : i \in DOMAIN bucket' /\ bucket'[i] = bucket[i]
  BY <1>9, PostCarries
<1> QED
  BY <1>1, <1>2, <1>3, <1>4, <1>5, <1>6, <1>7, <1>8, <1>9 DEF Next, PollStep, UploadStep

\* The newest of the marked entries of a bucket is as new as any of them.
LEMMA NewestMarked ==
  ASSUME NEW b, Sound(b), NEW S \in SUBSET DOMAIN b, NEW i \in S
  PROVE  /\ Max(S) \in S /\ b[Max(S)].snap \in Nat
         /\ Single => b[i].snap <= b[Max(S)].snap
<1>1. /\ b \in Seq(Uploads) /\ Len(b) \in Nat /\ DOMAIN b = 1 .. Len(b)
      /\ \A j \in DOMAIN b : b[j].snap \in Nat
  BY BucketShape DEF Sound
<1> DEFINE top == Max(S)
<1>2. top \in S /\ i <= top
  BY <1>1, Greatest
<1> HIDE DEF top
<1>3. Single => b[i].snap <= b[top].snap
  BY <1>2 DEF Sound
<1> QED
  BY <1>1, <1>2, <1>3 DEF top

LEMMA NotOlderIs ==
  ASSUME NEW b, Sound(b), NEW c, Sound(c), NEW S \in SUBSET DOMAIN b, NEW T \in SUBSET DOMAIN c,
         \A i \in S : \E j \in T : Single => b[i].snap <= c[j].snap
  PROVE  NotOlder(b, c, S, T)
<1> SUFFICES ASSUME S # {}
             PROVE  T # {} /\ (Single => c[Max(T)].snap >= b[Max(S)].snap)
  BY DEF NotOlder
<1> DEFINE old == Max(S)
           new == Max(T)
<1>1. old \in S /\ b[old].snap \in Nat
  BY NewestMarked
<1> HIDE DEF old, new
<1>2. PICK j \in T : Single => b[old].snap <= c[j].snap
  BY <1>1
<1>3. c[new].snap \in Nat /\ (Single => c[j].snap <= c[new].snap)
  BY NewestMarked DEF new
<1>4. c[j].snap \in Nat
  BY BucketShape DEF Sound
<1>5. Single => c[new].snap >= b[old].snap
  BY <1>1, <1>2, <1>3, <1>4
<1> QED
  BY <1>2, <1>5 DEF old, new

LEMMA StepKeeps ==
  ASSUME SafeInv, [Next]_vars
  PROVE  /\ NotOlder(bucket, bucket', Objects, Objects')
         /\ NotOlder(bucket, bucket', Copies, Copies')
<1>1. /\ Sound(bucket) /\ Sound(bucket')
      /\ Objects \in SUBSET DOMAIN bucket /\ Objects' \in SUBSET DOMAIN bucket'
      /\ Copies \in SUBSET DOMAIN bucket /\ Copies' \in SUBSET DOMAIN bucket'
  BY StepCarries DEF SafeInv, Objects, Copies
<1>2. /\ \A i \in Objects : \E j \in Objects' : Single => bucket[i].snap <= bucket'[j].snap
      /\ \A i \in Copies : \E j \in Copies' : Single => bucket[i].snap <= bucket'[j].snap
  <2>1. CASE Carries(bucket, bucket')
    BY <2>1 DEF Carries, Objects, Copies
  <2>2. CASE \A i \in DOMAIN bucket : i \in DOMAIN bucket' /\ bucket'[i] = bucket[i]
    <3>1. \A i \in DOMAIN bucket : bucket[i].snap <= bucket[i].snap
      BY <1>1, BucketShape DEF Sound
    <3> QED
      BY <2>2, <3>1 DEF Objects, Copies
  <2> QED
    BY <2>1, <2>2, StepCarries
<1> QED
  BY <1>1, <1>2, NotOlderIs

\* What sync-state.json lists, a restore finds: the Worker has an object, and,
\* if no --sync-now and no hot reload came in between, the one it serves is at
\* least as new as every backup listed, through failed uploads, answers that
\* come too late, prunes and ends of the daemon.
THEOREM RestoresAreCurrent == Spec => []RestoreIsCurrent
BY Safe, RestoreFollows, PTL

\* And so for the copies under the team's prefix.
THEOREM TeamsAreCurrent == Spec => []TeamIsCurrent
BY Safe, TeamFollows, PTL

\* No step of anyone makes what a restore downloads, or what the team has,
\* older, or takes the last of it away: not a prune, a late handler, a failed
\* one, nor the daemon's end.
THEOREM BackupsOnlyAdvance == Spec => BackupsNeverRegress
<1>1. SafeInv /\ [Next]_vars =>
        [/\ NotOlder(bucket, bucket', Objects, Objects')
         /\ NotOlder(bucket, bucket', Copies, Copies')]_vars
  BY StepKeeps
<1> QED
  BY <1>1, Safe, PTL DEF Spec, BackupsNeverRegress
=============================================================================
