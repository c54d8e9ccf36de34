------------------------------- MODULE Worker -------------------------------
(* The eidetic-sync Worker (bridge/cloudflare/worker.js) and its R2 bucket,  *)
(* for one device: the handlers of POST /sync, GET /download and             *)
(* GET /team-engrams. The module has no behaviour of its own; Sync composes  *)
(* its actions with the daemon's.                                            *)
EXTENDS Integers, SequencesExt

CONSTANTS
  Uploaders,  \* who may send POST /sync
  Nobody,     \* the sender of a request whose client has gone
  Keep,       \* pruneOldBackups' keepN; 5 in the code
  TeamCap,    \* limit of handleTeamEngrams' list; 100 in the code
  Team        \* the requests carry X-Team-ID

ASSUME WorkerAssumption ==
  /\ Keep \in Nat \ {0}
  /\ TeamCap \in Nat \ {0}
  /\ Team \in BOOLEAN
  /\ Nobody \notin Uploaders

(* The device's keys in the order of their time stamps, which is the order   *)
(* of the keys. An entry lives from the stamp of a request to the moment     *)
(* that its answer is sent and no object of it is left:                      *)
(*   by     - who waits for the answer                                       *)
(*   snap   - the version of the database in the body                        *)
(*   step   - how far handleSync is                                          *)
(*   there  - the device's object exists                                     *)
(*   copied - the team's object exists                                       *)
VARIABLE bucket

Steps == <<"stamped", "put", "pruned", "copied", "answered">>

Entry(u, v) == [by |-> u, snap |-> v, step |-> "stamped", there |-> FALSE, copied |-> FALSE]

\* A bucket without the entries that have ended, in the order that it had.
Kept(b) == {i \in DOMAIN b : b[i].there \/ b[i].copied \/ b[i].step # "answered"}
Rank(S, i) == Cardinality({j \in S : j <= i})
Nth(S, n) == CHOOSE i \in S : Rank(S, i) = n
Compact(b) == LET kept == Kept(b) IN [n \in 1 .. Cardinality(kept) |-> b[Nth(kept, n)]]

Objects == {i \in DOMAIN bucket : bucket[i].there}
Copies  == {i \in DOMAIN bucket : bucket[i].copied}

---------------------------------------------------------------------------
(* handleSync, cut at its awaits. The stamp is taken when the whole body has *)
(* arrived.                                                                  *)

Receive(u, v) == bucket' = Append(bucket, Entry(u, v))

PutObject(i) ==
  /\ bucket[i].step = "stamped"
  /\ bucket' = [bucket EXCEPT ![i].step = "put", ![i].there = TRUE]

(* pruneOldBackups: all objects but the Keep with the largest keys go. An    *)
(* object with Keep newer ones has them for good, so that what an earlier    *)
(* list names for deletion goes here too.                                    *)
Newer(i) == {j \in Objects : j > i}

Prune(i) ==
  /\ bucket[i].step = "put"
  /\ bucket' = Compact([j \in DOMAIN bucket |->
       [bucket[j] EXCEPT !.step = IF j = i THEN "pruned" ELSE @,
                         !.there = @ /\ Cardinality(Newer(j)) < Keep]])

(* The team's prefix is never pruned. Of the copies that handleTeamEngrams   *)
(* cannot reach any more the model keeps the newest only.                    *)
PutCopy(i) ==
  LET copies == Copies \union {i}
      reached(j) == Cardinality({k \in copies : k < j}) < TeamCap
      newest(j) == \A k \in copies : k <= j
  IN /\ Team
     /\ bucket[i].step = "pruned"
     /\ bucket' = Compact([j \in DOMAIN bucket |->
          [bucket[j] EXCEPT !.step = IF j = i THEN "copied" ELSE @,
                            !.copied = j \in copies /\ (reached(j) \/ newest(j))]])

\* A variant for comparison: the answer does not wait for the team's put.
AnsweredEarly(i) == bucket[i].step \in {"pruned", "copied"}
Answered(i) == bucket[i].step = IF Team THEN "copied" ELSE "pruned"

Done(b, i) == Compact([b EXCEPT ![i].step = "answered", ![i].by = Nobody])

(* The 201 goes out. Its headers name no key: the key is in the body, which  *)
(* the daemon does not read.                                                 *)
Answer(i) ==
  /\ Answered(i)
  /\ bucket' = Done(bucket, i)

NoKey == "no key"
BackupKeyHeader(i) == NoKey

(* An await rejects or the isolate is evicted: what is done stays done.      *)
Abort(i) ==
  /\ bucket[i].step # "answered"
  /\ bucket' = Done(bucket, i)

(* The client hangs up; a handler that has the body goes on.                 *)
HangUp(u) ==
  bucket' = [i \in DOMAIN bucket |->
               IF bucket[i].by = u THEN [bucket[i] EXCEPT !.by = Nobody] ELSE bucket[i]]

---------------------------------------------------------------------------
\* A variant for comparison: keys sorted the other way round.
DownloadOldest == bucket[Min(Objects)].snap

(* handleDownload: the object with the largest key.                          *)
Download == bucket[Max(Objects)].snap

(* handleTeamEngrams: of the first TeamCap keys of the team's prefix, the    *)
(* largest of each device.                                                   *)
Listed == {i \in Copies : Rank(Copies, i) <= TeamCap}
TeamLatest == bucket[Max(Listed)]

=============================================================================
