------------------------------ MODULE AskCache ------------------------------
(***************************************************************************)
(* GET /ask (internal/api/routes.go) and the cache of its answers          *)
(* (internal/api/ask_cache.go).  One cache serves the socket's server and  *)
(* the bridge's.  A request asks the cache, the store and the cache again, *)
(* and other requests and writers come between any two of these.           *)
(*                                                                         *)
(* An answer is the number of engrams the store held when it was searched. *)
(***************************************************************************)
EXTENDS Integers, Sequences, FiniteSets

CONSTANTS
  Keys,      \* question, surface and limit of a request
  NoKey,     \* of no request
  Asks,      \* requests under way at one time
  Max,       \* entries the cache holds: 64
  TTL,       \* ticks an entry lives: 5 minutes
  Lag,       \* ticks a request may spend between its search and its Put
  MaxWrites, \* bounds: engrams stored,
  MaxTime    \*   ticks

ASSUME AskAssumption ==
  /\ IsFiniteSet(Keys) /\ NoKey \notin Keys /\ IsFiniteSet(Asks)
  /\ Max \in Nat \ {0} /\ TTL \in Nat /\ Lag \in Nat
  /\ MaxWrites \in Nat /\ MaxTime \in Nat

VARIABLES
  now,
  stored,  \* when each engram was stored
  order,   \* the cache's list of keys, the one used last in front
  entries, \* the cache's map: [key -> [answer, until]]
  ask      \* [request -> [pc, key, answer, at: when it was searched or answered]]

askVars == <<now, stored, order, entries, ask>>

Free == [pc |-> "free", key |-> NoKey, answer |-> 0, at |-> 0]

AskInit ==
  /\ now = 0
  /\ stored = <<>>
  /\ order = <<>>
  /\ entries = [k \in {} |-> 0]
  /\ ask = [r \in Asks |-> Free]

\* The list element that the map holds for a key, the list once that element
\* is removed, and the list once it is moved, or pushed, to the front.
At(k)      == CHOOSE i \in DOMAIN order : order[i] = k
Without(k) == IF k \in DOMAIN entries
                THEN [i \in 1 .. Len(order) - 1 |-> order[IF i < At(k) THEN i ELSE i + 1]]
                ELSE order
Front(k)   == <<k>> \o Without(k)
Only(S)    == [k \in S |-> entries[k]]

\* A variant for comparison: an entry is served whatever its age.
FreshAlways(k) == k \in DOMAIN entries

\* Get's test: not After(expiresAt).
Fresh(k) == k \in DOMAIN entries /\ now <= entries[k].until

Get(r, k) ==
  /\ ask[r].pc \in {"free", "answered"}
  /\ IF Fresh(k)
       THEN /\ order' = Front(k)
            /\ ask' = [ask EXCEPT ![r] = [pc |-> "answered", key |-> k,
                                          answer |-> entries[k].answer, at |-> now]]
            /\ UNCHANGED entries
       ELSE /\ order' = Without(k)
            /\ entries' = Only(DOMAIN entries \ {k})
            /\ ask' = [ask EXCEPT ![r] = [Free EXCEPT !.pc = "missed", !.key = k]]
  /\ UNCHANGED <<now, stored>>

\* Store.Search with the question's words, then, if that is refused, with
\* the question itself; both may fail.
Search(r) ==
  /\ ask[r].pc = "missed"
  /\ \/ ask' = [ask EXCEPT ![r].pc = "found", ![r].answer = Len(stored), ![r].at = now]
     \/ ask' = [ask EXCEPT ![r] = Free]
  /\ UNCHANGED <<now, stored, order, entries>>

Top(list) == SubSeq(list, 1, IF Len(list) > Max THEN Max ELSE Len(list))

\* A variant for comparison: the map keeps what the list has dropped.
CutList(list, map) == <<Top(list), map>>

\* Put's bound: over capacity, the list's last key leaves list and map.
Cut(list, map) == <<Top(list), [k \in {Top(list)[i] : i \in DOMAIN Top(list)} |-> map[k]]>>

Put(r) ==
  LET k   == ask[r].key
      new == [answer |-> ask[r].answer, until |-> now + TTL]
      cut == Cut(Front(k), [j \in DOMAIN entries \cup {k} |-> IF j = k THEN new ELSE entries[j]])
  IN  /\ ask[r].pc = "found"
      /\ order' = cut[1] /\ entries' = cut[2]
      /\ ask' = [ask EXCEPT ![r].pc = "answered", ![r].at = now]
      /\ UNCHANGED <<now, stored>>

\* Capture or a POST stores an engram that matches.
Write ==
  /\ Len(stored) < MaxWrites
  /\ stored' = Append(stored, now)
  /\ UNCHANGED <<now, order, entries, ask>>

Tick ==
  /\ now < MaxTime
  /\ \A r \in Asks : ask[r].pc = "found" => now < ask[r].at + Lag
  /\ now' = now + 1
  /\ UNCHANGED <<stored, order, entries, ask>>

AskNext ==
  \/ \E r \in Asks, k \in Keys : Get(r, k)
  \/ \E r \in Asks : Search(r) \/ Put(r)
  \/ Write \/ Tick

---------------------------------------------------------------------------
\* What the comments promise of the cache itself: at most Max entries, and the
\* list that eviction reads names exactly the keys of the map, each once.
CacheBounded ==
  /\ Len(order) <= Max
  /\ DOMAIN entries = {order[i] : i \in DOMAIN order}
  /\ Cardinality(DOMAIN entries) = Len(order)

\* "5-minute TTL guards against stale answers": no answer lacks an engram that
\* was stored more than the TTL, and a request's lag, before.  An answer that
\* was searched before an engram came may be put, with a whole TTL to live,
\* after one that has it.
AnswersRecent ==
  \A r \in Asks : ask[r].pc = "answered" =>
    \A i \in DOMAIN stored : stored[i] + TTL + Lag < ask[r].at => i <= ask[r].answer

\* The same without the lag, which the code does not keep.
AnswersWithinTTL ==
  \A r \in Asks : ask[r].pc = "answered" =>
    \A i \in DOMAIN stored : stored[i] + TTL < ask[r].at => i <= ask[r].answer
=============================================================================
