----------------------------- MODULE Retention -----------------------------
(***************************************************************************)
(* One pass of eideticd-compliance (cmd/eideticd-compliance/main.go) over  *)
(* the store of Reads: a process of its own, which purges one surface      *)
(* after the other while the daemon goes on storing and deleting.          *)
(*                                                                         *)
(* A day is a tick.  Durations and times are integers that wrap around.    *)
(***************************************************************************)
EXTENDS Reads

CONSTANTS
  Policies, \* surfaces of retention-policy.json, each with its days; may name NoName
  NoName,   \* the empty surface name
  Now,      \* when the pass starts, in days since 1970
  HalfWord, \* 2^63: an int64 is at least minus this, and less
  MaxFails  \* bound on failing queries

ASSUME RetentionAssumption ==
  /\ NoName \notin Surfaces
  /\ Now \in Nat \ {0} /\ HalfWord \in Nat /\ Now < HalfWord
  /\ MaxFails \in Nat
  /\ \A ts \in Times : -HalfWord <= ts /\ ts < HalfWord
  /\ \A p \in Policies : DOMAIN p \subseteq Surfaces \cup {NoName} /\ \A s \in DOMAIN p : p[s] \in Int

VARIABLES
  pass,    \* "idle", "purge" or "dry", then "purged" or "counted"
  policy,  \* the surfaces and days it has read
  todo,    \* surfaces it has not come to
  failed,  \* surfaces whose query failed
  deleted, \* rows the pass has deleted
  counted, \* a dry run's count of a surface, and what a purge would delete
  present  \* rows that have been there since the pass began

passState == <<pass, policy, todo, failed, deleted, counted>>
passVars  == <<passState, present>>

PassInit ==
  /\ pass = "idle"
  /\ policy = [s \in {} |-> 0]
  /\ todo = {} /\ failed = {} /\ deleted = {} /\ counted = {} /\ present = {}

Wrap(n) == ((n + HalfWord) % (2 * HalfWord)) - HalfWord

\* A variant for comparison: the days are added.
CutoffAhead(s) == Wrap(Now + policy[s])

\* now.Add(-time.Duration(days) * 24 * time.Hour).UnixNano()
Cutoff(s) == Wrap(Now - policy[s])

\* Purge's DELETE: all of the surface's rows when the cutoff is not positive.
Expired(s) == Until(Cutoff(s), OfSurface(s, rows))

\* An unnamed surface and one without days are skipped.
Skipped(s) == s = NoName \/ policy[s] <= 0

ReadPolicy ==
  /\ pass = "idle"
  /\ policy' \in Policies
  /\ pass' \in {"purge", "dry"}
  /\ todo' = DOMAIN policy'
  /\ present' = rows
  /\ UNCHANGED <<rows, failed, deleted, counted>>

\* A variant for comparison: the first failure ends the pass.
SurfaceFailsAll(s) ==
  /\ s \in todo /\ ~ Skipped(s) /\ Cardinality(failed) < MaxFails
  /\ todo' = {}
  /\ failed' = failed \cup {s}
  /\ UNCHANGED <<rows, pass, policy, deleted, counted, present>>

Skip(s) ==
  /\ s \in todo /\ Skipped(s)
  /\ todo' = todo \ {s}
  /\ UNCHANGED <<rows, pass, policy, failed, deleted, counted, present>>

PurgeSurface(s) ==
  /\ pass = "purge" /\ s \in todo /\ ~ Skipped(s)
  /\ todo' = todo \ {s}
  /\ rows' = rows \ Expired(s)
  /\ present' = present \ Expired(s)
  /\ deleted' = deleted \cup Expired(s)
  /\ UNCHANGED <<pass, policy, failed, counted>>

\* The error is logged and the next surface is taken.
SurfaceFails(s) ==
  /\ s \in todo /\ ~ Skipped(s) /\ Cardinality(failed) < MaxFails
  /\ todo' = todo \ {s}
  /\ failed' = failed \cup {s}
  /\ UNCHANGED <<rows, pass, policy, deleted, counted, present>>

\* countExpired: one Retrieve.
CountSurface(s) ==
  /\ pass = "dry" /\ s \in todo /\ ~ Skipped(s)
  /\ todo' = todo \ {s}
  /\ \E R \in Retrieve(s, 0, Cutoff(s), RetrieveMax) :
       counted' = counted \cup {<<Cardinality(R), Cardinality(Expired(s))>>}
  /\ UNCHANGED <<rows, pass, policy, failed, deleted, present>>

EndPass ==
  /\ pass \in {"purge", "dry"} /\ todo = {}
  /\ pass' = IF pass = "purge" THEN "purged" ELSE "counted"
  /\ UNCHANGED <<rows, policy, todo, failed, deleted, counted, present>>

\* The daemon's writers meanwhile.
OtherWriter ==
  /\ InsertBatch \/ DeleteByID
  /\ present' = present \cap rows'
  /\ UNCHANGED passState

PassNext ==
  \/ ReadPolicy \/ EndPass \/ OtherWriter
  \/ \E s \in todo : Skip(s) \/ PurgeSurface(s) \/ SurfaceFails(s) \/ CountSurface(s)

---------------------------------------------------------------------------
\* Whether a row is older than the days the policy gives its surface.
MayGo(r) == r.surface \in DOMAIN policy /\ policy[r.surface] > 0 /\ r.ts < Now - policy[r.surface]

\* A pass deletes only rows older than their surface's days, and none of a
\* surface it should skip, whatever else is written: when every cutoff
\* falls after 1970.
OnlyExpiredGo ==
  (\A s \in DOMAIN policy : policy[s] < Now) => \A r \in deleted : MayGo(r)

\* The same of every policy.  The code does not keep it: Purge takes a cutoff
\* before 1970 for none and deletes the whole surface.
OnlyExpiredEverGo == \A r \in deleted : MayGo(r)

\* A pass leaves no expired row that was there when it began, but on a surface
\* whose query failed; one failure does not keep the others from being purged.
ExpiredAllGo ==
  pass = "purged" => \A r \in present : MayGo(r) => r.surface \in failed

\* "count what would be deleted": the code does not count more than one query
\* gives, and does not tell that it has not.
DryRunTells == \A c \in counted : c[1] = c[2]
=============================================================================
