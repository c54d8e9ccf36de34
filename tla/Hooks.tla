------------------------------- MODULE Hooks -------------------------------
(***************************************************************************)
(* Outbound webhooks (internal/hooks/hooks.go).  WrapSink puts a           *)
(* Dispatcher behind the sink that capture writes to: every engram of a    *)
(* batch that has been stored goes through Maybe, which starts a request   *)
(* for each hook that matches and may fire.  Nobody waits for a request,   *)
(* and how it ends changes nothing but a count that is shown.  What the    *)
(* Dispatcher knows is in memory: a restart forgets it.                    *)
(*                                                                         *)
(* A hook is [name, surface, kind, finds, interval]: kind tells whether    *)
(* its pattern is "all", "text", "regex", or "bad", a regex that does not  *)
(* compile; finds is the set of blocks of a payload that it matches.  An   *)
(* engram is [surface, data].                                              *)
(***************************************************************************)
EXTENDS Integers, FiniteSets, SequencesExt

CONSTANTS
  HookSpecs,  \* the hooks of hooks.json, in order; two may have one name
  AnySurface, \* no match_surface
  MaxTime     \* bound on ticks

HookNames == {HookSpecs[i].name : i \in DOMAIN HookSpecs}

ASSUME HooksAssumption ==
  /\ MaxTime \in Nat
  /\ HookSpecs \in Seq(Range(HookSpecs))
  /\ \A i \in DOMAIN HookSpecs : /\ HookSpecs[i].interval \in Nat
                                 /\ HookSpecs[i].kind \in {"all", "text", "regex", "bad"}

VARIABLES
  now,
  lastAt, \* when a hook of each name with an interval last fired; Never before
  sent    \* requests started since the daemon was

hookVars == <<now, lastAt, sent>>

Never == -1

HooksInit ==
  /\ now = 0
  /\ lastAt = [n \in HookNames |-> Never]
  /\ sent = {}

\* d.regexes: one name's last regex that compiles.
Regex(n) == {i \in DOMAIN HookSpecs : HookSpecs[i].name = n /\ HookSpecs[i].kind = "regex"}

Finds(h) ==
  IF h.kind \in {"regex", "bad"}
    THEN UNION {HookSpecs[i].finds : i \in {j \in Regex(h.name) : \A k \in Regex(h.name) : k <= j}}
    ELSE h.finds

Matches(e, h) ==
  /\ h.surface \in {AnySurface, e.surface}
  /\ h.kind = "all" \/ \E i \in DOMAIN e.data : e.data[i] \in Finds(h)

\* A variant for comparison: the interval is measured only for a first request.
CanFireOnce(h, last) == h.interval = 0 \/ last[h.name] = Never \/ now > last[h.name]

CanFire(h, last) == h.interval = 0 \/ last[h.name] = Never \/ now - last[h.name] >= h.interval

\* Maybe, of one engram and one hook: the time is taken before the request.
Maybe(d, e, h) ==
  IF Matches(e, h) /\ CanFire(h, d.last)
    THEN [last  |-> IF h.interval = 0 THEN d.last ELSE [d.last EXCEPT ![h.name] = now],
          fires |-> d.fires \cup {[hook |-> h, engram |-> e, at |-> now,
                                 nr |-> Cardinality(sent) + Cardinality(d.fires)]}]
    ELSE d

\* The loops over the hooks and over the batch.
EachHook(d, e) ==
  LET to[i \in 0 .. Len(HookSpecs)] == IF i = 0 THEN d ELSE Maybe(to[i - 1], e, HookSpecs[i])
  IN  to[Len(HookSpecs)]

EachEngram(d, batch) ==
  LET to[i \in 0 .. Len(batch)] == IF i = 0 THEN d ELSE EachHook(to[i - 1], batch[i])
  IN  to[Len(batch)]

Dispatch(batch) ==
  LET d == EachEngram([last |-> lastAt, fires |-> {}], batch)
  IN  lastAt' = d.last /\ sent' = sent \cup d.fires /\ UNCHANGED now

Tick ==
  /\ now < MaxTime
  /\ now' = now + 1
  /\ UNCHANGED <<lastAt, sent>>

NewDispatcher ==
  /\ lastAt' = [n \in HookNames |-> Never]
  /\ sent' = {}
  /\ UNCHANGED now

---------------------------------------------------------------------------
\* "min_interval_sec rate-limits per-hook firing": while the daemon runs, two
\* requests of a name are an interval apart, also when one batch matches several
\* times, two hooks share the name, or requests fail or end in any order.
FiresSpaced ==
  \A f, g \in sent :
    /\ f # g /\ f.hook.name = g.hook.name /\ f.at >= g.at
    /\ f.hook.interval > 0 /\ g.hook.interval > 0
    => f.at - g.at >= f.hook.interval

\* "non-compileable regexes ... the hook silently never fires".  The code does
\* not keep it: the regex of another hook of the same name serves for both.
BadNeverFires == \A f \in sent : f.hook.kind # "bad"
=============================================================================
