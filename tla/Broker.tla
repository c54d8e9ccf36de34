------------------------------- MODULE Broker -------------------------------
(***************************************************************************)
(* The coordination runtime (internal/ccr): agents subscribe over a        *)
(* socket and wait for a wake; the relay watcher wakes a role when a file  *)
(* is created in the role's relay directory; a janitor closes and forgets  *)
(* subscriptions whose last heartbeat is too old.                          *)
(*                                                                         *)
(* The three servers (stdio, unix socket, websocket) dispatch the same     *)
(* tool calls to the same broker, so a subscription stands for one         *)
(* tools/call of any of them and the goroutine that answers it.  Time      *)
(* passes in ticks of the janitor's ticker (30 seconds in the code).       *)
(***************************************************************************)
EXTENDS Integers, Sequences, FiniteSets

CONSTANTS
  SubIds,       \* subscription ids: 128 random bits in the code, never reused
  Roles,        \* what isCanonicalRole accepts
  Dirs,         \* relay directories, named for the role they address
  LateDirs,     \* relay directories made after the watcher has started
  Stripped,     \* [Dirs -> role name without the claude_code_ prefix]
  Watcher,      \* the goroutine of RunRelayWatcher
  Callers,      \* goroutines serving a test_wake
  None,
  Capacity,     \* of a subscription's channel (10 in the code)
  StaleAfter,   \* ticks a heartbeat lasts (3 times 30 seconds in the code)
  Timeouts,     \* timeout_seconds a client may ask for, in ticks
  MaxArrivals,  \* bound on the files created in one relay directory
  MaxCalls,     \* bound on test_wake calls
  MaxBeats,     \* bound on heartbeats
  MaxActs       \* bound on all that clients and programs do

Wakers == {Watcher} \cup Callers
Names  == Roles \cup Dirs \cup {Stripped[d] : d \in Dirs}

ASSUME BrokerAssumption ==
  /\ Watcher \notin Callers /\ None \notin Names
  /\ LateDirs \subseteq Dirs
  /\ Capacity \in Nat \ {0} /\ StaleAfter \in Nat
  /\ Timeouts \subseteq Nat
  /\ MaxArrivals \in Nat /\ MaxCalls \in Nat /\ MaxBeats \in Nat
  /\ MaxActs \in Nat

VARIABLES
  \* Broker.subs and the Subscriptions, also those it has forgotten
  subs,       \* ids in Broker.subs
  role,       \* [SubIds -> the subscribed role, None before Subscribe]
  queue,      \* [SubIds -> events in the channel]
  closed,     \* ids whose channel is closed
  age,        \* [SubIds -> ticks since LastHeart]
  \* the goroutine that answers the subscribe call
  waiter,     \* [SubIds -> "new", "waiting", or how it was answered]
  left,       \* [SubIds -> ticks until its time.After]
  woken,      \* ids of subscriptions a WakeActive has reached
  \* callers of WakeActive: the roles still to wake, and under the read lock
  \* the subscriptions still to send to
  wakes,      \* [Wakers -> Seq(Names)]
  sending,    \* wakers that hold the read lock
  todo,       \* [Wakers -> SUBSET SubIds]
  \* the relay directories
  exists, watched,
  arrived,    \* [Dirs -> files created in it]
  events,     \* Seq(Dirs): undelivered fsnotify events
  owed,       \* <<s, d>>: s was pending when a file for its role came into d
  \* the ticker, and bounds
  due,        \* the janitor's ticker has fired
  calls, beats

subVars   == <<subs, role, queue, closed, age>>
waitVars  == <<waiter, left, woken>>
wakeVars  == <<wakes, sending, todo>>
relayVars == <<exists, watched, arrived, events, owed>>
boundVars == <<calls, beats>>
vars == <<subVars, waitVars, wakeVars, relayVars, due, boundVars>>

Answers == {"event", "timeout", "spurious"}

\* Subscriptions, heartbeats, test_wakes, directories made and directories
\* written to.
Acts == Cardinality({s \in SubIds : waiter[s] # "new"}) + beats + calls
          + Cardinality(exists \ watched) + Cardinality({d \in Dirs : arrived[d] > 0})

---------------------------------------------------------------------------
(* b.mu: readers are the wakers that are sending; a writer excludes them.  *)

Unlocked == sending = {}

Subscribe(s, r, t) ==
  /\ Unlocked
  /\ waiter[s] = "new" /\ r \in Roles
  /\ Acts < MaxActs
  /\ subs' = subs \cup {s}
  /\ role' = [role EXCEPT ![s] = r]
  /\ age' = [age EXCEPT ![s] = 0]
  /\ waiter' = [waiter EXCEPT ![s] = "waiting"]
  /\ left' = [left EXCEPT ![s] = t]
  /\ UNCHANGED <<queue, closed, woken, wakeVars, relayVars, due, boundVars>>

\* A client learns the id of a subscription from the answer to its subscribe
\* call, and can send heartbeats only then.
Heartbeat(s) ==
  /\ s \in subs /\ waiter[s] \in Answers
  /\ Acts < MaxActs
  /\ beats < MaxBeats /\ beats' = beats + 1
  /\ age' = [age EXCEPT ![s] = 0]
  /\ UNCHANGED <<subs, role, queue, closed, waitVars, wakeVars, relayVars, due, calls>>

---------------------------------------------------------------------------
(* The goroutine waiting on a subscription's channel and on a timer.  Its   *)
(* select takes either case when both are ready; a closed channel yields    *)
(* what is left in it, then the zero event.                                 *)

TakeEvent(s) ==
  /\ waiter[s] = "waiting" /\ queue[s] > 0
  /\ queue' = [queue EXCEPT ![s] = @ - 1]
  /\ waiter' = [waiter EXCEPT ![s] = "event"]
  /\ UNCHANGED <<subs, role, closed, age, left, woken, wakeVars, relayVars, due, boundVars>>

TakeZero(s) ==
  /\ waiter[s] = "waiting" /\ queue[s] = 0 /\ s \in closed
  /\ waiter' = [waiter EXCEPT ![s] = "spurious"]
  /\ UNCHANGED <<subVars, left, woken, wakeVars, relayVars, due, boundVars>>

TimeOut(s) ==
  /\ waiter[s] = "waiting" /\ left[s] = 0
  /\ waiter' = [waiter EXCEPT ![s] = "timeout"]
  /\ UNCHANGED <<subVars, left, woken, wakeVars, relayVars, due, boundVars>>

\* Variant: a loop on the channel that ignores its close and has no timer.
AnswerEvents(s) == TakeEvent(s)

Answer(s) == TakeEvent(s) \/ TakeZero(s) \/ TimeOut(s)

---------------------------------------------------------------------------
(* WakeActive *)

Lock(w) ==
  /\ w \notin sending /\ wakes[w] # << >>
  /\ sending' = sending \cup {w}
  /\ todo' = [todo EXCEPT ![w] = {s \in subs : role[s] = Head(wakes[w])}]
  /\ wakes' = [wakes EXCEPT ![w] = Tail(@)]
  /\ UNCHANGED <<subVars, waitVars, relayVars, due, boundVars>>

\* A send that finds the channel full drops the event.
Send(w, s) ==
  /\ w \in sending /\ s \in todo[w]
  /\ todo' = [todo EXCEPT ![w] = @ \ {s}]
  /\ queue' = [queue EXCEPT ![s] = IF @ < Capacity THEN @ + 1 ELSE @]
  /\ woken' = woken \cup {s}
  /\ UNCHANGED <<subs, role, closed, age, waiter, left, wakes, sending, relayVars, due,
                 boundVars>>

Unlock(w) ==
  /\ w \in sending /\ todo[w] = {}
  /\ sending' = sending \ {w}
  /\ UNCHANGED <<subVars, waitVars, wakes, todo, relayVars, due, boundVars>>

WakeStep(w) == Lock(w) \/ Unlock(w) \/ \E s \in SubIds : Send(w, s)

Quiet(w) == w \notin sending /\ wakes[w] = << >>

\* The test_wake tool; its role is not checked.
TestWake(w, r) ==
  /\ Quiet(w)
  /\ Acts < MaxActs
  /\ calls < MaxCalls /\ calls' = calls + 1
  /\ wakes' = [wakes EXCEPT ![w] = <<r>>]
  /\ UNCHANGED <<subVars, waitVars, sending, todo, relayVars, due, beats>>

---------------------------------------------------------------------------
(* The relay directories and their watcher *)

\* The roles a file in d is for: the directory's name, with its prefix or
\* without.
Addressed(d) == {Stripped[d], d}

\* A program drops a relay file.
Arrive(d) ==
  /\ d \in exists /\ arrived[d] < MaxArrivals
  /\ Acts < MaxActs
  /\ arrived' = [arrived EXCEPT ![d] = @ + 1]
  /\ events' = IF d \in watched THEN Append(events, d) ELSE events
  /\ owed' = owed \cup {<<s, d>> : s \in {i \in subs : /\ waiter[i] = "waiting"
                                                    /\ role[i] \in Addressed(d)}}
  /\ UNCHANGED <<subVars, waitVars, wakeVars, exists, watched, due, boundVars>>

\* A new role's directory: the create event in its parent is ignored.
MakeRoleDir(d) ==
  /\ d \notin exists /\ Acts < MaxActs
  /\ exists' = exists \cup {d}
  /\ UNCHANGED <<subVars, waitVars, wakeVars, watched, arrived, events, owed, due, boundVars>>

\* Variant: the exact name only.
OnRelayUnmapped ==
  /\ Quiet(Watcher) /\ events # << >>
  /\ wakes' = [wakes EXCEPT ![Watcher] = <<Head(events)>>]
  /\ events' = Tail(events)
  /\ UNCHANGED <<subVars, waitVars, sending, todo, exists, watched, arrived, owed, due, boundVars>>

\* The watcher wakes the role without its prefix, then the exact name.
OnRelay ==
  /\ Quiet(Watcher) /\ events # << >>
  /\ wakes' = [wakes EXCEPT ![Watcher] = <<Stripped[Head(events)], Head(events)>>]
  /\ events' = Tail(events)
  /\ UNCHANGED <<subVars, waitVars, sending, todo, exists, watched, arrived, owed, due, boundVars>>

---------------------------------------------------------------------------
(* Time and the janitor *)

Tick ==
  /\ ~due
  /\ due' = TRUE
  /\ age' = [s \in SubIds |-> IF s \in subs /\ age[s] <= StaleAfter THEN age[s] + 1
                                                                    ELSE age[s]]
  /\ left' = [s \in SubIds |-> IF waiter[s] = "waiting" /\ left[s] > 0 THEN left[s] - 1
                                                                       ELSE left[s]]
  /\ UNCHANGED <<subs, role, queue, closed, waiter, woken, wakeVars, relayVars, boundVars>>

Stale == {s \in subs : age[s] > StaleAfter}

\* Variants: no lock; the channel emptied; only subscriptions being waited on.
JanitorUnlocked ==
  /\ due /\ due' = FALSE
  /\ closed' = closed \cup Stale /\ subs' = subs \ Stale
  /\ UNCHANGED <<role, queue, age, waitVars, wakeVars, relayVars, boundVars>>

JanitorDrains ==
  /\ Unlocked
  /\ due /\ due' = FALSE
  /\ closed' = closed \cup Stale /\ subs' = subs \ Stale
  /\ queue' = [s \in SubIds |-> IF s \in Stale THEN 0 ELSE queue[s]]
  /\ UNCHANGED <<role, age, waitVars, wakeVars, relayVars, boundVars>>

JanitorWaitedOn ==
  /\ Unlocked
  /\ due /\ due' = FALSE
  /\ LET reaped == {s \in Stale : waiter[s] = "waiting"}
     IN  closed' = closed \cup reaped /\ subs' = subs \ reaped
  /\ UNCHANGED <<role, queue, age, waitVars, wakeVars, relayVars, boundVars>>

Janitor ==
  /\ Unlocked
  /\ due /\ due' = FALSE
  /\ closed' = closed \cup Stale
  /\ subs' = subs \ Stale
  /\ UNCHANGED <<role, queue, age, waitVars, wakeVars, relayVars, boundVars>>

---------------------------------------------------------------------------
Init ==
  /\ subs = {} /\ role = [s \in SubIds |-> None] /\ queue = [s \in SubIds |-> 0]
  /\ closed = {} /\ age = [s \in SubIds |-> 0]
  /\ waiter = [s \in SubIds |-> "new"] /\ left = [s \in SubIds |-> 0] /\ woken = {}
  /\ wakes = [w \in Wakers |-> << >>] /\ sending = {} /\ todo = [w \in Wakers |-> {}]
  /\ exists = Dirs \ LateDirs /\ watched = Dirs \ LateDirs
  /\ arrived = [d \in Dirs |-> 0] /\ events = << >> /\ owed = {}
  /\ due = FALSE /\ calls = 0 /\ beats = 0

Next ==
  \/ \E s \in SubIds : \E r \in Roles : \E t \in Timeouts : Subscribe(s, r, t)
  \/ \E s \in SubIds : Heartbeat(s) \/ Answer(s)
  \/ \E w \in Wakers : WakeStep(w)
  \/ \E w \in Callers : \E r \in Names : TestWake(w, r)
  \/ \E d \in Dirs : Arrive(d) \/ MakeRoleDir(d)
  \/ OnRelay \/ Tick \/ Janitor

Spec == Init /\ [][Next]_vars

\* Goroutines run and time passes.  The janitor's Lock is strongly fair: a
\* waiting writer keeps new readers out of a sync.RWMutex.
Fairness ==
  /\ \A s \in SubIds : WF_vars(Answer(s))
  /\ \A w \in Wakers : WF_vars(WakeStep(w))
  /\ WF_vars(OnRelay) /\ WF_vars(Tick) /\ SF_vars(Janitor)

FairSpec == Spec /\ Fairness

---------------------------------------------------------------------------
(* Properties *)

SubsOK ==
  /\ subs \subseteq SubIds /\ closed \subseteq SubIds /\ woken \subseteq SubIds
  /\ role \in [SubIds -> Roles \cup {None}]
  /\ queue \in [SubIds -> 0..Capacity]
  /\ age \in [SubIds -> 0..(StaleAfter + 1)]
  /\ waiter \in [SubIds -> {"new", "waiting"} \cup Answers]
  /\ left \in [SubIds -> Nat]
WakesOK ==
  /\ wakes \in [Wakers -> Seq(Names)]
  /\ sending \subseteq Wakers
  /\ todo \in [Wakers -> SUBSET SubIds]
RelaysOK ==
  /\ exists \subseteq Dirs /\ watched \subseteq exists
  /\ arrived \in [Dirs -> 0..MaxArrivals]
  /\ events \in Seq(Dirs) /\ owed \subseteq SubIds \X Dirs
TypeOK ==
  /\ SubsOK /\ WakesOK /\ RelaysOK
  /\ due \in BOOLEAN /\ calls \in 0..MaxCalls /\ beats \in 0..MaxBeats

\* WakeActive never sends on a channel the janitor has closed, which would
\* panic and end the process: close and send both happen under b.mu.
SendsAreOpen == \A w \in sending : todo[w] \cap closed = {}

\* A wake that reached a subscription while its call was pending is not lost,
\* whatever the channel's capacity and the janitor do: the event stays until
\* the call is answered, and the call is not answered by a zero event.
WakeIsKept ==
  \A s \in woken : /\ waiter[s] = "waiting" => queue[s] > 0
                   /\ waiter[s] # "spurious"

\* Every accepted subscribe call is answered, also when its subscription was
\* forgotten meanwhile.
EveryCallAnswered == \A s \in SubIds : waiter[s] = "waiting" ~> waiter[s] # "waiting"

\* The servers never call Unsubscribe, so only the janitor bounds the
\* registry: without heartbeats it forgets every subscription.
Reclaimed == \A s \in SubIds : s \in subs ~> s \notin subs

\* A call that was pending when a file for its role came into one of ds, and
\* still is when the watcher has worked off its events, has an event to be
\* answered with, unless the janitor forgot it.
PendingAreWoken(ds) ==
  events = << >> /\ Quiet(Watcher) =>
    \A s \in subs : \A d \in ds :
      <<s, d>> \in owed /\ waiter[s] = "waiting" => queue[s] > 0

\* A file for role r has come.
Told(r) == \E d \in Dirs : arrived[d] > 0 /\ r \in Addressed(d)

\* Without a test_wake, an event in a channel, or one that answered a call,
\* is of a file for that role.
NobodyElseIsWoken ==
  calls = 0 => \A s \in SubIds : queue[s] > 0 \/ waiter[s] = "event" => Told(role[s])

\* A relay file wakes the calls it is for and no other: the prefix is mapped,
\* the exact name kept, every event delivered, whoever subscribes, wakes and is
\* forgotten meanwhile.  The watcher looks for directories once, when it
\* starts: those made later are left out.
RelayWakes == PendingAreWoken(Dirs \ LateDirs) /\ NobodyElseIsWoken

\* "Watch the relay dir and its immediate subdirectories" (watcher.go:32): the
\* same of every directory.
AllDirsWake == PendingAreWoken(Dirs)

\* "Returns when (a) a wake event fires, OR (b) timeout elapses": no call is
\* answered without either (the adapter contract quoted in test_1_hour_hold.py).
ReturnsOnWakeOrTimeout == \A s \in SubIds : waiter[s] # "spurious"
=============================================================================
