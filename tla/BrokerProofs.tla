---------------------------- MODULE BrokerProofs ----------------------------
(***************************************************************************)
(* Proofs about Broker, for every set of subscriptions, wakers and relay   *)
(* directories and every capacity, timeout and bound: its types, that no   *)
(* event is sent on a closed channel, that no wake of a pending call is    *)
(* lost, and that a relay file wakes whom it is for and nobody else.       *)
(***************************************************************************)
EXTENDS Broker, TLAPS

USE DEF Answers, Answer, WakeStep, Wakers, Unlocked

---------------------------------------------------------------------------
(* Types *)

LEMMA TypeInit == Init => TypeOK
<1> SUFFICES ASSUME Init PROVE TypeOK
  OBVIOUS
<1>1. SubsOK
  BY BrokerAssumption DEF Init, SubsOK
<1>2. WakesOK
  BY DEF Init, WakesOK
<1>3. RelaysOK
  BY BrokerAssumption DEF Init, RelaysOK
<1>4. due \in BOOLEAN
  BY DEF Init
<1>5. calls \in 0..MaxCalls /\ beats \in 0..MaxBeats
  BY BrokerAssumption DEF Init
<1> QED
  BY <1>1, <1>2, <1>3, <1>4, <1>5 DEF TypeOK

LEMMA SubsStep ==
  ASSUME SubsOK, WakesOK, [Next]_vars
  PROVE  SubsOK'
<1> USE BrokerAssumption DEF SubsOK
<1>1. CASE UNCHANGED <<subVars, waitVars>>
  BY <1>1 DEF subVars, waitVars
<1>2. ASSUME NEW s \in SubIds, NEW r \in Roles, NEW t \in Timeouts, Subscribe(s, r, t)
      PROVE  SubsOK'
  BY <1>2 DEF Subscribe
<1>3. ASSUME NEW s \in SubIds, Heartbeat(s)
      PROVE  SubsOK'
  BY <1>3 DEF Heartbeat, waitVars
<1>4. ASSUME NEW s \in SubIds, TakeEvent(s)
      PROVE  SubsOK'
  BY <1>4 DEF TakeEvent
<1>5. ASSUME NEW s \in SubIds, TakeZero(s) \/ TimeOut(s)
      PROVE  SubsOK'
  BY <1>5 DEF TakeZero, TimeOut, subVars
<1>6. ASSUME NEW w \in Wakers, NEW s \in SubIds, Send(w, s)
      PROVE  SubsOK'
  BY <1>6 DEF Send
<1>7. CASE Tick
  <2>1. age' \in [SubIds -> 0..(StaleAfter + 1)]
    BY <1>7 DEF Tick
  <2>2. left' \in [SubIds -> Nat]
    BY <1>7 DEF Tick
  <2> QED
    BY <1>7, <2>1, <2>2 DEF Tick
<1>8. CASE Janitor
  BY <1>8 DEF Janitor, Stale, waitVars
<1> QED
  BY <1>1, <1>2, <1>3, <1>4, <1>5, <1>6, <1>7, <1>8
     DEF Next, Lock, Unlock, TestWake, Arrive, MakeRoleDir, OnRelay, vars, subVars, waitVars

LEMMA WakesStep ==
  ASSUME SubsOK, WakesOK, RelaysOK, [Next]_vars
  PROVE  WakesOK'
<1> USE DEF WakesOK
<1>1. CASE UNCHANGED wakeVars
  BY <1>1 DEF wakeVars
<1>2. ASSUME NEW w \in Wakers, Lock(w)
      PROVE  WakesOK'
  BY <1>2 DEF Lock, SubsOK
<1>3. ASSUME NEW w \in Wakers, NEW s \in SubIds, Send(w, s)
      PROVE  WakesOK'
  BY <1>3 DEF Send
<1>4. ASSUME NEW w \in Wakers, Unlock(w)
      PROVE  WakesOK'
  BY <1>4 DEF Unlock
<1>5. ASSUME NEW w \in Callers, NEW r \in Names, TestWake(w, r)
      PROVE  WakesOK'
  BY <1>5 DEF TestWake
<1>6. CASE OnRelay
  <2>1. Head(events) \in Dirs
    BY <1>6 DEF OnRelay, RelaysOK
  <2>2. Stripped[Head(events)] \in Names /\ Head(events) \in Names
    BY <2>1 DEF Names
  <2>3. <<Stripped[Head(events)], Head(events)>> \in Seq(Names)
    BY <2>2
  <2> QED
    BY <1>6, <2>3 DEF OnRelay
<1> QED
  BY <1>1, <1>2, <1>3, <1>4, <1>5, <1>6
     DEF Next, Subscribe, Heartbeat, TakeEvent, TakeZero, TimeOut, Arrive, MakeRoleDir,
         Tick, Janitor, vars, wakeVars

LEMMA RelaysStep ==
  ASSUME SubsOK, RelaysOK, [Next]_vars
  PROVE  RelaysOK'
<1> USE BrokerAssumption DEF RelaysOK
<1>1. CASE UNCHANGED relayVars
  BY <1>1 DEF relayVars
<1>2. ASSUME NEW d \in Dirs, Arrive(d)
      PROVE  RelaysOK'
  <2>1. arrived' \in [Dirs -> 0..MaxArrivals] /\ UNCHANGED <<exists, watched>>
    BY <1>2 DEF Arrive
  <2>2. events' \in Seq(Dirs)
    BY <1>2 DEF Arrive
  <2>3. owed' \subseteq SubIds \X Dirs
    BY <1>2 DEF Arrive, SubsOK
  <2> QED
    BY <2>1, <2>2, <2>3
<1>3. ASSUME NEW d \in Dirs, MakeRoleDir(d)
      PROVE  RelaysOK'
  BY <1>3 DEF MakeRoleDir
<1>4. CASE OnRelay
  BY <1>4 DEF OnRelay
<1> QED
  BY <1>1, <1>2, <1>3, <1>4
     DEF Next, Subscribe, Heartbeat, TakeEvent, TakeZero, TimeOut, Lock, Send, Unlock,
         TestWake, Tick, Janitor, vars, relayVars

LEMMA DueStep ==
  ASSUME due \in BOOLEAN, [Next]_vars
  PROVE  due' \in BOOLEAN
BY Zenon DEF Next, Subscribe, Heartbeat, TakeEvent, TakeZero, TimeOut, Lock, Send, Unlock,
             TestWake, Arrive, MakeRoleDir, OnRelay, Tick, Janitor, vars

LEMMA BoundsStep ==
  ASSUME calls \in 0..MaxCalls, beats \in 0..MaxBeats, [Next]_vars
  PROVE  calls' \in 0..MaxCalls /\ beats' \in 0..MaxBeats
BY BrokerAssumption
   DEF Next, Subscribe, Heartbeat, TakeEvent, TakeZero, TimeOut, Lock, Send, Unlock,
       TestWake, Arrive, MakeRoleDir, OnRelay, Tick, Janitor, vars, boundVars

LEMMA TypeStep == TypeOK /\ [Next]_vars => TypeOK'
BY SubsStep, WakesStep, RelaysStep, DueStep, BoundsStep DEF TypeOK

\* Type correctness, with the channel never above its capacity.
THEOREM TypeCorrect == Spec => []TypeOK
BY TypeInit, TypeStep, PTL DEF Spec

---------------------------------------------------------------------------
(* The inductive invariant *)

\* What the janitor forgot is closed and what is registered is open.
RegisteredOpen == subs \cap closed = {}

\* Under the read lock the registry cannot shrink: who is still to be sent to
\* is registered.
TargetsRegistered == \A w \in sending : todo[w] \subseteq subs

\* An id that is not yet subscribed is nowhere.
NewUnknown == \A s \in SubIds : waiter[s] = "new" => s \notin subs \cup closed \cup woken

\* A zero event comes from a closed channel only.
SpuriousClosed == \A s \in SubIds : waiter[s] = "spurious" => s \in closed

IInv == /\ TypeOK /\ RegisteredOpen /\ TargetsRegistered /\ NewUnknown
        /\ SpuriousClosed /\ WakeIsKept

LEMMA IInit == Init => IInv
BY TypeInit DEF Init, IInv, RegisteredOpen, TargetsRegistered, NewUnknown, SpuriousClosed,
                WakeIsKept

LEMMA RegistryStep ==
  ASSUME IInv, [Next]_vars
  PROVE  RegisteredOpen' /\ TargetsRegistered' /\ NewUnknown' /\ SpuriousClosed'
<1> USE DEF IInv, RegisteredOpen, TargetsRegistered, NewUnknown, SpuriousClosed
<1> DEFINE Goal == RegisteredOpen /\ TargetsRegistered /\ NewUnknown /\ SpuriousClosed
<1> USE DEF TypeOK, SubsOK, WakesOK
<1>1. CASE UNCHANGED <<subVars, waitVars, wakeVars>>
  BY <1>1 DEF subVars, waitVars, wakeVars
<1>2. ASSUME NEW s \in SubIds, NEW r \in Roles, NEW t \in Timeouts, Subscribe(s, r, t)
      PROVE  Goal'
  BY <1>2 DEF Subscribe, wakeVars
<1>3. ASSUME NEW s \in SubIds, Heartbeat(s) \/ Answer(s)
      PROVE  Goal'
  BY <1>3 DEF Heartbeat, TakeEvent, TakeZero, TimeOut, subVars, waitVars, wakeVars
<1>4. ASSUME NEW w \in Wakers, Lock(w) \/ Unlock(w)
      PROVE  Goal'
  BY <1>4 DEF Lock, Unlock, subVars, waitVars
<1>5. ASSUME NEW w \in Wakers, NEW s \in SubIds, Send(w, s)
      PROVE  Goal'
  BY <1>5 DEF Send
<1>6. CASE Tick
  BY <1>6 DEF Tick, wakeVars
<1>7. CASE Janitor
  BY <1>7 DEF Janitor, Stale, waitVars, wakeVars
<1>8. ASSUME NEW w \in Callers, NEW r \in Names, TestWake(w, r)
      PROVE  Goal'
  BY <1>8 DEF TestWake, subVars, waitVars
<1>9. CASE OnRelay
  BY <1>9 DEF OnRelay, subVars, waitVars
<1> QED
  BY <1>1, <1>2, <1>3, <1>4, <1>5, <1>6, <1>7, <1>8, <1>9
     DEF Next, Arrive, MakeRoleDir, vars, subVars, waitVars, wakeVars

LEMMA KeptStep ==
  ASSUME IInv, [Next]_vars
  PROVE  WakeIsKept'
<1> USE DEF IInv, WakeIsKept, TypeOK, SubsOK
<1>1. CASE UNCHANGED <<queue, waiter, woken>>
  BY <1>1
<1>2. ASSUME NEW s \in SubIds, NEW r \in Roles, NEW t \in Timeouts, Subscribe(s, r, t)
      PROVE  WakeIsKept'
  BY <1>2 DEF Subscribe, NewUnknown
<1>3. ASSUME NEW s \in SubIds, TakeEvent(s)
      PROVE  WakeIsKept'
  BY <1>3 DEF TakeEvent
<1>4. ASSUME NEW s \in SubIds, TakeZero(s) \/ TimeOut(s)
      PROVE  WakeIsKept'
  BY <1>4 DEF TakeZero, TimeOut, subVars
<1>5. ASSUME NEW w \in Wakers, NEW s \in SubIds, Send(w, s)
      PROVE  WakeIsKept'
  <2>1. waiter[s] # "spurious"
    BY <1>5 DEF Send, TargetsRegistered, RegisteredOpen, SpuriousClosed
  <2>2. queue'[s] > 0
    BY <1>5, BrokerAssumption DEF Send
  <2> QED
    BY <1>5, <2>1, <2>2 DEF Send
<1> QED
  BY <1>1, <1>2, <1>3, <1>4, <1>5
     DEF Next, Heartbeat, Lock, Unlock, TestWake, Arrive, MakeRoleDir, OnRelay, Tick,
         Janitor, vars, subVars, waitVars

LEMMA IStep == IInv /\ [Next]_vars => IInv'
BY TypeStep, RegistryStep, KeptStep DEF IInv

THEOREM Inductive == Spec => []IInv
BY IInit, IStep, PTL DEF Spec

---------------------------------------------------------------------------
\* No event is ever sent on a closed channel: the process cannot panic there,
\* however wakes, subscriptions and the janitor interleave.
THEOREM SendsOpen == Spec => []SendsAreOpen
<1>1. IInv => SendsAreOpen
  BY DEF IInv, SendsAreOpen, RegisteredOpen, TargetsRegistered
<1> QED
  BY <1>1, Inductive, PTL

\* A wake that reached a pending call is never dropped, drained or replaced by
\* a zero event.
THEOREM WakeKept == Spec => []WakeIsKept
<1>1. IInv => WakeIsKept
  BY DEF IInv
<1> QED
  BY <1>1, Inductive, PTL

---------------------------------------------------------------------------
(* Relay files *)

In(x, q) == \E k \in DOMAIN q : q[k] = x

\* What the elements of a sequence become.
LEMMA Appended == ASSUME NEW S, NEW q \in Seq(S), NEW x \in S, NEW y
                  PROVE  In(y, Append(q, x)) <=> In(y, q) \/ y = x
<1> DEFINE n == Len(q)
           a == Append(q, x)
<1>1. n \in Nat /\ DOMAIN q = 1..n /\ DOMAIN a = 1..(n + 1)
      /\ a[n + 1] = x /\ \A k \in 1..n : a[k] = q[k]
  OBVIOUS
<1> HIDE DEF n, a
<1>2. ASSUME NEW k \in DOMAIN a, a[k] = y
      PROVE  In(y, q) \/ y = x
  BY <1>1, <1>2 DEF In
<1>3. ASSUME In(y, q) \/ y = x
      PROVE  In(y, a)
  BY <1>1, <1>3 DEF In
<1> QED
  BY <1>2, <1>3 DEF In, a

LEMMA HeadOrTail == ASSUME NEW S, NEW q \in Seq(S), q # << >>, NEW y
                    PROVE  In(y, q) <=> y = Head(q) \/ In(y, Tail(q))
<1>1. /\ Len(Tail(q)) = Len(q) - 1 /\ DOMAIN Tail(q) = 1..(Len(q) - 1)
      /\ \A k \in 1..(Len(q) - 1) : Tail(q)[k] = q[k + 1]
      /\ Head(q) = q[1] /\ DOMAIN q = 1..Len(q) /\ Len(q) \in Nat /\ Len(q) > 0
  OBVIOUS
<1>2. ASSUME NEW k \in DOMAIN q, q[k] = y, k # 1
      PROVE  In(y, Tail(q))
  <2>1. k - 1 \in DOMAIN Tail(q) /\ Tail(q)[k - 1] = y
    BY <1>1, <1>2
  <2> QED
    BY <2>1 DEF In
<1>3. ASSUME NEW k \in DOMAIN Tail(q), Tail(q)[k] = y
      PROVE  In(y, q)
  <2>1. k + 1 \in DOMAIN q /\ q[k + 1] = y
    BY <1>1, <1>3
  <2> QED
    BY <2>1 DEF In
<1> QED
  BY <1>1, <1>2, <1>3 DEF In

LEMMA InPair == ASSUME NEW a, NEW b, NEW y PROVE In(y, <<a, b>>) <=> y = a \/ y = b
BY DEF In

\* The wake of s is on its way: an event in its channel, or one that leads
\* there.
OnItsWay(s, d) ==
  \/ queue[s] > 0
  \/ In(d, events)
  \/ In(role[s], wakes[Watcher])
  \/ Watcher \in sending /\ s \in todo[Watcher]

OwedInv ==
  \A s \in SubIds : \A d \in Dirs : <<s, d>> \in owed =>
    /\ waiter[s] # "new" /\ role[s] \in Addressed(d)
    /\ d \notin LateDirs /\ s \in subs /\ waiter[s] = "waiting" => OnItsWay(s, d)

\* Nobody is woken, is about to be, or will be, for whom no file came.
ToldInv ==
  /\ \A k \in DOMAIN events : arrived[events[k]] > 0
  /\ \A s \in SubIds : waiter[s] = "new" => queue[s] = 0
  /\ calls = 0 =>
       /\ \A w \in Callers : wakes[w] = << >> /\ w \notin sending
       /\ \A r : In(r, wakes[Watcher]) => Told(r)
       /\ \A w \in sending : \A s \in todo[w] : Told(role[s])
       /\ NobodyElseIsWoken

RelayInv == IInv /\ Dirs \ LateDirs \subseteq watched /\ OwedInv /\ ToldInv

LEMMA RelayInit == Init => RelayInv
<1> SUFFICES ASSUME Init PROVE RelayInv
  OBVIOUS
<1>1. ToldInv
  BY BrokerAssumption DEF Init, ToldInv, NobodyElseIsWoken, In
<1>2. OwedInv /\ Dirs \ LateDirs \subseteq watched
  BY DEF Init, OwedInv
<1> QED
  BY <1>1, <1>2, IInit DEF RelayInv

\* No step moves a wake that is on its way back to where it was not.
LEMMA OwedKept ==
  ASSUME RelayInv, [Next]_vars, NEW s \in SubIds, NEW d \in Dirs,
         OnItsWay(s, d), role[s] \in Addressed(d),
         UNCHANGED role[s], waiter[s] = "waiting", s \in subs, s \in subs', waiter'[s] = "waiting"
  PROVE  OnItsWay(s, d)'
<1> USE DEF RelayInv, IInv, TypeOK, SubsOK, WakesOK, RelaysOK
<1>1. CASE UNCHANGED <<queue, events, wakes, sending, todo>>
  BY <1>1 DEF OnItsWay
<1>2. ASSUME NEW e \in Dirs, Arrive(e)
      PROVE  OnItsWay(s, d)'
  <2>1. In(d, events) => In(d, events')
    BY <1>2, Appended DEF Arrive
  <2> QED
    BY <1>2, <2>1 DEF Arrive, OnItsWay, subVars, wakeVars
<1>3. CASE OnRelay
  <2>1. UNCHANGED <<queue, sending, todo>> /\ Watcher \notin sending /\ wakes[Watcher] = << >>
    BY <1>3 DEF OnRelay, subVars, Quiet
  <2>2. wakes'[Watcher] = <<Stripped[Head(events)], Head(events)>> /\ events' = Tail(events)
    BY <1>3 DEF OnRelay
  <2>3. In(d, events) => d = Head(events) \/ In(d, events')
    BY <1>3, <2>2, HeadOrTail DEF OnRelay
  <2>4. d = Head(events) => In(role[s], wakes'[Watcher])
    BY <2>2, InPair DEF Addressed
  <2>5. ~In(role[s], wakes[Watcher])
    BY <2>1 DEF In
  <2> QED
    BY <2>1, <2>3, <2>4, <2>5 DEF OnItsWay
<1>4. ASSUME NEW w \in Wakers, Lock(w)
      PROVE  OnItsWay(s, d)'
  <2>1. UNCHANGED <<queue, events>>
    BY <1>4 DEF Lock, subVars, relayVars
  <2>2. CASE w # Watcher
    BY <1>4, <2>1, <2>2 DEF Lock, OnItsWay
  <2>3. CASE w = Watcher
    <3>1. In(role[s], wakes[Watcher]) =>
            role[s] = Head(wakes[Watcher]) \/ In(role[s], wakes'[Watcher])
      BY <1>4, <2>3, HeadOrTail DEF Lock
    <3>2. role[s] = Head(wakes[Watcher]) => s \in todo'[Watcher] /\ Watcher \in sending'
      BY <1>4, <2>3 DEF Lock
    <3> QED
      BY <1>4, <2>1, <2>3, <3>1, <3>2 DEF Lock, OnItsWay
  <2> QED
    BY <2>2, <2>3
<1>5. ASSUME NEW w \in Wakers, NEW t \in SubIds, Send(w, t)
      PROVE  OnItsWay(s, d)'
  <2>1. UNCHANGED <<events, wakes, sending>>
    BY <1>5 DEF Send, relayVars
  <2>2. t = s => queue'[s] > 0
    BY <1>5, BrokerAssumption DEF Send
  <2>3. t # s => queue'[s] = queue[s] /\ (s \in todo[Watcher] => s \in todo'[Watcher])
    BY <1>5 DEF Send
  <2> QED
    BY <2>1, <2>2, <2>3 DEF OnItsWay
<1>6. ASSUME NEW w \in Wakers, Unlock(w)
      PROVE  OnItsWay(s, d)'
  BY <1>6 DEF Unlock, OnItsWay, subVars, relayVars
<1>7. ASSUME NEW w \in Callers, NEW r \in Names, TestWake(w, r)
      PROVE  OnItsWay(s, d)'
  BY <1>7, BrokerAssumption DEF TestWake, OnItsWay, subVars, relayVars
<1>8. ASSUME NEW t \in SubIds, TakeEvent(t)
      PROVE  OnItsWay(s, d)'
  BY <1>8 DEF TakeEvent, OnItsWay, wakeVars, relayVars
<1> QED
  BY <1>1, <1>2, <1>3, <1>4, <1>5, <1>6, <1>7, <1>8
     DEF Next, Subscribe, Heartbeat, TakeZero, TimeOut, MakeRoleDir, Tick, Janitor, vars, subVars,
         wakeVars, relayVars

LEMMA OwedStep ==
  ASSUME RelayInv, [Next]_vars
  PROVE  OwedInv' /\ (Dirs \ LateDirs \subseteq watched)'
<1> USE DEF RelayInv, IInv, TypeOK, SubsOK, RelaysOK
<1>1. Dirs \ LateDirs \subseteq watched'
  <2>1. watched' = watched
    BY DEF Next, Subscribe, Heartbeat, TakeEvent, TakeZero, TimeOut, Lock, Send, Unlock, TestWake,
           Arrive, MakeRoleDir, OnRelay, Tick, Janitor, vars, relayVars
  <2> QED
    BY <2>1
<1>2. SUFFICES ASSUME NEW s \in SubIds, NEW d \in Dirs, <<s, d>> \in owed'
               PROVE  /\ waiter'[s] # "new" /\ role'[s] \in Addressed(d)
                      /\ d \notin LateDirs /\ s \in subs' /\ waiter'[s] = "waiting"
                           => OnItsWay(s, d)'
  BY <1>1 DEF OwedInv, Addressed
<1>3. CASE <<s, d>> \in owed
  <2>1. /\ waiter[s] # "new" /\ role[s] \in Addressed(d)
        /\ d \notin LateDirs /\ s \in subs /\ waiter[s] = "waiting" => OnItsWay(s, d)
    BY <1>3 DEF OwedInv
  <2>2. /\ waiter'[s] # "new" /\ role'[s] = role[s]
        /\ waiter'[s] = "waiting" => waiter[s] = "waiting"
        /\ s \in subs' => s \in subs
    BY <2>1 DEF Next, Subscribe, Heartbeat, TakeEvent, TakeZero, TimeOut, Lock, Send, Unlock,
                TestWake, Arrive, MakeRoleDir, OnRelay, Tick, Janitor, vars, subVars, waitVars
  <2> QED
    BY <2>1, <2>2, OwedKept
<1>4. CASE <<s, d>> \notin owed
  <2>1. PICK e \in Dirs : Arrive(e)
    BY <1>2, <1>4
       DEF Next, Subscribe, Heartbeat, TakeEvent, TakeZero, TimeOut, Lock, Send, Unlock,
           TestWake, MakeRoleDir, OnRelay, Tick, Janitor, vars, relayVars
  <2>2. e = d /\ s \in subs /\ waiter[s] = "waiting" /\ role[s] \in Addressed(d)
    BY <1>2, <1>4, <2>1 DEF Arrive
  <2>3. UNCHANGED <<waiter, role, subs>>
    BY <2>1 DEF Arrive, subVars, waitVars
  <2>4. d \notin LateDirs => In(d, events')
    BY <2>1, <2>2, Appended DEF Arrive
  <2> QED
    BY <2>2, <2>3, <2>4 DEF OnItsWay
<1> QED
  BY <1>3, <1>4

\* That a file has come stays true.
LEMMA ToldStays == ASSUME RelayInv, [Next]_vars, NEW r, Told(r) PROVE Told(r)'
<1>1. \A d \in Dirs : arrived[d] > 0 => arrived'[d] > 0
  BY DEF Next, Subscribe, Heartbeat, TakeEvent, TakeZero, TimeOut, Lock, Send, Unlock, TestWake,
         Arrive, MakeRoleDir, OnRelay, Tick, Janitor, vars, relayVars, RelayInv, IInv, TypeOK, RelaysOK
<1> QED
  BY <1>1 DEF Told, Addressed

LEMMA ToldStep == ASSUME RelayInv, [Next]_vars PROVE ToldInv'
<1> USE DEF RelayInv, IInv, TypeOK, SubsOK, WakesOK, RelaysOK
<1>1. \A k \in DOMAIN events' : arrived'[events'[k]] > 0
  <2>1. \A x : In(x, events) <=> \E k \in DOMAIN events : events[k] = x
    BY DEF In
  <2>2. \A x \in Dirs : In(x, events) => arrived[x] > 0
    BY DEF In, ToldInv
  <2>3. \A x \in Dirs : In(x, events') => arrived'[x] > 0
    <3>1. CASE UNCHANGED <<events, arrived>>
      BY <2>2, <3>1
    <3>2. ASSUME NEW e \in Dirs, Arrive(e)
          PROVE  \A x \in Dirs : In(x, events') => arrived'[x] > 0
      <4>1. \A x \in Dirs : In(x, events') => In(x, events) \/ x = e
        BY <3>2, Appended DEF Arrive
      <4>2. arrived' = [arrived EXCEPT ![e] = @ + 1]
        BY <3>2 DEF Arrive
      <4> QED
        BY <2>2, <4>1, <4>2
    <3>3. CASE OnRelay
      <4>1. \A x \in Dirs : In(x, events') => In(x, events)
        BY <3>3, HeadOrTail DEF OnRelay
      <4> QED
        BY <2>2, <3>3, <4>1 DEF OnRelay
    <3> QED
      BY <3>1, <3>2, <3>3
         DEF Next, Subscribe, Heartbeat, TakeEvent, TakeZero, TimeOut, Lock, Send, Unlock,
             TestWake, MakeRoleDir, Tick, Janitor, vars, relayVars
  <2>4. events' \in Seq(Dirs)
    BY TypeStep
  <2>5. \A k \in DOMAIN events' : events'[k] \in Dirs /\ In(events'[k], events')
    BY <2>4 DEF In
  <2> QED
    BY <2>3, <2>5
<1>2. \A s \in SubIds : waiter'[s] = "new" => queue'[s] = 0
  <2>1. ASSUME NEW w \in Wakers, NEW t \in SubIds, Send(w, t)
        PROVE  waiter[t] # "new"
    BY <2>1 DEF Send, TargetsRegistered, NewUnknown
  <2>2. \A s \in SubIds : waiter[s] = "new" => queue[s] = 0
    BY DEF ToldInv
  <2>3. ASSUME NEW w \in Wakers, NEW t \in SubIds, Send(w, t), NEW s \in SubIds, waiter'[s] = "new"
        PROVE  queue'[s] = 0
    BY <2>1, <2>2, <2>3 DEF Send
  <2>4. ASSUME NEW t \in SubIds, TakeEvent(t), NEW s \in SubIds, waiter'[s] = "new"
        PROVE  queue'[s] = 0
    BY <2>2, <2>4 DEF TakeEvent
  <2>5. CASE UNCHANGED queue /\ \A s \in SubIds : waiter'[s] = "new" => waiter[s] = "new"
    BY <2>2, <2>5
  <2> QED
    BY <2>3, <2>4, <2>5
       DEF Next, Subscribe, Heartbeat, TakeZero, TimeOut, Lock, Unlock,
           TestWake, Arrive, MakeRoleDir, OnRelay, Tick, Janitor, vars, subVars, waitVars
<1>3. SUFFICES ASSUME calls' = 0
               PROVE  /\ \A w \in Callers : wakes'[w] = << >> /\ w \notin sending'
                      /\ \A r : In(r, wakes'[Watcher]) => Told(r)'
                      /\ \A w \in sending' : \A s \in todo'[w] : Told(role[s])'
                      /\ \A s \in SubIds : queue'[s] > 0 \/ waiter'[s] = "event" => Told(role[s])'
  BY <1>1, <1>2 DEF ToldInv, NobodyElseIsWoken
<1>4. calls = 0 /\ \A w \in Callers : \A r \in Names : ~TestWake(w, r)
  BY <1>3 DEF Next, Subscribe, Heartbeat, TakeEvent, TakeZero, TimeOut, Lock, Send, Unlock,
              TestWake, Arrive, MakeRoleDir, OnRelay, Tick, Janitor, vars, boundVars
<1>5. /\ \A w \in Callers : wakes[w] = << >> /\ w \notin sending
      /\ \A r : In(r, wakes[Watcher]) => Told(r)
      /\ \A w \in sending : \A s \in todo[w] : Told(role[s])
      /\ \A s \in SubIds : queue[s] > 0 \/ waiter[s] = "event" => Told(role[s])
  BY <1>4 DEF ToldInv, NobodyElseIsWoken
<1>6. \A r : Told(r) => Told(r)'
  BY ToldStays
<1>7. \A w \in Callers : wakes'[w] = << >> /\ w \notin sending'
  BY <1>4, <1>5, BrokerAssumption
     DEF Next, Subscribe, Heartbeat, TakeEvent, TakeZero, TimeOut, Lock, Send, Unlock,
         Arrive, MakeRoleDir, OnRelay, Tick, Janitor, vars, wakeVars
<1>8. ASSUME NEW r, In(r, wakes'[Watcher])
      PROVE  Told(r)'
  <2>1. CASE UNCHANGED wakes
    BY <1>5, <1>6, <1>8, <2>1
  <2>2. ASSUME NEW w \in Wakers, Lock(w)
        PROVE  In(r, wakes[Watcher])
    <3>1. w = Watcher
      BY <1>5, <2>2 DEF Lock
    <3> QED
      BY <1>8, <2>2, <3>1, HeadOrTail DEF Lock
  <2>3. CASE OnRelay
    <3>1. r = Stripped[Head(events)] \/ r = Head(events)
      BY <1>8, <2>3, InPair DEF OnRelay
    <3>2. Head(events) \in Dirs /\ arrived[Head(events)] > 0
      <4>1. 1 \in DOMAIN events /\ Head(events) = events[1]
        BY <2>3 DEF OnRelay
      <4> QED
        BY <4>1 DEF ToldInv
    <3> QED
      BY <1>6, <3>1, <3>2 DEF Told, Addressed
  <2> QED
    BY <1>4, <1>5, <1>6, <2>1, <2>2, <2>3
       DEF Next, Subscribe, Heartbeat, TakeEvent, TakeZero, TimeOut, Send, Unlock,
           Arrive, MakeRoleDir, Tick, Janitor, vars, wakeVars
<1>9. ASSUME NEW w \in sending', NEW s \in todo'[w]
      PROVE  Told(role[s])'
  <2>0. w \in Wakers /\ s \in SubIds
    BY TypeStep
  <2>1. ASSUME NEW v \in Wakers, Lock(v)
        PROVE  Told(role[s])'
    <3>1. v = Watcher
      BY <1>5, <2>1 DEF Lock
    <3>2. UNCHANGED role
      BY <2>1 DEF Lock, subVars
    <3>3. CASE w = v
      <4>1. role[s] = Head(wakes[Watcher])
        BY <1>9, <2>1, <3>1, <3>3 DEF Lock
      <4>2. In(role[s], wakes[Watcher])
        BY <2>1, <3>1, <4>1, HeadOrTail DEF Lock
      <4> QED
        BY <1>5, <1>6, <3>2, <4>2
    <3>4. CASE w # v
      BY <1>5, <1>6, <1>9, <2>1, <3>2, <3>4 DEF Lock
    <3> QED
      BY <3>3, <3>4
  <2>2. ASSUME NEW t \in SubIds, NEW r \in Roles, NEW x \in Timeouts, Subscribe(t, r, x)
        PROVE  Told(role[s])'
    <3>1. w \in sending /\ s \in todo[w] /\ sending = {}
      BY <1>9, <2>2 DEF Subscribe, wakeVars
    <3> QED
      BY <3>1
  <2>3. CASE UNCHANGED role /\ w \in sending /\ s \in todo[w]
    BY <1>5, <1>6, <2>3
  <2>4. ASSUME NEW v \in Wakers, NEW t \in SubIds, Send(v, t)
        PROVE  Told(role[s])'
    <3>1. UNCHANGED role /\ w \in sending /\ s \in todo[w]
      BY <1>9, <2>0, <2>4 DEF Send
    <3> QED
      BY <2>3, <3>1
  <2>5. ASSUME NEW v \in Wakers, Unlock(v)
        PROVE  Told(role[s])'
    <3>1. UNCHANGED role /\ w \in sending /\ s \in todo[w]
      BY <1>9, <2>0, <2>5 DEF Unlock, subVars
    <3> QED
      BY <2>3, <3>1
  <2> QED
    BY <1>4, <1>9, <2>0, <2>1, <2>2, <2>3, <2>4, <2>5
       DEF Next, Heartbeat, TakeEvent, TakeZero, TimeOut,
           Arrive, MakeRoleDir, OnRelay, Tick, Janitor, vars, subVars, wakeVars
<1>10. ASSUME NEW s \in SubIds, queue'[s] > 0 \/ waiter'[s] = "event"
       PROVE  Told(role[s])'
  <2>1. ASSUME NEW w \in Wakers, NEW t \in SubIds, Send(w, t)
        PROVE  Told(role[s])'
    <3>1. UNCHANGED <<role, waiter>> /\ Told(role[t])
      BY <1>5, <2>1 DEF Send
    <3>2. s # t => queue'[s] = queue[s]
      BY <2>1 DEF Send
    <3> QED
      BY <1>5, <1>6, <1>10, <3>1, <3>2
  <2>2. ASSUME NEW t \in SubIds, NEW r \in Roles, NEW x \in Timeouts, Subscribe(t, r, x)
        PROVE  Told(role[s])'
    <3>1. s # t
      BY <1>2, <1>10, <2>2 DEF Subscribe, ToldInv
    <3> QED
      BY <1>5, <1>6, <1>10, <2>2, <3>1 DEF Subscribe
  <2>3. ASSUME NEW t \in SubIds, TakeEvent(t)
        PROVE  Told(role[s])'
    BY <1>5, <1>6, <1>10, <2>3 DEF TakeEvent
  <2>4. CASE UNCHANGED role /\ (queue[s] > 0 \/ waiter[s] = "event")
    BY <1>5, <1>6, <2>4
  <2> QED
    BY <1>4, <1>10, <2>1, <2>2, <2>3, <2>4
       DEF Next, Heartbeat, TakeZero, TimeOut, Lock, Unlock,
           Arrive, MakeRoleDir, OnRelay, Tick, Janitor, vars, subVars, waitVars
<1> QED
  BY <1>7, <1>8, <1>9, <1>10

\* Every call that was pending when a file for its role came into a directory
\* the watcher found has an event once the watcher is quiet, or is forgotten;
\* and, test_wake apart, no other call is ever woken.
THEOREM RelaysWake == Spec => []RelayWakes
<1>1. RelayInv /\ [Next]_vars => RelayInv'
  BY IStep, OwedStep, ToldStep DEF RelayInv
<1>2. RelayInv => RelayWakes
  <2>1. ASSUME RelayInv, events = << >>, Quiet(Watcher), NEW s \in SubIds, NEW d \in Dirs,
               OnItsWay(s, d)
        PROVE  queue[s] > 0
    BY <2>1 DEF OnItsWay, In, Quiet
  <2>2. RelayInv => PendingAreWoken(Dirs \ LateDirs)
    BY <2>1 DEF PendingAreWoken, RelayInv, OwedInv, IInv, TypeOK, SubsOK
  <2>3. RelayInv => NobodyElseIsWoken
    BY DEF RelayInv, ToldInv, NobodyElseIsWoken
  <2> QED
    BY <2>2, <2>3 DEF RelayWakes
<1> QED
  BY <1>1, <1>2, RelayInit, PTL DEF Spec
=============================================================================
