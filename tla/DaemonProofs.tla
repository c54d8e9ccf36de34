---------------------------- MODULE DaemonProofs ----------------------------
(***************************************************************************)
(* Proofs about the life of eideticd, for any number of daemons started by *)
(* hand and every bound: the order in which a daemon closes, and what      *)
(* clients find of a daemon that nobody started another beside.            *)
(***************************************************************************)
EXTENDS Main, FiniteSetTheorems, TLAPS

\* The daemon in a slot.
Lives == [pc : {"off", "token", "unlink", "listen", "ready", "load", "serve", "shut",
                "drain", "close", "closed"},
          nr : Nat, bridge : BOOLEAN, stop : BOOLEAN, capture : {"off", "run", "done"},
          busy : Nat, bridgeBusy : Nat, late : BOOLEAN]

LivesOK == d \in [Slots -> Lives]

---------------------------------------------------------------------------
(* A number for a new daemon *)

InUse == {path, tokenFile, port, bridgeToken} \cup {d[t].nr : t \in Slots}

LEMMA SlotsFinite == IsFiniteSet(Slots) /\ Cardinality(Slots) \in Nat
<1>1. IsFiniteSet(ByHand) /\ Slots = ByHand \cup {Kept}
  BY DaemonAssumption DEF Slots
<1>2. IsFiniteSet(Slots)
  BY <1>1, FS_AddElement
<1> QED
  BY <1>2, FS_CardinalityType

LEMMA OneMore ==
  ASSUME NEW S, NEW x, NEW n \in Nat, IsFiniteSet(S), Cardinality(S) <= n
  PROVE  IsFiniteSet(S \cup {x}) /\ Cardinality(S \cup {x}) <= n + 1
<1>1. Cardinality(S) \in Nat
  BY FS_CardinalityType
<1>2. Cardinality(S \cup {x}) = IF x \in S THEN Cardinality(S) ELSE Cardinality(S) + 1
  BY FS_AddElement
<1>3. Cardinality(S \cup {x}) <= n + 1
  BY <1>1, <1>2
<1> QED
  BY <1>3, FS_AddElement

\* No more numbers are in use than there are slots and files.
LEMMA InUseFinite == IsFiniteSet(InUse) /\ Cardinality(InUse) <= Cardinality(Slots) + 4
<1> DEFINE nrs == {d[t].nr : t \in Slots}
           C == Cardinality(Slots)
<1>1. [t \in Slots |-> d[t].nr] \in Surjection(Slots, nrs)
  BY DEF Surjection
<1>2. IsFiniteSet(nrs) /\ Cardinality(nrs) <= C
  BY <1>1, SlotsFinite, FS_Surjection
<1>3. C \in Nat
  BY SlotsFinite
<1>4. InUse = (((nrs \cup {path}) \cup {tokenFile}) \cup {port}) \cup {bridgeToken}
  BY DEF InUse
<1> HIDE DEF nrs, C
<1> DEFINE one   == nrs \cup {path}
           two   == one \cup {tokenFile}
           three == two \cup {port}
           four  == three \cup {bridgeToken}
<1> HIDE DEF one, two, three, four
<1>5. IsFiniteSet(one) /\ Cardinality(one) <= C + 1
  BY <1>2, <1>3, OneMore DEF one
<1>6. IsFiniteSet(two) /\ Cardinality(two) <= (C + 1) + 1
  <2>1. C + 1 \in Nat
    BY <1>3
  <2> QED
    BY <2>1, <1>5, OneMore DEF two
<1>7. IsFiniteSet(three) /\ Cardinality(three) <= ((C + 1) + 1) + 1
  <2>1. (C + 1) + 1 \in Nat
    BY <1>3
  <2> QED
    BY <2>1, <1>6, OneMore DEF three
<1>8. IsFiniteSet(four) /\ Cardinality(four) <= (((C + 1) + 1) + 1) + 1
  <2>1. ((C + 1) + 1) + 1 \in Nat
    BY <1>3
  <2> QED
    BY <2>1, <1>7, OneMore DEF four
<1>9. (((C + 1) + 1) + 1) + 1 = C + 4
  BY <1>3
<1>10. InUse = four
  BY <1>4 DEF one, two, three, four
<1> QED
  BY <1>8, <1>9, <1>10 DEF C

\* A daemon that starts bears a number that nothing else bears.
LEMMA UnusedIsNew == Unused \in Nat \ {0} /\ Unused \notin InUse
<1> DEFINE C == Cardinality(Slots)
<1>1. C \in Nat
  BY SlotsFinite
<1>2. \E n \in 1..C + 5 : n \notin InUse
  <2>1. SUFFICES ASSUME 1..C + 5 \subseteq InUse
                 PROVE  FALSE
    OBVIOUS
  <2>2. Cardinality(1..C + 5) <= Cardinality(InUse)
    <3> HIDE DEF C
    <3> QED
      BY <2>1, InUseFinite, FS_Subset
  <2>3. Cardinality(1..C + 5) = C + 5
    BY <1>1, FS_Interval
  <2>4. Cardinality(InUse) \in Nat /\ Cardinality(InUse) <= C + 4
    BY InUseFinite, FS_CardinalityType
  <2> QED
    BY <1>1, <2>2, <2>3, <2>4
<1>3. Unused = CHOOSE n \in 1..C + 5 : n \notin InUse
  BY DEF Unused, InUse
<1>4. Unused \in 1..C + 5 /\ Unused \notin InUse
  BY <1>2, <1>3
<1> QED
  BY <1>1, <1>4

---------------------------------------------------------------------------
(* The invariant *)

\* Capture has ended before the store is closed, and the requests have, or the
\* timeout has passed, before main waits for capture.
ClosesInOrder(e) ==
  /\ e.pc \in {"close", "closed"} => e.capture = "done"
  /\ e.pc \in {"drain", "close", "closed"} => e.busy = 0 \/ e.late

\* What the files say of a daemon that is alone: its number is its own, and
\* each file has it from the step that writes it to the one that gives it up.
Owns(s) ==
  /\ d[s].nr # 0
  /\ d[s].pc # "token" => tokenFile = d[s].nr \/ tokenFile = Wizard
  /\ d[s].pc \in {"ready", "load", "serve"} => path = d[s].nr
  /\ port = d[s].nr => bridgeToken = d[s].nr

OnlyOne == \A s, t \in Slots : Alive(s) /\ Alive(t) => s = t

AloneInv == met \/ (OnlyOne /\ \A s \in Slots : Alive(s) => Owns(s))

LifeInv == LivesOK /\ AloneInv /\ \A s \in Slots : ClosesInOrder(d[s])

\* A step of the daemon in one slot leaves the others as they are.
LEMMA OneSlot ==
  ASSUME LifeInv, NEW s \in Slots, NEW e \in Lives, d' = [d EXCEPT ![s] = e],
         met' = met, Alive(s), ClosesInOrder(e), ~ met /\ e.pc # "off" => Owns(s)'
  PROVE  LifeInv'
<1>1. LivesOK' /\ d'[s] = e /\ \A t \in Slots \ {s} : d'[t] = d[t]
  BY DEF LifeInv, LivesOK
<1>2. \A t \in Slots : ClosesInOrder(d[t])'
  BY <1>1 DEF LifeInv, ClosesInOrder
<1>3. AloneInv'
  <2>1. SUFFICES ASSUME ~ met
                 PROVE  OnlyOne' /\ \A t \in Slots : Alive(t)' => Owns(t)'
    BY DEF AloneInv
  <2>2. \A t \in Slots : Alive(t) => t = s
    BY <2>1 DEF LifeInv, AloneInv, OnlyOne
  <2>3. \A t \in Slots : Alive(t)' => t = s
    BY <1>1, <2>2 DEF Alive
  <2>4. OnlyOne'
    BY <2>3 DEF OnlyOne
  <2>5. Alive(s)' => Owns(s)'
    BY <1>1, <2>1 DEF Alive
  <2> QED
    BY <2>3, <2>4, <2>5
<1> QED
  BY <1>1, <1>2, <1>3 DEF LifeInv

\* So does one that touches neither a file nor what the daemon is at.
LEMMA SamePlace ==
  ASSUME LifeInv, NEW s \in Slots, NEW e \in Lives, d' = [d EXCEPT ![s] = e],
         met' = met, UNCHANGED files, e.pc = d[s].pc, e.nr = d[s].nr, ClosesInOrder(e)
  PROVE  LifeInv'
<1>1. LivesOK' /\ d'[s] = e /\ \A t \in Slots \ {s} : d'[t] = d[t]
  BY DEF LifeInv, LivesOK
<1>2. \A t \in Slots : ClosesInOrder(d[t])'
  BY <1>1 DEF LifeInv, ClosesInOrder
<1>3. \A t \in Slots : d'[t].pc = d[t].pc /\ d'[t].nr = d[t].nr
  BY <1>1
<1>4. AloneInv'
  <2>1. \A t \in Slots : Alive(t)' <=> Alive(t)
    BY <1>3 DEF Alive
  <2>2. \A t \in Slots : Owns(t) => Owns(t)'
    BY <1>3 DEF Owns, files
  <2>3. OnlyOne => OnlyOne'
    BY <2>1 DEF OnlyOne
  <2> QED
    BY <2>1, <2>2, <2>3 DEF LifeInv, AloneInv
<1> QED
  BY <1>1, <1>2, <1>4 DEF LifeInv

LEMMA DeadOrder == NotRunning \in Lives /\ NotRunning.pc = "off" /\ ClosesInOrder(NotRunning)
BY DEF Lives, NotRunning, ClosesInOrder

LEMMA EndKeeps ==
  ASSUME LifeInv, NEW s \in Slots, Alive(s), d' = [d EXCEPT ![s] = NotRunning], met' = met
  PROVE  LifeInv'
BY DeadOrder, OneSlot

\* What LifeInv says of one slot.
LEMMA OfSlot ==
  ASSUME LifeInv, NEW s \in Slots
  PROVE  /\ d[s] \in Lives /\ ClosesInOrder(d[s])
         /\ ~ met /\ Alive(s) => Owns(s)
BY DEF LifeInv, LivesOK, AloneInv

\* A daemon starts: beside another, or alone with a number of its own.
LEMMA StartKeeps ==
  ASSUME LifeInv, NEW s \in Slots, Start(s)
  PROVE  LifeInv'
<1>1. PICK b \in BOOLEAN :
        d' = [d EXCEPT ![s] = [NotRunning EXCEPT !.pc = "token", !.nr = Unused, !.bridge = b]]
  BY DEF Start
<1> DEFINE e == [NotRunning EXCEPT !.pc = "token", !.nr = Unused, !.bridge = b]
<1>2. e.pc = "token" /\ e.nr = Unused /\ e \in Lives
  BY UnusedIsNew DEF NotRunning, Lives
<1>3. d' = [d EXCEPT ![s] = e]
  BY <1>1
<1> HIDE DEF e
<1>4. LivesOK' /\ d'[s] = e /\ \A t \in Slots \ {s} : d'[t] = d[t]
  BY <1>2, <1>3 DEF LifeInv, LivesOK
<1>5. \A t \in Slots : ClosesInOrder(d[t])'
  BY <1>2, <1>4 DEF LifeInv, ClosesInOrder
<1>6. AloneInv'
  <2>1. SUFFICES ASSUME ~ met'
                 PROVE  OnlyOne' /\ \A t \in Slots : Alive(t)' => Owns(t)'
    BY DEF AloneInv
  <2>2. \A t \in Slots : ~ Alive(t)
    BY <2>1 DEF Start
  <2>3. \A t \in Slots : Alive(t)' => t = s
    BY <1>4, <2>2 DEF Alive
  <2>4. OnlyOne'
    BY <2>3 DEF OnlyOne
  <2>5. Owns(s)'
    BY <1>2, <1>4, UnusedIsNew DEF Owns, InUse, Start, files
  <2> QED
    BY <2>3, <2>4, <2>5
<1> QED
  BY <1>4, <1>5, <1>6 DEF LifeInv

\* The end of a server that notes whether requests are left.
LEMMA DrainLate ==
  ASSUME NEW e \in Lives
  PROVE  LET f == [e EXCEPT !.pc = "drain", !.late = (e.busy > 0)]
         IN  f \in Lives /\ f.pc = "drain" /\ f.nr = e.nr /\ (f.busy = 0 \/ f.late)
<1>1. PICK b \in BOOLEAN : b <=> e.busy > 0
  OBVIOUS
<1>2. (e.busy > 0) = b
  BY <1>1
<1> DEFINE f == [e EXCEPT !.pc = "drain", !.late = b]
<1>3. f \in Lives /\ f.pc = "drain" /\ f.nr = e.nr /\ f.busy = e.busy /\ f.late = b
  BY DEF Lives
<1>4. f.busy = 0 \/ b
  BY <1>1, <1>3 DEF Lives
<1> QED
  BY <1>2, <1>3, <1>4

LEMMA StepKeeps ==
  ASSUME LifeInv, NEW s \in Slots, Step(s)
  PROVE  LifeInv'
<1> USE DEF files, counts, Goto, Ends
<1>0. /\ d[s] \in Lives /\ ClosesInOrder(d[s])
      /\ ~ met /\ Alive(s) => Owns(s)
  BY OfSlot
<1>1. CASE WriteToken(s)
  <2> DEFINE e == [d[s] EXCEPT !.pc = "unlink"]
  <2>1. e \in Lives /\ e.pc = "unlink" /\ e.nr = d[s].nr
    BY <1>0 DEF Lives
  <2>2. d' = [d EXCEPT ![s] = e] /\ d'[s] = e /\ Alive(s)
    BY <1>1, <1>0 DEF WriteToken, Alive, LifeInv, LivesOK
  <2>3. ~ met => Owns(s)'
    BY <1>0, <1>1, <2>1, <2>2 DEF WriteToken, Owns
  <2> QED
    BY <1>1, <2>1, <2>2, <2>3, OneSlot DEF WriteToken, ClosesInOrder
<1>2. CASE RemoveStale(s)
  <2> DEFINE e == [d[s] EXCEPT !.pc = "listen"]
  <2>1. e \in Lives /\ e.pc = "listen" /\ e.nr = d[s].nr
    BY <1>0 DEF Lives
  <2>2. d' = [d EXCEPT ![s] = e] /\ d'[s] = e /\ Alive(s)
    BY <1>2, <1>0 DEF RemoveStale, Alive, LifeInv, LivesOK
  <2>3. ~ met => Owns(s)'
    BY <1>0, <1>2, <2>1, <2>2 DEF RemoveStale, Owns
  <2> QED
    BY <1>2, <2>1, <2>2, <2>3, OneSlot DEF RemoveStale, ClosesInOrder
<1>3. CASE Listen(s)
  <2>1. Alive(s) /\ met' = met /\ d[s].pc = "listen"
    BY <1>3 DEF Listen, Alive
  <2>2. CASE path = 0
    <3> DEFINE e == [d[s] EXCEPT !.pc = "ready"]
    <3>1. e \in Lives /\ e.pc = "ready" /\ e.nr = d[s].nr
      BY <1>0 DEF Lives
    <3>2. d' = [d EXCEPT ![s] = e] /\ d'[s] = e
      BY <1>3, <2>2 DEF Listen, LifeInv, LivesOK
    <3>3. ~ met => Owns(s)'
      BY <1>0, <1>3, <2>1, <2>2, <3>1, <3>2 DEF Listen, Owns
    <3> QED
      BY <2>1, <3>1, <3>2, <3>3, OneSlot DEF ClosesInOrder
  <2>3. CASE path # 0
    BY <1>3, <2>1, <2>3, EndKeeps DEF Listen
  <2> QED
    BY <2>2, <2>3
<1>4. CASE StartBridge(s)
  <2>1. Alive(s) /\ met' = met /\ d[s].pc = "ready"
    BY <1>4 DEF StartBridge, Alive
  <2>2. CASE d[s].bridge /\ port # 0
    BY <1>4, <2>1, <2>2, EndKeeps DEF StartBridge
  <2>3. CASE ~ (d[s].bridge /\ port # 0)
    <3> DEFINE e == [d[s] EXCEPT !.pc = "load"]
    <3>1. e \in Lives /\ e.pc = "load" /\ e.nr = d[s].nr
      BY <1>0 DEF Lives
    <3>2. d' = [d EXCEPT ![s] = e] /\ d'[s] = e
      BY <1>4, <2>3 DEF StartBridge, LifeInv, LivesOK
    <3>3. \/ UNCHANGED files
          \/ port' = d[s].nr /\ bridgeToken' = d[s].nr /\ UNCHANGED <<path, tokenFile>>
      BY <1>4, <2>3 DEF StartBridge
    <3>4. ~ met => Owns(s)'
      BY <1>0, <2>1, <3>1, <3>2, <3>3 DEF Owns
    <3> QED
      BY <2>1, <3>1, <3>2, <3>4, OneSlot DEF ClosesInOrder
  <2> QED
    BY <2>2, <2>3
<1>5. CASE StartCapture(s)
  <2> DEFINE e == [d[s] EXCEPT !.pc = "serve", !.capture = "run"]
  <2>1. e \in Lives /\ e.pc = "serve" /\ e.nr = d[s].nr
    BY <1>0 DEF Lives
  <2>2. d' = [d EXCEPT ![s] = e] /\ d'[s] = e /\ Alive(s)
    BY <1>5, <1>0 DEF StartCapture, Alive, LifeInv, LivesOK
  <2>3. ~ met => Owns(s)'
    BY <1>0, <1>5, <2>1, <2>2 DEF StartCapture, Owns
  <2> QED
    BY <1>5, <2>1, <2>2, <2>3, OneSlot DEF StartCapture, ClosesInOrder
<1>6. CASE Shutdown(s)
  <2> DEFINE e == [d[s] EXCEPT !.pc = "shut"]
  <2>1. e \in Lives /\ e.pc = "shut" /\ e.nr = d[s].nr
    BY <1>0 DEF Lives
  <2>2. d' = [d EXCEPT ![s] = e] /\ d'[s] = e /\ Alive(s)
    BY <1>6, <1>0 DEF Shutdown, Alive, LifeInv, LivesOK
  <2>3. ~ met => Owns(s)'
    BY <1>0, <1>6, <2>1, <2>2 DEF Shutdown, Owns
  <2> QED
    BY <1>6, <2>1, <2>2, <2>3, OneSlot DEF Shutdown, ClosesInOrder
<1>7. CASE ShutdownEnds(s)
  <2> DEFINE e == [d[s] EXCEPT !.pc = "drain", !.late = (d[s].busy > 0)]
  <2>1. /\ e \in Lives /\ e.pc = "drain" /\ e.nr = d[s].nr
        /\ e.busy = 0 \/ e.late
    BY <1>0, DrainLate
  <2>2. d' = [d EXCEPT ![s] = e] /\ d'[s] = e /\ Alive(s)
    BY <1>7, <1>0 DEF ShutdownEnds, Alive, LifeInv, LivesOK
  <2>3. ~ met => Owns(s)'
    BY <1>0, <1>7, <2>1, <2>2 DEF ShutdownEnds, Owns
  <2> QED
    BY <1>7, <2>1, <2>2, <2>3, OneSlot DEF ShutdownEnds, ClosesInOrder
<1>8. CASE CaptureEnds(s)
  <2> DEFINE e == [d[s] EXCEPT !.capture = "done"]
  <2>1. /\ e \in Lives /\ e.pc = d[s].pc /\ e.nr = d[s].nr
        /\ e.busy = d[s].busy /\ e.late = d[s].late /\ e.capture = "done"
    BY <1>0 DEF Lives
  <2>2. ClosesInOrder(e)
    BY <1>0, <2>1 DEF ClosesInOrder
  <2> QED
    BY <1>8, <2>1, <2>2, SamePlace DEF CaptureEnds
<1>9. CASE Drained(s)
  <2> DEFINE e == [d[s] EXCEPT !.pc = "close"]
  <2>1. /\ e \in Lives /\ e.pc = "close" /\ e.nr = d[s].nr
        /\ e.busy = d[s].busy /\ e.late = d[s].late /\ e.capture = d[s].capture
    BY <1>0 DEF Lives
  <2>2. d' = [d EXCEPT ![s] = e] /\ d'[s] = e /\ Alive(s)
    BY <1>9, <1>0 DEF Drained, Alive, LifeInv, LivesOK
  <2>3. ~ met => Owns(s)'
    BY <1>0, <1>9, <2>1, <2>2 DEF Drained, Owns
  <2>4. ClosesInOrder(e)
    BY <1>0, <1>9, <2>1 DEF Drained, ClosesInOrder
  <2> QED
    BY <1>9, <2>1, <2>2, <2>3, <2>4, OneSlot DEF Drained
<1>10. CASE CloseServers(s)
  <2> DEFINE e == [d[s] EXCEPT !.pc = "closed"]
  <2>1. /\ e \in Lives /\ e.pc = "closed" /\ e.nr = d[s].nr
        /\ e.busy = d[s].busy /\ e.late = d[s].late /\ e.capture = d[s].capture
    BY <1>0 DEF Lives
  <2>2. d' = [d EXCEPT ![s] = e] /\ d'[s] = e /\ Alive(s)
    BY <1>10, <1>0 DEF CloseServers, Alive, LifeInv, LivesOK
  <2>3. ~ met => Owns(s)'
    BY <1>0, <1>10, <2>1, <2>2 DEF CloseServers, Owns
  <2>4. ClosesInOrder(e)
    BY <1>0, <1>10, <2>1 DEF CloseServers, ClosesInOrder
  <2> QED
    BY <1>10, <2>1, <2>2, <2>3, <2>4, OneSlot DEF CloseServers
<1>11. CASE Exit(s)
  BY <1>11, EndKeeps DEF Exit, Alive
<1> QED
  BY <1>1, <1>2, <1>3, <1>4, <1>5, <1>6, <1>7, <1>8, <1>9, <1>10, <1>11 DEF Step

LEMMA ClientKeeps ==
  ASSUME LifeInv, NEW s \in Slots, Client(s)
  PROVE  LifeInv'
<1> USE DEF counts
<1>0. d[s] \in Lives /\ ClosesInOrder(d[s])
  BY OfSlot
<1>1. CASE Request(s)
  <2> DEFINE e == [d[s] EXCEPT !.busy = @ + 1]
  <2>1. e \in Lives /\ e.pc = d[s].pc /\ e.nr = d[s].nr
    BY <1>0 DEF Lives
  <2> QED
    BY <1>1, <2>1, SamePlace DEF Request, ClosesInOrder
<1>2. CASE Answer(s)
  <2> DEFINE e == [d[s] EXCEPT !.busy = @ - 1]
  <2>1. /\ e \in Lives /\ e.pc = d[s].pc /\ e.nr = d[s].nr
        /\ e.late = d[s].late /\ e.capture = d[s].capture
    BY <1>0, <1>2 DEF Lives, Answer
  <2>2. ClosesInOrder(e)
    BY <1>0, <1>2, <2>1 DEF Answer, ClosesInOrder
  <2> QED
    BY <1>2, <2>1, <2>2, SamePlace DEF Answer
<1>3. CASE BridgeRequest(s)
  <2> DEFINE e == [d[s] EXCEPT !.bridgeBusy = @ + 1]
  <2>1. /\ e \in Lives /\ e.pc = d[s].pc /\ e.nr = d[s].nr
        /\ e.late = d[s].late /\ e.capture = d[s].capture /\ e.busy = d[s].busy
    BY <1>0 DEF Lives
  <2>2. ClosesInOrder(e)
    BY <1>0, <2>1 DEF ClosesInOrder
  <2> QED
    BY <1>3, <2>1, <2>2, SamePlace DEF BridgeRequest
<1>4. CASE BridgeAnswer(s)
  <2> DEFINE e == [d[s] EXCEPT !.bridgeBusy = @ - 1]
  <2>1. /\ e \in Lives /\ e.pc = d[s].pc /\ e.nr = d[s].nr
        /\ e.late = d[s].late /\ e.capture = d[s].capture /\ e.busy = d[s].busy
    BY <1>0, <1>4 DEF Lives, BridgeAnswer
  <2>2. ClosesInOrder(e)
    BY <1>0, <2>1 DEF ClosesInOrder
  <2> QED
    BY <1>4, <2>1, <2>2, SamePlace DEF BridgeAnswer
<1> QED
  BY <1>1, <1>2, <1>3, <1>4 DEF Client

LEMMA FailureKeeps ==
  ASSUME LifeInv, NEW s \in Slots, Failure(s)
  PROVE  LifeInv'
<1> USE DEF Fault
<1>0. /\ d[s] \in Lives /\ ClosesInOrder(d[s])
      /\ ~ met /\ Alive(s) => Owns(s)
  BY OfSlot
<1>1. CASE LoadStateFails(s) \/ Kill(s)
  BY <1>1, EndKeeps DEF LoadStateFails, Kill, Ends, Alive
<1>2. CASE Terminate(s)
  <2> DEFINE e == [d[s] EXCEPT !.stop = TRUE]
  <2>1. /\ e \in Lives /\ e.pc = d[s].pc /\ e.nr = d[s].nr
        /\ e.late = d[s].late /\ e.capture = d[s].capture /\ e.busy = d[s].busy
    BY <1>0 DEF Lives
  <2>2. ClosesInOrder(e)
    BY <1>0, <2>1 DEF ClosesInOrder
  <2> QED
    BY <1>2, <2>1, <2>2, SamePlace DEF Terminate
<1>3. CASE ServeFails(s)
  <2> DEFINE e == [d[s] EXCEPT !.pc = "drain", !.late = (d[s].busy > 0)]
  <2>1. /\ e \in Lives /\ e.pc = "drain" /\ e.nr = d[s].nr
        /\ e.busy = 0 \/ e.late
    BY <1>0, DrainLate
  <2>2. d' = [d EXCEPT ![s] = e] /\ d'[s] = e /\ Alive(s)
    BY <1>3, <1>0 DEF ServeFails, Alive, LifeInv, LivesOK
  <2>3. ~ met => Owns(s)'
    BY <1>0, <1>3, <2>1, <2>2 DEF ServeFails, Owns
  <2> QED
    BY <1>3, <2>1, <2>2, <2>3, OneSlot DEF ServeFails, ClosesInOrder
<1> QED
  BY <1>1, <1>2, <1>3 DEF Failure

\* -init overwrites auth-token with its own, which Published excuses.
LEMMA InitTokenKeeps ==
  ASSUME LifeInv, InitToken
  PROVE  LifeInv'
BY DEF LifeInv, InitToken, Fault, LivesOK, AloneInv, OnlyOne, Alive, Owns, ClosesInOrder

LEMMA LifeInit == MainInit => LifeInv
<1> SUFFICES ASSUME DaemonInit PROVE LifeInv
  BY DEF MainInit
<1>1. \A s \in Slots : d[s] = NotRunning
  BY DEF DaemonInit
<1> QED
  BY <1>1, DeadOrder
     DEF DaemonInit, LifeInv, LivesOK, AloneInv, OnlyOne, Alive

LEMMA LifeStep ==
  ASSUME LifeInv, [MainNext]_mainVars
  PROVE  LifeInv'
<1>1. CASE UNCHANGED daemonVars
  BY <1>1 DEF daemonVars, LifeInv, LivesOK, AloneInv, OnlyOne, Alive, Owns, ClosesInOrder
<1>2. CASE DaemonNext
  BY <1>2, StartKeeps, StepKeeps, ClientKeeps, FailureKeeps, InitTokenKeeps DEF DaemonNext
<1> QED
  BY <1>1, <1>2 DEF MainNext, Life, Config, mainVars

\* A daemon closes the store only after capture has drained, and after the
\* requests of its primary server or that server's timeout, however it is told
\* to stop, also when accepting has failed (main.go, the order of its defers).
THEOREM StoreClosesAfterAll == MainSpec => []StoreClosesLast
<1>1. LifeInv => StoreClosesLast
  BY DEF LifeInv, ClosesInOrder, StoreClosesLast
<1> QED
  BY LifeInit, LifeStep, <1>1, PTL DEF MainSpec

\* As long as nobody starts a daemon beside another, the path and the tokens
\* on disk lead to the daemon that serves, through crashes, stale sockets and
\* restarts.
THEOREM ClientsFindIt == MainSpec => []Published
<1>1. LifeInv => Published
  BY DEF LifeInv, AloneInv, Owns, Published, Alone, Serving, Admits, Alive
<1> QED
  BY LifeInit, LifeStep, <1>1, PTL DEF MainSpec
=============================================================================
