------------------------------- MODULE Daemon -------------------------------
(***************************************************************************)
(* The life of eideticd (cmd/eideticd/main.go): how it takes its socket or *)
(* port, publishes its token, serves (internal/api/server.go), stops and   *)
(* is started again by the service manager that the installers set up, and *)
(* what a daemon that a user starts by hand beside it does to it.          *)
(*                                                                         *)
(* A daemon has a number that nothing else bears when it starts.  It       *)
(* stands for the token it generates and for the listener it binds.        *)
(* Authentication is on (-auth), as it always is on the bridge's port.     *)
(***************************************************************************)
EXTENDS Integers, FiniteSets

CONSTANTS
  Kept,       \* the daemon of the service manager: KeepAlive, Restart=always
  ByHand,     \* daemons that users start
  Nets,       \* where it listens: "uds" and "tcp"
  MaxByHand,  \* bounds: daemons started by hand,
  MaxFaults,  \*   signals, kills and failures,
  MaxBusy     \*   requests under way on a server

Slots == {Kept} \cup ByHand

ASSUME DaemonAssumption ==
  /\ Kept \notin ByHand /\ IsFiniteSet(ByHand)
  /\ Nets \subseteq {"uds", "tcp"}
  /\ MaxByHand \in Nat /\ MaxFaults \in Nat /\ MaxBusy \in Nat

VARIABLES
  net,
  d,          \* [slot -> the daemon that runs in it]
  path,       \* the daemon whose socket file, or port, is there; 0: none
  tokenFile,  \* the daemon that wrote auth-token; Wizard: init did
  port,       \* the daemon that holds the bridge's port
  bridgeToken,\* the daemon that wrote bridge-token
  byHand, faults,
  met         \* the daemon that started last started beside another

daemonVars == <<net, d, path, tokenFile, port, bridgeToken, byHand, faults, met>>

Wizard == -1

NotRunning == [pc |-> "off", nr |-> 0, bridge |-> FALSE, stop |-> FALSE, capture |-> "off",
               busy |-> 0, bridgeBusy |-> 0, late |-> FALSE]

DaemonInit ==
  /\ net \in Nets
  /\ d = [s \in Slots |-> NotRunning]
  /\ path = 0 /\ tokenFile = 0 /\ port = 0 /\ bridgeToken = 0
  /\ byHand = 0 /\ faults = 0 /\ met = FALSE

Alive(s) == d[s].pc # "off"

Goto(s, pc) == d' = [d EXCEPT ![s].pc = pc]

files == <<path, tokenFile, port, bridgeToken>>
counts == <<net, byHand, faults, met>>

\* The kernel takes ports back from a process that ends, and leaves its socket
\* file.
Ends(s) ==
  /\ d' = [d EXCEPT ![s] = NotRunning]
  /\ path' = IF net = "tcp" /\ path = d[s].nr THEN 0 ELSE path
  /\ port' = IF port = d[s].nr THEN 0 ELSE port
  /\ UNCHANGED <<tokenFile, bridgeToken>>

Fault == faults < MaxFaults /\ faults' = faults + 1 /\ UNCHANGED <<net, byHand, met>>

(***************************************************************************)
(* Start.                                                                  *)
(***************************************************************************)
Unused == CHOOSE n \in 1..Cardinality(Slots) + 5 :
            n \notin {path, tokenFile, port, bridgeToken} \cup {d[t].nr : t \in Slots}

\* -bridge or not; the store is opened.
Start(s) ==
  /\ ~ Alive(s)
  /\ s \in ByHand => byHand < MaxByHand
  /\ byHand' = IF s \in ByHand THEN byHand + 1 ELSE byHand
  /\ \E b \in BOOLEAN :
       d' = [d EXCEPT ![s] = [NotRunning EXCEPT !.pc = "token", !.nr = Unused, !.bridge = b]]
  /\ met' = \E t \in Slots : Alive(t)
  /\ UNCHANGED <<net, files, faults>>

\* A variant for comparison: a token that is there is kept.
WriteTokenOnce(s) ==
  /\ d[s].pc = "token"
  /\ tokenFile' = IF tokenFile = 0 THEN d[s].nr ELSE tokenFile
  /\ Goto(s, "unlink")
  /\ UNCHANGED <<path, port, bridgeToken, counts>>

\* auth.WriteFile
WriteToken(s) ==
  /\ d[s].pc = "token"
  /\ tokenFile' = d[s].nr
  /\ Goto(s, "unlink")
  /\ UNCHANGED <<path, port, bridgeToken, counts>>

\* A variant for comparison: a socket file is left where it is.
RemoveNothing(s) ==
  /\ d[s].pc = "unlink"
  /\ Goto(s, "listen")
  /\ UNCHANGED <<files, counts>>

\* api.New removes a socket file from a crash, or from a daemon that runs.
RemoveStale(s) ==
  /\ d[s].pc = "unlink"
  /\ path' = IF net = "uds" THEN 0 ELSE path
  /\ Goto(s, "listen")
  /\ UNCHANGED <<tokenFile, port, bridgeToken, counts>>

\* A path or port that is in use ends the daemon: log.Fatalf runs no defer.
Listen(s) ==
  /\ d[s].pc = "listen"
  /\ IF path = 0
       THEN path' = d[s].nr /\ Goto(s, "ready") /\ UNCHANGED <<tokenFile, port, bridgeToken>>
       ELSE Ends(s)
  /\ UNCHANGED counts

\* From here SIGTERM is caught.  The bridge's token, listener and server.
StartBridge(s) ==
  /\ d[s].pc = "ready"
  /\ IF ~ d[s].bridge THEN Goto(s, "load") /\ UNCHANGED files
     ELSE IF port = 0
       THEN /\ port' = d[s].nr /\ bridgeToken' = d[s].nr
            /\ Goto(s, "load")
            /\ UNCHANGED <<path, tokenFile>>
       ELSE /\ d' = [d EXCEPT ![s] = NotRunning]
            /\ bridgeToken' = d[s].nr
            /\ path' = IF net = "tcp" THEN 0 ELSE path
            /\ UNCHANGED <<tokenFile, port>>
  /\ UNCHANGED counts

StartCapture(s) ==
  /\ d[s].pc = "load"
  /\ d' = [d EXCEPT ![s].pc = "serve", ![s].capture = "run"]
  /\ UNCHANGED <<files, counts>>

LoadStateFails(s) == d[s].pc = "load" /\ Ends(s) /\ Fault

(***************************************************************************)
(* Requests: to the primary server, and to the bridge.                     *)
(***************************************************************************)
\* Token.Middleware and Validate.
Admits(s, token) == token = d[s].nr

\* A client takes the token from the file.
Request(s) ==
  /\ d[s].pc = "serve" /\ path = d[s].nr /\ d[s].busy < MaxBusy
  /\ Admits(s, tokenFile)
  /\ d' = [d EXCEPT ![s].busy = @ + 1]
  /\ UNCHANGED <<files, counts>>

Answer(s) ==
  /\ d[s].busy > 0
  /\ d' = [d EXCEPT ![s].busy = @ - 1]
  /\ UNCHANGED <<files, counts>>

BridgeRequest(s) ==
  /\ d[s].pc \in {"load", "serve"} /\ port = d[s].nr /\ ~ d[s].stop /\ d[s].bridgeBusy < MaxBusy
  /\ Admits(s, bridgeToken)
  /\ d' = [d EXCEPT ![s].bridgeBusy = @ + 1]
  /\ UNCHANGED <<files, counts>>

BridgeAnswer(s) ==
  /\ d[s].bridgeBusy > 0
  /\ d' = [d EXCEPT ![s].bridgeBusy = @ - 1]
  /\ UNCHANGED <<files, counts>>

(***************************************************************************)
(* Stop.                                                                   *)
(***************************************************************************)
Caught(s) == d[s].pc \notin {"off", "token", "unlink", "listen"}

Terminate(s) ==
  /\ Caught(s) /\ ~ d[s].stop
  /\ d' = [d EXCEPT ![s].stop = TRUE]
  /\ UNCHANGED files
  /\ Fault

\* SIGKILL, a power cut, a panic; SIGTERM before NotifyContext.
Kill(s) == Alive(s) /\ Ends(s) /\ Fault

\* Closing a Unix listener unlinks its path, whoever's the file there is.
CloseListener(s) == path' = IF net = "uds" \/ path = d[s].nr THEN 0 ELSE path

\* Serve sees the context's end: Shutdown closes the listener, ...
Shutdown(s) ==
  /\ d[s].pc = "serve" /\ d[s].stop
  /\ CloseListener(s)
  /\ Goto(s, "shut")
  /\ UNCHANGED <<tokenFile, port, bridgeToken, counts>>

\* A variant for comparison: it waits for the requests for ever.
ShutdownEndsDrained(s) ==
  /\ d[s].pc = "shut" /\ d[s].busy = 0
  /\ d' = [d EXCEPT ![s].pc = "drain"]
  /\ UNCHANGED <<files, counts>>

\* ... and waits for its requests, or for its timeout.
ShutdownEnds(s) ==
  /\ d[s].pc = "shut"
  /\ d' = [d EXCEPT ![s].pc = "drain", ![s].late = (d[s].busy > 0)]
  /\ UNCHANGED <<files, counts>>

\* Accept fails: the listener is closed, no Shutdown waits for the requests, and
\* main waits for capture, which goes on.
ServeFails(s) ==
  /\ d[s].pc = "serve" /\ ~ d[s].stop
  /\ CloseListener(s)
  /\ d' = [d EXCEPT ![s].pc = "drain", ![s].late = (d[s].busy > 0)]
  /\ UNCHANGED <<tokenFile, port, bridgeToken>>
  /\ Fault

\* The watcher's Run returns when its parses have.
CaptureEnds(s) ==
  /\ d[s].stop /\ d[s].capture = "run"
  /\ d' = [d EXCEPT ![s].capture = "done"]
  /\ UNCHANGED <<files, counts>>

\* A variant for comparison: main does not wait for capture.
DrainNot(s) ==
  /\ d[s].pc = "drain"
  /\ Goto(s, "close")
  /\ UNCHANGED <<files, counts>>

\* <-captureDone
Drained(s) ==
  /\ d[s].pc = "drain" /\ d[s].capture = "done"
  /\ Goto(s, "close")
  /\ UNCHANGED <<files, counts>>

\* The deferred bridgeSrv.Close and srv.Close, which unlinks the path again.
CloseServers(s) ==
  /\ d[s].pc = "close"
  /\ port' = IF port = d[s].nr THEN 0 ELSE port
  /\ path' = IF net = "uds" THEN 0 ELSE path
  /\ Goto(s, "closed")
  /\ UNCHANGED <<tokenFile, bridgeToken, counts>>

\* The deferred s.Close has run; the process ends.
Exit(s) == d[s].pc = "closed" /\ Ends(s) /\ UNCHANGED counts

\* eideticd -init, which offers to write a token of its own.
InitToken ==
  /\ tokenFile # Wizard
  /\ tokenFile' = Wizard
  /\ UNCHANGED <<d, path, port, bridgeToken>>
  /\ Fault

Step(s) ==
  \/ WriteToken(s) \/ RemoveStale(s) \/ Listen(s) \/ StartBridge(s) \/ StartCapture(s)
  \/ Shutdown(s) \/ ShutdownEnds(s) \/ CaptureEnds(s) \/ Drained(s) \/ CloseServers(s) \/ Exit(s)

Client(s) == Request(s) \/ Answer(s) \/ BridgeRequest(s) \/ BridgeAnswer(s)

Failure(s) == LoadStateFails(s) \/ Terminate(s) \/ Kill(s) \/ ServeFails(s)

DaemonNext ==
  \/ \E s \in Slots : Start(s) \/ Step(s) \/ Client(s) \/ Failure(s)
  \/ InitToken

(***************************************************************************)
(* Properties.                                                             *)
(***************************************************************************)
Serving(s) == d[s].pc = "serve" /\ ~ d[s].stop

Alone == ~ met

\* What a client finds leads to the daemon that serves: the socket or port is
\* its own, and auth-token, unless -init has written it, and bridge-token are
\* admitted; through crashes, stale sockets and restarts, as long as nobody
\* starts a daemon beside another.
Published ==
  Alone => \A s \in Slots : Serving(s) =>
    /\ path = d[s].nr
    /\ tokenFile = Wizard \/ Admits(s, tokenFile)
    /\ port = d[s].nr => Admits(s, bridgeToken)

\* "store closes only after capture drains", also when accepting has failed, and
\* after the requests of the primary server, up to its timeout.
StoreClosesLast ==
  \A s \in Slots : d[s].pc = "closed" => d[s].capture = "done" /\ (d[s].busy = 0 \/ d[s].late)

\* A daemon that has been told to stop ends, whatever its clients do.
StopEnds == \A s \in Slots : d[s].stop ~> ~ Alive(s)

\* Deaf: it runs and captures, and no longer listens.
Deaf(s) == d[s].pc = "drain" /\ ~ d[s].stop

\* The manager's daemon serves at the path, unless two met there or accepting has failed.
Reached == met \/ Deaf(Kept) \/ (Serving(Kept) /\ path = d[Kept].nr)

\* What the code does not keep.  "Clean up stale socket file from a prior crashed
\* run": a daemon started beside another takes its socket away.
SocketKept == \A s \in Slots : Serving(s) => path = d[s].nr

\* "Clients read the token file + send as Authorization": a daemon that fails to
\* bind has overwritten the token of the one that runs, and so does -init.
TokenKept == \A s \in Slots : Serving(s) /\ path = d[s].nr => Admits(s, tokenFile)

\* "drain any started request up to timeout": nothing waits for the bridge's
\* server.
BridgeDrains == \A s \in Slots : d[s].pc = "closed" => d[s].bridgeBusy = 0

\* "serve errors ... preserving the invariant: store closes only after capture
\* drains": capture is not told to, and the process neither serves nor ends.
DeafEnds == \A s \in Slots : Deaf(s) ~> ~ Deaf(s)
=============================================================================
