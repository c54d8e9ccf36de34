-------------------------------- MODULE Main --------------------------------
(***************************************************************************)
(* What main starts: the life of the process (Daemon) and the hot reload   *)
(* of sync.json inside it (ConfigWatch).  A reload neither waits for nor   *)
(* changes what Daemon keeps, and a restart begins a reload anew; so a     *)
(* behaviour follows one of them, chosen at the start.                     *)
(***************************************************************************)
EXTENDS Daemon, ConfigWatch

VARIABLE followed

mainVars == <<followed, daemonVars, vars>>

\* Of the one not followed, one state will do.
MainInit ==
  /\ followed \in {"life", "config"}
  /\ DaemonInit /\ Init
  /\ IF followed = "life" THEN file = Off ELSE net = "uds"

Life(A)   == followed = "life" /\ A /\ UNCHANGED <<followed, vars>>
Config(A) == followed = "config" /\ A /\ UNCHANGED <<followed, daemonVars>>

MainNext == Life(DaemonNext) \/ Config(Next)

\* A process gets on, capture ends its parses, a timeout passes, and the
\* manager starts its daemon again; goroutines run and timers go off.
MainFairness ==
  /\ \A s \in Slots : WF_mainVars(Life(Step(s))) /\ WF_mainVars(Life(CaptureEnds(s)))
  /\ WF_mainVars(Life(Start(Kept)))
  /\ WF_mainVars(Config(LoadAtStart)) /\ WF_mainVars(Config(Watch)) /\ WF_mainVars(Config(Event))
  /\ \A k \in Callbacks : WF_mainVars(Config(Callback(k)))

MainSpec == MainInit /\ [][MainNext]_mainVars /\ MainFairness

---------------------------------------------------------------------------
\* When signals, kills and failures end, the manager's daemon serves at the path
\* for good, unless two met there or accepting has failed.
Reachable == <>[](followed = "life" => Reached)

\* "sync.json is hot-reloaded": once the file is left alone, the Syncer in force
\* has the configuration that the file now holds, and there is none if the file
\* is gone or broken, while the watch lasts.
ConfigReloaded == <>[](followed = "config" => main = "deaf" \/ cur = Loaded(file))

\* The same for the life of the daemon, which the code does not keep.
ConfigFollowed == <>[](followed = "config" => cur = Loaded(file))
=============================================================================
