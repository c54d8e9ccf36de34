------------------------------ MODULE Clients ------------------------------
(***************************************************************************)
(* The clients of one store: readers of the HTTP API (Reads), questions to *)
(* its cache (AskCache), a pass of eideticd-compliance (Retention) and the *)
(* terminal viewer (Browse), all beside the store's writers.  They meet in *)
(* the store only, where Reads has the purges of a pass among its writers, *)
(* AskCache has inserts and Browse takes any answer; so a behaviour        *)
(* follows one of them, chosen at the start.                               *)
(***************************************************************************)
EXTENDS Retention, AskCache, Browse

VARIABLE client

clientVars == <<client, vars, passVars, askVars, browseVars>>

ClientsInit ==
  /\ client \in {"reader", "question", "pass", "viewer"}
  /\ Init /\ PassInit /\ AskInit /\ BrowseInit
  /\ client # "viewer" => length = 0 /\ ~ failing

Reader   == client = "reader" /\ Next /\ UNCHANGED <<client, passVars, askVars, browseVars>>
Question == client = "question" /\ AskNext /\ UNCHANGED <<client, vars, passVars, browseVars>>
Pass     == client = "pass" /\ PassNext /\ UNCHANGED <<client, request, kept, askVars, browseVars>>
Viewer   == client = "viewer" /\ BrowseNext /\ UNCHANGED <<client, vars, passVars, askVars>>

ClientsNext == Reader \/ Question \/ Pass \/ Viewer

ClientsSpec == ClientsInit /\ [][ClientsNext]_clientVars
=============================================================================
