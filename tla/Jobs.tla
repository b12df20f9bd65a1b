-------------------------------- MODULE Jobs --------------------------------
(* What jobs.service.ts runs, checked in one run: the connectivity check with   *)
(* its alerts, the sync of the client map, and the session table it feeds.  The  *)
(* three share no state of the models, so that only one of them moves at a time: *)
(* `part` says which, and the others rest as in a service without routers.      *)
EXTENDS DownAlerts, ClientMap, MCSessionTable

VARIABLE part

jobsVars == <<part, vars, allMapVars, sessionVars>>

JobsInit ==
    /\ SessionInit /\ ClientMapInit /\ Init
    /\ part \in {"alerts", "map", "sessions"}
    /\ part # "alerts" => Enabled = {}

JobsNext ==
    /\ \/ part = "alerts" /\ Next /\ UNCHANGED <<allMapVars, sessionVars>>
       \/ part = "map" /\ ClientMapNext /\ UNCHANGED <<vars, sessionVars>>
       \/ part = "sessions" /\ SessionNext /\ UNCHANGED <<vars, allMapVars>>
    /\ UNCHANGED part

JobsSpec == JobsInit /\ [][JobsNext]_jobsVars /\ Fairness /\ ClientMapFairness
=============================================================================
