------------------------------ MODULE ClientMap ------------------------------
(* The client map: every 30 seconds syncPppSessions (jobs.service.ts) asks each *)
(* router who is behind it, over HTTP and, if that yields nothing, in a session *)
(* with its API (RouterApi), and files the rows under the router.  One run at a *)
(* time, one router after the other, while routers are added and removed.       *)
EXTENDS RouterApi, FiniteSets

CONSTANTS MapRouters,   \* routers
          NoMapRouter,  \* none of them
          HttpPorts, ApiPorts   \* how many ports are tried over HTTP, and with the API

ASSUME ClientMapAssumption ==
    /\ NoMapRouter \notin MapRouters
    /\ {HttpPorts, ApiPorts} \subseteq Nat \ {0}

VARIABLES
    syncing,    \* the flag that keeps runs apart
    sync,       \* the run: its step, the router it is at, which port it tries
    listed      \* the routers it has yet to come to

clientMapVars == <<syncing, sync, listed>>
allMapVars == <<clientMapVars, routerApiVars>>

Off == [step |-> "off", router |-> NoMapRouter, port |-> 1]
At(step, port) == sync' = [sync EXCEPT !.step = step, !.port = port]
RunEnds == syncing' = FALSE /\ sync' = Off /\ listed' = {}
RouterDone == sync' = [Off EXCEPT !.step = "next"]

ClientMapInit ==
    /\ syncing = FALSE /\ sync = Off /\ listed = {}
    /\ RouterApiInit

(* A tick of the schedule, or the start of the process.                        *)
StartSync ==
    /\ ~syncing
    /\ syncing' = TRUE
    /\ sync' = [Off EXCEPT !.step = "list"]
    /\ UNCHANGED <<listed, routerApiVars>>

(* The routers that are enabled at that time and the ports, or a query fails.  *)
ListRouters ==
    /\ sync.step = "list"
    /\ \/ /\ listed' \in SUBSET MapRouters \ {{}}
          /\ At("next", 1)
          /\ UNCHANGED syncing
       \/ RunEnds
    /\ UNCHANGED routerApiVars

(* A router of which no user and password are saved is passed over.            *)
TakeRouter(r) ==
    /\ sync.step = "next" /\ r \in listed
    /\ listed' = listed \ {r}
    /\ sync' \in {sync, [step |-> "check", router |-> r, port |-> 1]}
    /\ UNCHANGED <<syncing, routerApiVars>>

FinishSync ==
    /\ sync.step = "next" /\ listed = {}
    /\ RunEnds
    /\ UNCHANGED routerApiVars

(* assertSafeProbeTarget: an address that does not resolve, or is not allowed,  *)
(* throws past fetchPppActive, and ends the run for every router after it.      *)
CheckTarget ==
    /\ sync.step = "check"
    /\ (At("probe", 1) /\ UNCHANGED <<syncing, listed>>) \/ RunEnds
    /\ UNCHANGED routerApiVars

(* The next port over HTTP, then the API.                                      *)
NextPort == IF sync.port < HttpPorts THEN At("probe", sync.port + 1) ELSE At("session", 1)

(* A response that breaks off is neither an end, an error nor a timeout.       *)
BreaksOff == At("stuck", sync.port)

(* restGet of the resource: denied, in error, good.                            *)
ProbeHttp ==
    /\ sync.step = "probe"
    /\ RouterDone \/ NextPort \/ At("query", sync.port) \/ BreaksOff
    /\ UNCHANGED <<syncing, listed, routerApiVars>>

(* Its three queries: rows, none, or an error of one of them.                  *)
QueryHttp ==
    /\ sync.step = "query"
    /\ RouterDone \/ NextPort \/ BreaksOff
    /\ UNCHANGED <<syncing, listed, routerApiVars>>

(* fetchViaRouterOsApi on the ports in turn; its end destroys the socket.      *)
StartSession ==
    /\ sync.step = "session"
    /\ At("api", sync.port)
    /\ UNCHANGED <<syncing, listed, routerApiVars>>

InSession ==
    /\ sync.step = "api"
    /\ RouterApiNext
    /\ UNCHANGED clientMapVars

EndSession ==
    /\ sync.step = "api" /\ caller.at = "over"
    /\ IF (\A q \in Queries : lists[q] = <<>>) /\ sync.port < ApiPorts
       THEN At("session", sync.port + 1)
       ELSE RouterDone
    /\ link' = "closed" /\ orders' = <<>> /\ trapped' = FALSE /\ wire' = <<>>
    /\ caller' = Waiting("start", 1) /\ upset' = FALSE
    /\ lists' = [q \in Queries |-> <<>>] /\ rowsSent' = [q \in Queries |-> 0]
    /\ UNCHANGED <<syncing, listed>>

SyncStep ==
    \/ \E r \in MapRouters : TakeRouter(r)
    \/ ListRouters \/ FinishSync \/ CheckTarget \/ ProbeHttp \/ QueryHttp
    \/ StartSession \/ EndSession

ClientMapNext == StartSync \/ SyncStep \/ InSession

(* A run that has begun goes on; in a session, what arrives is read, and a wait *)
(* for what does not arrive ends.                                               *)
InApi == sync.step = "api" /\ UNCHANGED clientMapVars
ClientMapFairness ==
    /\ WF_allMapVars(SyncStep)
    /\ WF_allMapVars(InApi /\ Connect)
    /\ WF_allMapVars(InApi /\ (ReadWord \/ ReadLost))
    /\ WF_allMapVars(InApi /\ wire = <<>> /\ WaitEnds)

ClientMapSpec == ClientMapInit /\ [][ClientMapNext]_allMapVars /\ ClientMapFairness

-----------------------------------------------------------------------------
(* A run of the sync ends, whatever the routers answer or leave unanswered, so  *)
(* that the next tick finds the flag down; unless a response over HTTP breaks   *)
(* off (syncPppSessions, restGet, readExact).                                   *)
SyncEnds == syncing ~> (~syncing \/ sync.step = "stuck")

(* The same, for every response: a response that breaks off refutes it.        *)
SyncRunsAgain == []<>~syncing
=============================================================================
