------------------------------ MODULE Screens ------------------------------
(* Three screens of the portal and what they show of the server, checked in one *)
(* run: the realtime log stream, the settings of the company, and the lists that *)
(* are walked by page.  They share no state of the models, so that only one of   *)
(* them moves at a time.                                                        *)
EXTENDS MCLogStream, Settings, PagedLists

VARIABLE part

screensVars == <<part, vars, settingsVars, pagedVars>>

SettingsRest == SettingsInit /\ row = Bare /\ \A r \in Routers : routerPort[r] = None

ScreensInit ==
    /\ Init /\ PagedInit
    /\ \/ part = "settings" /\ SettingsInit /\ view = "search"
       \/ part = "stream" /\ SettingsRest /\ view = "search"
       \/ part = "lists" /\ SettingsRest

ScreensNext ==
    /\ \/ part = "stream" /\ Next /\ UNCHANGED <<settingsVars, pagedVars>>
       \/ part = "settings" /\ SettingsNext /\ UNCHANGED <<vars, pagedVars>>
       \/ part = "lists" /\ PagedNext /\ UNCHANGED <<vars, settingsVars>>
    /\ UNCHANGED part

ScreensSpec == ScreensInit /\ [][ScreensNext]_screensVars

Symmetry == StreamSymmetry \cup Permutations(Clerks) \cup Permutations(Loads)
=============================================================================
