------------------------------- MODULE License -------------------------------
(* LicenseService and the part of the Amarpin SDK it uses.  A key unlocks the   *)
(* licensed features; the license manager, asked over the network, says whether *)
(* a key is active and counts this installation.  Administrators activate and   *)
(* deactivate keys, a background refresh asks again, the manager's operator     *)
(* revokes and reinstates keys, calls fail, and the process restarts.           *)
EXTENDS Integers, FiniteSets

CONSTANTS
    Keys, NoKey,
    Requests,       \* administrators' requests that can be in progress
    Refresher,      \* the task of the in-flight refresh, and of onModuleInit
    MaxActivations, MaxDeactivations, MaxVerdicts,  \* bounds of the exploration
    MaxLosses, MaxRestarts

ASSUME LicenseAssumption ==
    /\ NoKey \notin Keys /\ Refresher \notin Requests
    /\ {MaxActivations, MaxDeactivations, MaxVerdicts, MaxLosses, MaxRestarts} \subseteq Nat

VARIABLES
    client,      \* client: the key of the SDK client, or NoKey for null
    allowed,     \* allowed
    storedKey,   \* storedKey
    up,          \* onModuleInit has ended: requests and the scheduler run
    dbKey,       \* companySetting.licenseKey
    lastValid,   \* the SDK's cache file: "none", "grace" or "expired" for each key
    task,        \* the state of each task
    active,      \* manager: keys that are active
    installed,   \* manager: keys with this installation
    standing,    \* history: the last explicit answer about each key
    confirmed,   \* history: keys the manager has called valid
    deactivated, \* history: deactivate ended while no activation ran, none came since
    spent        \* what has been used of the bounds

service == <<client, allowed, storedKey>>
manager == <<active, installed>>
history == <<standing, confirmed, deactivated>>
vars == <<service, up, dbKey, lastValid, task, manager, history, spent>>

Tasks == Requests \cup {Refresher}
Calls == {"claim", "validate", "reclaim", "release"}
Idle == [kind |-> "none", pc |-> "idle", key |-> NoKey, via |-> NoKey, reply |-> "none"]
Activating == \E r \in Requests : task[r].kind = "activate"

Init ==
    /\ client = NoKey /\ allowed = FALSE /\ storedKey = NoKey
    /\ up = FALSE
    /\ dbKey \in Keys \cup {NoKey}
    /\ active \in SUBSET Keys
    /\ installed = {dbKey} \cap active
    /\ lastValid = [k \in Keys |-> "none"]
    /\ task = [t \in Tasks |-> Idle]
    /\ standing = [k \in Keys |-> "none"]
    /\ confirmed = {dbKey} \ {NoKey}
    /\ deactivated = FALSE
    /\ spent = [activations |-> 0, deactivations |-> 0, verdicts |-> 0,
                losses |-> 0, restarts |-> 0]

Spend(what, max) == /\ spent[what] < max
                    /\ spent' = [spent EXCEPT ![what] = @ + 1]

-----------------------------------------------------------------------------
(* A call of the SDK over the network.                                        *)
Become(t, r) == task' = [task EXCEPT ![t] = r]
Calling(t, op) == [task[t] EXCEPT !.pc = op, !.via = client', !.reply = "pending"]

(* The manager claims a slot for an active key, tells whether this installation *)
(* has one, or gives it back.                                                 *)
Verdict(op, k) ==
    IF op = "release" THEN "DEACTIVATED"
    ELSE IF k \notin active THEN "REVOKED"
    ELSE IF op = "validate" /\ k \notin installed THEN "NOT_ACTIVATED"
    ELSE "VALID"

Answer(t) ==
    LET k == task[t].via
        v == Verdict(task[t].pc, k)
    IN  /\ task[t].reply = "pending"
        /\ Become(t, [task[t] EXCEPT !.reply = v])
        /\ installed' = IF task[t].pc = "release" THEN installed \ {k}
                        ELSE IF task[t].pc # "validate" /\ v = "VALID" THEN installed \cup {k}
                        ELSE installed
        /\ UNCHANGED <<service, up, dbKey, lastValid, active, history, spent>>

(* The request or the answer is lost, or the answer is not to be trusted.     *)
Lose(t) ==
    /\ task[t].pc \in Calls /\ task[t].reply \notin {"lost", "cut"}
    /\ Spend("losses", MaxLosses)
    /\ Become(t, [task[t] EXCEPT !.reply = "lost"])
    /\ UNCHANGED <<service, up, dbKey, lastValid, manager, history>>

(* The connection closes after the headers of the answer: postJson listens to   *)
(* neither that nor an error of the response, and the timeout dies with the     *)
(* socket.  Whoever awaits the call waits until the process ends.             *)
BreakOff(t) ==
    /\ task[t].pc \in Calls /\ task[t].reply \notin {"lost", "cut"}
    /\ Spend("losses", MaxLosses)
    /\ Become(t, [task[t] EXCEPT !.reply = "cut"])
    /\ UNCHANGED <<service, up, dbKey, lastValid, manager, history>>
BrokenOff(t) == task[t].reply = "cut"

Negative == {"REVOKED", "NOT_ACTIVATED", "DEACTIVATED"}

(* _graceResult and _failTransport: only validate may fall back on grace.     *)
Result(t) ==
    IF task[t].reply # "lost" THEN task[t].reply
    ELSE IF task[t].pc = "validate" /\ lastValid[task[t].via] = "grace" THEN "VALID"
    ELSE "TRANSPORT_ERROR"

(* _storeNetwork: a valid answer is kept, an explicit negative one clears it. *)
CachedKeepsValid(t) ==
    IF task[t].reply = "VALID" THEN [lastValid EXCEPT ![task[t].via] = "grace"] ELSE lastValid
Cached(t) ==
    IF task[t].reply = "VALID" THEN [lastValid EXCEPT ![task[t].via] = "grace"]
    ELSE IF task[t].reply \in Negative THEN [lastValid EXCEPT ![task[t].via] = "none"]
    ELSE lastValid

Received(t, op) ==
    /\ task[t].pc = op /\ task[t].reply \notin {"none", "pending", "cut"}
    /\ lastValid' = Cached(t)
    /\ standing' = IF task[t].reply = "lost" THEN standing
                   ELSE [standing EXCEPT ![task[t].via] =
                            IF task[t].reply = "VALID" THEN "valid" ELSE "negative"]
    /\ confirmed' = IF task[t].reply = "VALID" THEN confirmed \cup {task[t].via} ELSE confirmed

-----------------------------------------------------------------------------
(* apply: a transport error unlocks a server that has a stored key.           *)
AllowedAlways(r) == r \in {"VALID", "TRANSPORT_ERROR"}
AllowedNeverAgain(r) == allowed /\ r = "VALID"
AllowedAfter(r) == IF r = "TRANSPORT_ERROR" THEN storedKey # NoKey ELSE r = "VALID"

Apply(r) == allowed' = AllowedAfter(r)

(* The caller of refresh goes on when it returns: the refresh ends, activateKey *)
(* stores an accepted key and drops the client of a rejected one.             *)
Return(t) ==
    IF task[t].kind = "activate"
    THEN IF allowed' THEN /\ storedKey' = task[t].key
                          /\ Become(t, [task[t] EXCEPT !.pc = "write", !.reply = "none"])
                          /\ UNCHANGED client
                     ELSE /\ client' = NoKey
                          /\ Become(t, Idle)
                          /\ UNCHANGED storedKey
    ELSE Become(t, Idle) /\ UNCHANGED <<client, storedKey>>

(* ... and when it throws, because the client is gone after an await.         *)
ThrowStuck(t) ==
    /\ IF task[t].kind = "activate" THEN Become(t, Idle) ELSE UNCHANGED task
    /\ client' = NoKey
    /\ UNCHANGED storedKey
Throw(t) ==
    /\ client' = IF task[t].kind = "activate" THEN NoKey ELSE client
    /\ Become(t, Idle)
    /\ UNCHANGED storedKey

GoOnUnchecked(t, op) ==
    /\ UNCHANGED <<client, storedKey>>
    /\ Become(t, Calling(t, op))
GoOn(t, op) ==
    IF client = NoKey THEN Throw(t)
    ELSE /\ UNCHANGED <<client, storedKey>>
         /\ Become(t, Calling(t, op))

(* refresh, after client.activate() of a claim ...                            *)
Claimed(t) ==
    /\ Received(t, "claim")
    /\ Apply(Result(t))
    /\ IF allowed' THEN GoOn(t, "validate") ELSE Return(t)
    /\ UNCHANGED <<up, dbKey, manager, deactivated, spent>>

(* ... after client.validate(): a missing installation is claimed again ...   *)
Validated(t) ==
    /\ Received(t, "validate")
    /\ IF Result(t) = "NOT_ACTIVATED"
       THEN GoOn(t, "reclaim") /\ UNCHANGED allowed
       ELSE Apply(Result(t)) /\ Return(t)
    /\ up' = TRUE
    /\ UNCHANGED <<dbKey, manager, deactivated, spent>>

(* ... and after that.                                                        *)
Reclaimed(t) ==
    /\ Received(t, "reclaim")
    /\ Apply(Result(t))
    /\ Return(t)
    /\ up' = TRUE
    /\ UNCHANGED <<dbKey, manager, deactivated, spent>>

-----------------------------------------------------------------------------
(* onModuleInit: the key is read, checked, and only then are requests served. *)
(* (Its last test finds a stored key after TRANSPORT_ERROR still locked, which  *)
(* apply never leaves behind.)                                                *)
Boot ==
    /\ ~up /\ task[Refresher].pc = "idle"
    /\ storedKey' = dbKey /\ client' = dbKey
    /\ IF dbKey = NoKey
       THEN up' = TRUE /\ UNCHANGED task
       ELSE Become(Refresher, Calling(Refresher, "validate")) /\ UNCHANGED up
    /\ UNCHANGED <<allowed, dbKey, lastValid, manager, history, spent>>

(* refreshIfStale: one refresh at a time, of a server with a key.  The scheduler  *)
(* starts it every six hours, and status and assertRetentionAllowed do when the   *)
(* last one is that old; when that is, is left open.                          *)
Scheduled ==
    /\ up /\ client # NoKey /\ storedKey # NoKey
    /\ task[Refresher].pc = "idle"
    /\ UNCHANGED service
    /\ Become(Refresher, Calling(Refresher, "validate"))
    /\ UNCHANGED <<up, dbKey, lastValid, manager, history, spent>>

(* activateKey                                                                *)
ActivateKey(t, k) ==
    /\ up /\ task[t].pc = "idle"
    /\ Spend("activations", MaxActivations)
    /\ client' = k
    /\ Become(t, [kind |-> "activate", pc |-> "claim", key |-> k, via |-> k, reply |-> "pending"])
    /\ deactivated' = FALSE
    /\ UNCHANGED <<allowed, storedKey, up, dbKey, lastValid, manager, standing, confirmed>>

(* deactivate, to its first await ...                                         *)
Deactivate(t) ==
    /\ up /\ task[t].pc = "idle"
    /\ Spend("deactivations", MaxDeactivations)
    /\ IF storedKey = NoKey /\ client = NoKey
       THEN allowed' = FALSE /\ UNCHANGED <<client, storedKey, task, deactivated>>
       ELSE IF client # NoKey
       THEN /\ Become(t, [kind |-> "deactivate", pc |-> "release", key |-> NoKey, via |-> client,
                          reply |-> "pending"])
            /\ UNCHANGED <<client, allowed, storedKey, deactivated>>
       ELSE /\ client' = NoKey /\ allowed' = FALSE /\ storedKey' = NoKey
            /\ deactivated' = ~Activating
            /\ Become(t, [Idle EXCEPT !.kind = "deactivate", !.pc = "write"])
    /\ UNCHANGED <<up, dbKey, lastValid, manager, standing, confirmed>>

(* ... and after deactivateInstallation, whatever it answered.                *)
Released(t) ==
    /\ Received(t, "release")
    /\ client' = NoKey /\ allowed' = FALSE /\ storedKey' = NoKey
    /\ deactivated' = ~Activating
    /\ Become(t, [Idle EXCEPT !.kind = "deactivate", !.pc = "write"])
    /\ UNCHANGED <<up, dbKey, manager, spent>>

(* writeStoredKey, which may fail.                                            *)
WriteKey(t) ==
    /\ task[t].pc = "write"
    /\ dbKey' \in {dbKey, task[t].key}
    /\ Become(t, Idle)
    /\ UNCHANGED <<service, up, lastValid, manager, history, spent>>

-----------------------------------------------------------------------------
(* The manager's operator, time, and the process.                             *)
Decide(k) ==
    /\ Spend("verdicts", MaxVerdicts)
    /\ active' = IF k \in active THEN active \ {k} ELSE active \cup {k}
    /\ UNCHANGED <<service, up, dbKey, lastValid, task, installed, history>>

(* gracePeriodHours are over.                                                 *)
GraceEnds(k) ==
    /\ lastValid[k] = "grace"
    /\ lastValid' = [lastValid EXCEPT ![k] = "expired"]
    /\ UNCHANGED <<service, up, dbKey, task, manager, history, spent>>

Restart ==
    /\ Spend("restarts", MaxRestarts)
    /\ client' = NoKey /\ allowed' = FALSE /\ storedKey' = NoKey
    /\ up' = FALSE
    /\ task' = [t \in Tasks |-> Idle]
    /\ deactivated' = FALSE
    /\ UNCHANGED <<dbKey, lastValid, manager, standing, confirmed>>

Step(t) ==
    Answer(t) \/ Claimed(t) \/ Validated(t) \/ Reclaimed(t) \/ Released(t) \/ WriteKey(t)

Next ==
    \/ Boot \/ Scheduled \/ Restart
    \/ \E t \in Requests : Deactivate(t) \/ \E k \in Keys : ActivateKey(t, k)
    \/ \E t \in Tasks : Step(t) \/ Lose(t) \/ BreakOff(t)
    \/ \E k \in Keys : Decide(k) \/ GraceEnds(k)

Spec == Init /\ [][Next]_vars

(* The process boots, the scheduler fires, and every call ends within its       *)
(* timeout, unless its answer breaks off: no step takes up such a call.        *)
Fairness == /\ WF_vars(Boot) /\ WF_vars(Scheduled)
            /\ \A t \in Tasks : WF_vars(Step(t))
FairSpec == Spec /\ Fairness

-----------------------------------------------------------------------------
Replies == {"none", "pending", "lost", "cut", "VALID"} \cup Negative
TypeOK ==
    /\ {client, storedKey, dbKey} \subseteq Keys \cup {NoKey}
    /\ {allowed, up, deactivated} \subseteq BOOLEAN
    /\ lastValid \in [Keys -> {"none", "grace", "expired"}]
    /\ task \in [Tasks -> [kind : {"none", "activate", "deactivate"}, pc : Calls \cup {"idle", "write"},
                           key : Keys \cup {NoKey}, via : Keys \cup {NoKey}, reply : Replies]]
    /\ \A t \in Tasks : task[t].pc \in Calls => task[t].via \in Keys
    /\ active \subseteq Keys /\ installed \subseteq Keys /\ confirmed \subseteq Keys
    /\ standing \in [Keys -> {"none", "valid", "negative"}]

\* A server for which the manager never called any key valid is locked and stores no
\* key, whatever requests overlap and however many calls fail.
LockedUntilConfirmed == confirmed = {} => ~allowed /\ storedKey = NoKey

\* "REVOKED, SUSPENDED, EXPIRED, and INACTIVE are honored immediately (no grace)": the
\* SDK has nothing to fall back on for a key the manager last refused.
NoGraceAfterNegative == \A k \in Keys : lastValid[k] # "none" => standing[k] = "valid"

\* A refresh always ends, also when the client is taken away under it; otherwise no
\* other refresh could ever start.  Only one whose answer broke off does not: its
\* refreshInFlight stays until the process ends.
RefreshEnds == (task[Refresher].pc # "idle") ~> (task[Refresher].pc = "idle" \/ BrokenOff(Refresher))

\* README: "Deactivating a key locks licensed features again."
DeactivatedIsLocked == deactivated => ~allowed

\* "ACTIVE unlocks it again": a server whose stored key the manager holds active comes
\* to be unlocked.  Two things undo that and are left out by name: a rejected
\* activateKey takes the client away and leaves storedKey, and then nothing asks any
\* more; a refresh whose answer broke off keeps every later one from starting.
ActiveUnlocks ==
    \A k \in Keys :
        (storedKey = k /\ client = k /\ k \in active)
            ~> (allowed \/ storedKey # k \/ client # k \/ k \notin active \/ BrokenOff(Refresher))
=============================================================================
