---------------------------- MODULE SyslogIngest ----------------------------
(* SyslogService: UDP datagrams from MikroTik routers are rate limited, matched *)
(* to a registered router through a cached copy of the server table, stored,    *)
(* shown in the live buffer and archived.  handle() is an async function: many  *)
(* run at once and every await is a point where others may run.  An action is   *)
(* one run of a handler between two awaits, or the database executing one       *)
(* statement.  Administrators write the server table meanwhile, and the process *)
(* may restart, which loses everything held in memory.                          *)
EXTENDS Integers, FiniteSets, StreamBuffer

CONSTANTS
    Hosts,         \* source addresses of datagrams
    Servers,       \* ids of the server table; an id is never used twice
    Handlers,      \* activations of handle() that can be in flight
    NoHost, NoServer,
    Lines,         \* the kinds of datagram that arrive
    Registered,    \* routers in the server table at the start
    MaxInFlight,   \* maxInFlight
    RatePerSec,    \* RATE_PER_SEC
    RateHosts,     \* the size of the rate map beyond which old entries go
    CacheTtl,      \* CACHE_MS, in seconds
    DaySeconds,    \* seconds in a day
    MaxClock, MaxArrivals, MaxEdits, MaxRestarts  \* bounds of the exploration

LineKinds == {"nat", "ppp", "bare", "pppNat"}

ASSUME IngestAssumption ==
    /\ NoServer \notin Servers /\ NoHost \notin Hosts
    /\ Lines \subseteq LineKinds /\ Registered \subseteq Servers
    /\ IsFiniteSet(Handlers)
    /\ MaxInFlight \in Nat \ {0} /\ RatePerSec \in Nat \ {0}
    /\ RateHosts \in Nat /\ CacheTtl \in Nat /\ DaySeconds \in Nat \ {0}
    /\ MaxClock \in Nat /\ MaxArrivals \in Nat
    /\ MaxEdits \in Nat /\ MaxRestarts \in Nat

VARIABLES
    clock,      \* Date.now() in seconds
    table,      \* the server table: status, addresses (url, natIp), disabled
    online,     \* connectivityStatus
    owner,      \* owner[id] is the router whose log row was inserted as id
    logs,       \* the log rows now in the database
    ppp,        \* routers with a pppSession row
    rate,       \* rate: one bucket per host
    cache,      \* cache: the rows of the server table last read
    writes,     \* writes
    received,   \* syslogState.dayKey and receivedToday
    buffer,     \* the live buffer of each router
    archive,    \* lines appended to the daily files
    task,       \* the state of each handler
    passed,     \* history: datagrams of the host let through this second
    admitted,   \* history: datagrams accepted today since the process started
    lastRouted, \* history: when the router last stopped serving the host
    spent       \* what has been used of the bounds

dbVars == <<table, online, owner, logs, ppp>>
memVars == <<rate, cache, writes, received, buffer>>
ghostVars == <<passed, admitted, lastRouted>>
vars == <<clock, dbVars, memVars, archive, task, ghostVars, spent>>

-----------------------------------------------------------------------------
(* Datagrams: isSessionLine, a parsed field of a session line, and the NAT    *)
(* arrow that makes a session line a traffic line as well.                    *)
IsSession(line) == line # "nat"
HasFields(line) == line \in {"ppp", "pppNat"}
HasArrow(line)  == line = "pppNat"

(* Router s receives what comes from address h.                               *)
Routes(s, h) ==
    table[s].status = "live" /\ ~table[s].disabled /\ h \in table[s].addrs

Never == -(CacheTtl + 1)
RoutedAt(s, h) == IF Routes(s, h) THEN clock ELSE lastRouted[s][h]

(* findMany has no orderBy, so which of several matching rows comes first is  *)
(* the database's choice: a cached table is the first match for each host.    *)
NoPick == [h \in Hosts |-> NoServer]
Picks ==
    {p \in [Hosts -> Servers \cup {NoServer}] :
        \A h \in Hosts :
            IF \E s \in Servers : Routes(s, h)
            THEN p[h] \in Servers /\ Routes(p[h], h)
            ELSE p[h] = NoServer}

EmptyCache == [filled |-> FALSE, at |-> 0, pick |-> NoPick]
Idle == [pc |-> "idle", host |-> NoHost, line |-> "nat", at |-> 0,
         pick |-> NoPick, server |-> NoServer, id |-> 0]
NoBucket == [window |-> -1, count |-> 0]
BlankRow == [status |-> "unused", addrs |-> {}, disabled |-> FALSE]

Addresses == SUBSET Hosts \ {{}}

Today == clock \div DaySeconds

Rows == [status : {"unused", "live", "deleted"}, addrs : SUBSET Hosts,
         disabled : BOOLEAN]
Awaiting == {"query", "pppInsert", "pppOnline", "logInsert", "created", "logOnline"}
Steps == Awaiting \cup {"idle", "reply", "matched", "pppFile", "logFile"}
Chosen == Steps \ {"idle", "query", "reply", "matched"}
LogRows == [id : Nat, server : Servers, host : Hosts, at : Nat]

Init ==
    /\ clock = 0
    /\ \E a \in [Registered -> Addresses] :
          table = [s \in Servers |->
              IF s \in Registered
              THEN [status |-> "live", addrs |-> a[s], disabled |-> FALSE]
              ELSE BlankRow]
    /\ online = [s \in Servers |-> FALSE]
    /\ owner = <<>> /\ logs = {} /\ ppp = {}
    /\ rate = [h \in Hosts |-> NoBucket]
    /\ cache = EmptyCache
    /\ writes = 0
    /\ received = [day |-> 0, count |-> 0]
    /\ buffer = [s \in Servers |-> <<>>]
    /\ archive = {}
    /\ task = [t \in Handlers |-> Idle]
    /\ passed = [h \in Hosts |-> 0] /\ admitted = 0
    /\ lastRouted = [s \in Servers |-> [h \in Hosts |-> Never]]
    /\ spent = [arrivals |-> 0, edits |-> 0, restarts |-> 0]

-----------------------------------------------------------------------------
(* allowRate                                                                  *)
NewWindow(h) == rate[h].window # clock
Allowed(h) == NewWindow(h) \/ rate[h].count + 1 <= RatePerSec

PrunedCurrent(r) == [k \in Hosts |-> IF r[k].window <= clock THEN NoBucket ELSE r[k]]
Pruned(r) == [k \in Hosts |-> IF r[k].window < clock - 2 THEN NoBucket ELSE r[k]]
RateSize(r) == Cardinality({k \in Hosts : r[k] # NoBucket})

RateAfter(h) ==
    IF NewWindow(h)
    THEN LET r == [rate EXCEPT ![h] = [window |-> clock, count |-> 1]]
         IN  IF RateSize(r) > RateHosts THEN Pruned(r) ELSE r
    ELSE [rate EXCEPT ![h].count = @ + 1]

(* bumpReceivedToday, with the reset of the first datagram of a day.          *)
BumpedOnly == [received EXCEPT !.count = @ + 1]
Bumped == IF received.day = Today THEN [received EXCEPT !.count = @ + 1]
                                  ELSE [day |-> Today, count |-> 1]

(* Too many handlers are in flight.                                           *)
Full == writes >= MaxInFlight

CacheFresh == cache.filled /\ clock - cache.at <= CacheTtl

Arrive == /\ spent.arrivals < MaxArrivals
          /\ spent' = [spent EXCEPT !.arrivals = @ + 1]

(* handle returns at once: the host is over its rate ...                      *)
DropOverRate(h) ==
    /\ Arrive
    /\ ~Allowed(h)
    /\ rate' = RateAfter(h)
    /\ UNCHANGED <<clock, dbVars, cache, writes, received, buffer, archive, task, ghostVars>>

(* ... or all slots are taken.                                                *)
DropBusy(h) ==
    /\ Arrive
    /\ Allowed(h) /\ Full
    /\ rate' = RateAfter(h)
    /\ passed' = [passed EXCEPT ![h] = @ + 1]
    /\ UNCHANGED <<clock, dbVars, cache, writes, received, buffer, archive, task, admitted, lastRouted>>

Become(t, r) == task' = [task EXCEPT ![t] = r]

(* A handler with the servers of a fresh cache, or with a query under way.    *)
Started(h, l) ==
    [pc |-> IF CacheFresh THEN "matched" ELSE "query", host |-> h, line |-> l,
     at |-> clock, pick |-> NoPick,
     server |-> IF CacheFresh THEN cache.pick[h] ELSE NoServer, id |-> 0]

(* handle up to its first await: the cache answers or a query is sent.        *)
Accept(t, h, l) ==
    /\ task[t].pc = "idle"
    /\ Arrive
    /\ Allowed(h) /\ ~Full
    /\ rate' = RateAfter(h)
    /\ passed' = [passed EXCEPT ![h] = @ + 1]
    /\ received' = Bumped
    /\ admitted' = admitted + 1
    /\ writes' = writes + 1
    /\ Become(t, Started(h, l))
    /\ UNCHANGED <<clock, dbVars, cache, buffer, archive, lastRouted>>

-----------------------------------------------------------------------------
(* The rest of handle.  What it tells the session table is in SessionTable.    *)
Goto(t, step) == Become(t, [task[t] EXCEPT !.pc = step])

(* finally                                                                    *)
FinishKeepsSlot(t) == Become(t, Idle) /\ UNCHANGED writes
Finish(t) == /\ Become(t, Idle)
             /\ writes' = writes - 1

(* The database reads the enabled servers.                                    *)
ReadServers(t) ==
    /\ task[t].pc = "query"
    /\ \E p \in Picks : Become(t, [task[t] EXCEPT !.pc = "reply", !.pick = p])
    /\ UNCHANGED <<clock, dbVars, memVars, archive, ghostVars, spent>>

(* serversFor resumes: the cache is replaced, stamped with the time read before *)
(* the query was sent, whatever another handler stored meanwhile.             *)
FetchedStampedLate(t) == [filled |-> TRUE, at |-> clock, pick |-> task[t].pick]
Fetched(t) == [filled |-> TRUE, at |-> task[t].at, pick |-> task[t].pick]

FillCache(t) ==
    /\ task[t].pc = "reply"
    /\ cache' = Fetched(t)
    /\ Become(t, [task[t] EXCEPT !.pc = "matched", !.pick = NoPick,
                                 !.server = task[t].pick[task[t].host]])
    /\ UNCHANGED <<clock, dbVars, rate, writes, received, buffer, archive, ghostVars, spent>>

Unknown(t) ==
    /\ task[t].pc = "matched" /\ task[t].server = NoServer
    /\ Finish(t)
    /\ UNCHANGED <<clock, dbVars, rate, cache, received, buffer, archive, ghostVars, spent>>

MatchedUnchecked(t) ==
    /\ task[t].pc = "matched"
    /\ Goto(t, "logInsert")
    /\ UNCHANGED <<clock, dbVars, memVars, archive, ghostVars, spent>>
Matched(t) ==
    LET line == task[t].line IN
    /\ task[t].pc = "matched" /\ task[t].server # NoServer
    /\ Goto(t, IF ~IsSession(line) THEN "logInsert"
               ELSE IF HasFields(line) THEN "pppInsert" ELSE "pppOnline")
    /\ UNCHANGED <<clock, dbVars, rate, cache, writes, received, buffer, archive, ghostVars, spent>>

(* pppSession.create: the foreign key refuses a router that has been deleted. *)
InsertPpp(t) ==
    /\ task[t].pc = "pppInsert"
    /\ table[task[t].server].status = "live"
    /\ ppp' = ppp \cup {task[t].server}
    /\ Goto(t, "pppOnline")
    /\ UNCHANGED <<clock, table, online, owner, logs, memVars, archive, ghostVars, spent>>

(* markOnline is an updateMany: a router that is gone is no error.            *)
MarkOnline(t) ==
    /\ task[t].pc \in {"pppOnline", "logOnline"}
    /\ online' = [online EXCEPT ![task[t].server] =
                     @ \/ table[task[t].server].status = "live"]
    /\ Goto(t, IF task[t].pc = "pppOnline" THEN "pppFile" ELSE "logFile")
    /\ UNCHANGED <<clock, table, owner, logs, ppp, memVars, archive, ghostVars, spent>>

(* files.write logs its own errors: the line may be missing, the handler goes on. *)
Archive(entry) == archive' \in {archive, archive \cup {entry}}

WritePppFile(t) ==
    LET s == task[t].server IN
    /\ task[t].pc = "pppFile"
    /\ Archive([kind |-> "PPP", server |-> s, id |-> 0])
    /\ IF HasArrow(task[t].line)
       THEN Goto(t, "logInsert") /\ UNCHANGED writes
       ELSE Finish(t)
    /\ UNCHANGED <<clock, dbVars, rate, cache, received, buffer, ghostVars, spent>>

(* logEvent.create, executed by the database ...                              *)
InsertLog(t) ==
    LET id == Len(owner) + 1 IN
    /\ task[t].pc = "logInsert"
    /\ table[task[t].server].status = "live"
    /\ owner' = Append(owner, task[t].server)
    /\ logs' = logs \cup {[id |-> id, server |-> task[t].server,
                           host |-> task[t].host, at |-> task[t].at]}
    /\ Become(t, [task[t] EXCEPT !.pc = "created", !.id = id])
    /\ UNCHANGED <<clock, table, online, ppp, memVars, archive, ghostVars, spent>>

(* ... and pushStreamRow, when the handler gets the created row.              *)
PushRow(t) ==
    LET s == task[t].server IN
    /\ task[t].pc = "created"
    /\ buffer' = [buffer EXCEPT ![s] = Pushed(@, task[t].id)]
    /\ Goto(t, "logOnline")
    /\ UNCHANGED <<clock, dbVars, rate, cache, writes, received, archive, ghostVars, spent>>

WriteLogFile(t) ==
    /\ task[t].pc = "logFile"
    /\ Archive([kind |-> "NAT", server |-> task[t].server, id |-> task[t].id])
    /\ Finish(t)
    /\ UNCHANGED <<clock, dbVars, rate, cache, received, buffer, ghostVars, spent>>

(* catch: any database call may fail, an insert also after it was committed.  *)
FailIgnored(t) ==
    /\ task[t].pc = "logInsert"
    /\ Goto(t, "logFile")
    /\ UNCHANGED <<clock, dbVars, memVars, archive, ghostVars, spent>>
FailKeepsSlot(t) ==
    /\ task[t].pc \in Awaiting
    /\ Become(t, Idle)
    /\ UNCHANGED <<clock, dbVars, memVars, archive, ghostVars, spent>>
Fail(t) ==
    /\ task[t].pc \in Awaiting
    /\ Finish(t)
    /\ UNCHANGED <<clock, dbVars, rate, cache, received, buffer, archive, ghostVars, spent>>

HandlerStep(t) ==
    \/ ReadServers(t) \/ FillCache(t) \/ Unknown(t) \/ Matched(t)
    \/ InsertPpp(t) \/ MarkOnline(t) \/ WritePppFile(t)
    \/ InsertLog(t) \/ PushRow(t) \/ WriteLogFile(t) \/ Fail(t)

-----------------------------------------------------------------------------
(* The surroundings: time, the administrators' writes, the process.           *)
Tick ==
    /\ clock < MaxClock
    /\ clock' = clock + 1
    /\ passed' = [h \in Hosts |-> 0]
    /\ admitted' = IF (clock + 1) \div DaySeconds = Today THEN admitted ELSE 0
    /\ UNCHANGED <<dbVars, memVars, archive, task, lastRouted, spent>>

EditTable(s, row) ==
    /\ spent.edits < MaxEdits
    /\ spent' = [spent EXCEPT !.edits = @ + 1]
    /\ table' = [table EXCEPT ![s] = row]
    /\ lastRouted' = [r \in Servers |-> [h \in Hosts |-> RoutedAt(r, h)]]
    /\ UNCHANGED <<clock, owner, memVars, archive, task, passed, admitted>>

(* ServersService.create                                                      *)
CreateServer(s, a) ==
    /\ table[s].status = "unused"
    /\ EditTable(s, [status |-> "live", addrs |-> a, disabled |-> FALSE])
    /\ UNCHANGED <<online, logs, ppp>>

(* ServersService.update: the address may change, natIp becomes url if blank. *)
UpdateServer(s, a) ==
    /\ table[s].status = "live"
    /\ EditTable(s, [table[s] EXCEPT !.addrs = a])
    /\ UNCHANGED <<online, logs, ppp>>

(* ServersService.toggle: the value written was computed from an earlier read. *)
ToggleServer(s, b) ==
    /\ table[s].status = "live"
    /\ EditTable(s, [table[s] EXCEPT !.disabled = b])
    /\ UNCHANGED <<online, logs, ppp>>

(* ServersService.remove: the schema cascades to log and session rows.        *)
RemoveServer(s) ==
    /\ table[s].status = "live"
    /\ EditTable(s, [status |-> "deleted", addrs |-> {}, disabled |-> FALSE])
    /\ logs' = {r \in logs : r.server # s}
    /\ ppp' = ppp \ {s}
    /\ online' = [online EXCEPT ![s] = FALSE]

Restart ==
    /\ spent.restarts < MaxRestarts
    /\ spent' = [spent EXCEPT !.restarts = @ + 1]
    /\ rate' = [h \in Hosts |-> NoBucket]
    /\ cache' = EmptyCache
    /\ writes' = 0
    /\ received' = [day |-> Today, count |-> 0]
    /\ buffer' = [s \in Servers |-> <<>>]
    /\ task' = [t \in Handlers |-> Idle]
    /\ passed' = [h \in Hosts |-> 0] /\ admitted' = 0
    /\ UNCHANGED <<clock, dbVars, archive, lastRouted>>

Next ==
    \/ \E h \in Hosts : DropOverRate(h) \/ DropBusy(h)
    \/ \E t \in Handlers, h \in Hosts, l \in Lines : Accept(t, h, l)
    \/ \E t \in Handlers : HandlerStep(t)
    \/ Tick \/ Restart
    \/ \E s \in Servers :
          \/ \E a \in Addresses : CreateServer(s, a) \/ UpdateServer(s, a)
          \/ \E b \in BOOLEAN : ToggleServer(s, b)
          \/ RemoveServer(s)

Spec == Init /\ [][Next]_vars

(* The event loop runs every continuation that is due, and every database or  *)
(* file call ends, with an answer or an error.                                *)
Fairness == \A t \in Handlers : WF_vars(HandlerStep(t))
FairSpec == Spec /\ Fairness

-----------------------------------------------------------------------------
(* A handler past its early returns knows its host and, once matched, its router. *)
Tasks == {r \in [pc : Steps, host : Hosts \cup {NoHost}, line : LineKinds, at : Nat,
                 pick : [Hosts -> Servers \cup {NoServer}],
                 server : Servers \cup {NoServer}, id : Nat] :
             /\ r.pc # "idle" => r.host \in Hosts
             /\ r.pc \in Chosen => r.server \in Servers}

DbTypeOK ==
    /\ table \in [Servers -> Rows]
    /\ online \in [Servers -> BOOLEAN]
    /\ owner \in Seq(Servers)
    /\ logs \subseteq LogRows
    /\ ppp \subseteq Servers

MemTypeOK ==
    /\ rate \in [Hosts -> [window : Int, count : Nat]]
    /\ cache \in [filled : BOOLEAN, at : Nat, pick : [Hosts -> Servers \cup {NoServer}]]
    /\ writes \in Int
    /\ received \in [day : Int, count : Nat]
    /\ buffer \in [Servers -> Seq(Nat)]

RestTypeOK ==
    /\ clock \in Nat
    /\ archive \subseteq [kind : {"PPP", "NAT"}, server : Servers, id : Nat]
    /\ passed \in [Hosts -> Nat]
    /\ admitted \in Nat
    /\ lastRouted \in [Servers -> [Hosts -> Int]]
    /\ spent \in [arrivals : Nat, edits : Nat, restarts : Nat]

TypeOK == DbTypeOK /\ MemTypeOK /\ RestTypeOK /\ task \in [Handlers -> Tasks]

Busy == {t \in Handlers : task[t].pc # "idle"}

\* The in-flight counter is exactly the number of running handlers, so no path
\* through handle (early return, failed insert, deleted router) leaks a slot or
\* gives one back twice, and the cap of maxInFlight holds.
SlotAccounting == writes = Cardinality(Busy) /\ writes <= MaxInFlight

\* No host gets more than RATE_PER_SEC datagrams past allowRate in one second,
\* although the map of buckets is pruned while other hosts fill it.
RateBound == \A h \in Hosts : passed[h] <= RatePerSec

\* Every log row is attributed to a router that was registered and enabled under
\* the sender's address at some moment of the CACHE_MS before the datagram came,
\* or later: a deleted, disabled or re-addressed router collects nothing beyond
\* the life of a cached server list, however slow a query was and whichever
\* handler stored its answer last.
FreshAttribution ==
    \A r \in logs : RoutedAt(r.server, r.host) >= r.at - CacheTtl

\* Handlers put only rows the database accepted for a router in its live buffer,
\* each of them once, and never more than MAX.
BufferSound ==
    \A s \in Servers :
        /\ Len(buffer[s]) <= BufferMax
        /\ \A i, j \in 1..Len(buffer[s]) :
              /\ buffer[s][i] \in 1..Len(owner) /\ owner[buffer[s][i]] = s
              /\ i # j => buffer[s][i] # buffer[s][j]

\* The day's counter is the number of datagrams accepted today since the process
\* started: the first datagram after midnight starts it again and none is lost.
CounterExact ==
    IF received.day = Today THEN received.count = admitted ELSE admitted = 0

\* A traffic line in the daily files has its row in the database, or had it until
\* the router was deleted: a failed insert leaves no line behind.
ArchiveFollowsInsert ==
    \A e \in archive :
        e.kind = "NAT" => e.id \in 1..Len(owner) /\ owner[e.id] = e.server

\* A full service accepts again: some handler always comes to an end.
SlotsDrain == (writes = MaxInFlight) ~> (writes < MaxInFlight)

-----------------------------------------------------------------------------
(* What the proofs carry along.  A host's allowance is what its bucket counted, *)
(* if the bucket is of this second; a router known to the cache or to a handler *)
(* served the host when the query that named it was sent, or later.           *)
RateInv ==
    \A h \in Hosts :
        /\ passed[h] <= RatePerSec
        /\ rate[h].window <= clock
        /\ IF rate[h].window = clock THEN passed[h] <= rate[h].count ELSE passed[h] = 0

CacheRouted ==
    cache.filled =>
        \A s \in Servers, h \in Hosts : cache.pick[h] = s => RoutedAt(s, h) >= cache.at

TaskRouted(t) ==
    task[t].pc # "idle" =>
        /\ task[t].at <= clock
        /\ task[t].pc = "reply" =>
              \A s \in Servers, h \in Hosts :
                  task[t].pick[h] = s => RoutedAt(s, h) >= task[t].at
        /\ \A s \in Servers, h \in Hosts :
              task[t].server = s /\ task[t].host = h => RoutedAt(s, h) >= task[t].at - CacheTtl

RoutingInv ==
    /\ \A s \in Servers, h \in Hosts : lastRouted[s][h] <= clock
    /\ CacheRouted
    /\ \A t \in Handlers : TaskRouted(t)
    /\ FreshAttribution
=============================================================================
