------------------------- MODULE SyslogIngestProofs --------------------------
(* What SyslogIngest guarantees for every set of routers, hosts and handlers. *)
EXTENDS SyslogIngest, FiniteSetTheorems, TLAPS

\* pushStreamRow keeps the buffer a sequence of ids, cut off at MAX.
LEMMA PushedType ==
    ASSUME NEW cur \in Seq(Nat), NEW id \in Nat
    PROVE  Pushed(cur, id) \in Seq(Nat)
<1>1. <<id>> \o cur \in Seq(Nat)
  OBVIOUS
<1>2. Capped(<<id>> \o cur) \in Seq(Nat)
  BY <1>1, BufferMaxAssumption DEF Capped
<1>3. QED
  BY <1>2 DEF Pushed

\* allowRate keeps the map of buckets well formed, pruned or not.
LEMMA RateAfterType ==
    ASSUME TypeOK, NEW h \in Hosts
    PROVE  RateAfter(h) \in [Hosts -> [window : Int, count : Nat]]
<1> DEFINE Buckets == [Hosts -> [window : Int, count : Nat]]
<1>1. rate \in Buckets /\ clock \in Nat
  BY DEF TypeOK, MemTypeOK, RestTypeOK
<1>2. [rate EXCEPT ![h].count = @ + 1] \in Buckets
  BY <1>1
<1>3. [rate EXCEPT ![h] = [window |-> clock, count |-> 1]] \in Buckets
  BY <1>1
<1>4. \A r \in Buckets : Pruned(r) \in Buckets
  BY <1>1 DEF Pruned, NoBucket
<1> HIDE DEF Buckets
<1>5. RateAfter(h) \in Buckets
  BY <1>2, <1>3, <1>4 DEF RateAfter
<1>6. QED
  BY <1>5 DEF Buckets

LEMMA IdleIsTask == Idle \in Tasks
BY DEF Idle, Tasks, NoPick, Steps, Awaiting, Chosen, LineKinds

\* The routing history of a router is bounded by the clock in every edit.
LEMMA RoutedAtType ==
    ASSUME TypeOK, NEW s \in Servers, NEW h \in Hosts
    PROVE  RoutedAt(s, h) \in Int
BY DEF TypeOK, RestTypeOK, RoutedAt

LEMMA InitTypeOK == Init => TypeOK
<1> SUFFICES ASSUME Init PROVE TypeOK
  OBVIOUS
<1>1. DbTypeOK
  BY DEF Init, DbTypeOK, Rows, BlankRow, Addresses
<1>2. MemTypeOK
  BY DEF Init, MemTypeOK, NoBucket, EmptyCache, NoPick
<1>3. RestTypeOK
  BY IngestAssumption DEF Init, RestTypeOK, Never
<1>4. task \in [Handlers -> Tasks]
  BY IdleIsTask DEF Init
<1>5. QED
  BY <1>1, <1>2, <1>3, <1>4 DEF TypeOK

LEMMA BecomeType ==
    ASSUME TypeOK, NEW t \in Handlers, NEW r \in Tasks, Become(t, r)
    PROVE  task' \in [Handlers -> Tasks]
BY DEF TypeOK, Become

LEMMA TodayType == TypeOK => Today \in Int
BY IngestAssumption DEF TypeOK, RestTypeOK, Today

LEMMA AdmissionType ==
    ASSUME TypeOK, NEW h \in Hosts
    PROVE  /\ DropOverRate(h) \/ DropBusy(h) => TypeOK'
           /\ \A t \in Handlers, l \in Lines : Accept(t, h, l) => TypeOK'
<1>1. ASSUME DropOverRate(h) \/ DropBusy(h) PROVE TypeOK'
  <2>1. DbTypeOK' /\ task' \in [Handlers -> Tasks]
    BY <1>1 DEF TypeOK, DbTypeOK, DropOverRate, DropBusy, dbVars
  <2>2. MemTypeOK'
    <3>1. RateAfter(h) \in [Hosts -> [window : Int, count : Nat]]
      BY RateAfterType
    <3>2. rate' = RateAfter(h) /\ UNCHANGED <<cache, writes, received, buffer>>
      BY <1>1 DEF DropOverRate, DropBusy
    <3>3. QED
      BY <3>1, <3>2 DEF TypeOK, MemTypeOK
  <2>3. RestTypeOK'
    BY <1>1 DEF TypeOK, RestTypeOK, DropOverRate, DropBusy, Arrive, ghostVars
  <2>4. QED
    BY <2>1, <2>2, <2>3 DEF TypeOK
<1>2. ASSUME NEW t \in Handlers, NEW l \in Lines, Accept(t, h, l) PROVE TypeOK'
  <2>1. DbTypeOK'
    BY <1>2 DEF TypeOK, DbTypeOK, Accept, dbVars
  <2>2. MemTypeOK'
    <3>1. Bumped \in [day : Int, count : Nat]
      <4>1. Today \in Int /\ received \in [day : Int, count : Nat]
        BY TodayType DEF TypeOK, MemTypeOK
      <4>2. QED
        BY <4>1 DEF Bumped
    <3>2. RateAfter(h) \in [Hosts -> [window : Int, count : Nat]]
      BY RateAfterType
    <3>3. /\ rate' = RateAfter(h) /\ received' = Bumped /\ writes' = writes + 1
          /\ UNCHANGED <<cache, buffer>>
      BY <1>2 DEF Accept
    <3>4. QED
      BY <3>1, <3>2, <3>3 DEF TypeOK, MemTypeOK
  <2>3. RestTypeOK'
    BY <1>2 DEF TypeOK, RestTypeOK, Accept, Arrive
  <2>4. task' \in [Handlers -> Tasks]
    <3>1. Started(h, l) \in Tasks
      BY IngestAssumption DEF TypeOK, MemTypeOK, RestTypeOK, Started, Tasks, NoPick, Steps,
         Awaiting, Chosen
    <3>2. QED
      BY <1>2, <3>1, BecomeType DEF Accept
  <2>5. QED
    BY <2>1, <2>2, <2>3, <2>4 DEF TypeOK
<1>3. QED
  BY <1>1, <1>2

LEMMA HandlerType ==
    ASSUME TypeOK, NEW t \in Handlers, HandlerStep(t)
    PROVE  TypeOK'
<1>0. task[t] \in Tasks
  BY DEF TypeOK
<1> USE DEF dbVars, memVars, ghostVars
<1>1. CASE ReadServers(t)
  <2>1. PICK p \in Picks : Become(t, [task[t] EXCEPT !.pc = "reply", !.pick = p])
    BY <1>1 DEF ReadServers
  <2>2. [task[t] EXCEPT !.pc = "reply", !.pick = p] \in Tasks
    BY <1>0, <1>1, <2>1 DEF ReadServers, Picks, Tasks, Steps, Chosen, Awaiting
  <2>3. QED
    BY <1>1, <2>1, <2>2, BecomeType DEF TypeOK, DbTypeOK, MemTypeOK, RestTypeOK, ReadServers
<1>2. CASE FillCache(t)
  <2>1. [task[t] EXCEPT !.pc = "matched", !.pick = NoPick,
                        !.server = task[t].pick[task[t].host]] \in Tasks
    BY <1>0, <1>2 DEF FillCache, Tasks, NoPick, Steps, Chosen, Awaiting
  <2>2. Fetched(t) \in [filled : BOOLEAN, at : Nat, pick : [Hosts -> Servers \cup {NoServer}]]
    BY <1>0 DEF Tasks, Fetched
  <2>3. QED
    BY <1>2, <2>1, <2>2, BecomeType DEF TypeOK, DbTypeOK, MemTypeOK, RestTypeOK, FillCache
<1>3. CASE Unknown(t) \/ Fail(t)
  <2>1. task' \in [Handlers -> Tasks]
    BY <1>3, IdleIsTask, BecomeType DEF Unknown, Fail, Finish
  <2>2. writes' \in Int
    BY <1>3 DEF TypeOK, MemTypeOK, Unknown, Fail, Finish
  <2>3. UNCHANGED <<clock, dbVars, rate, cache, received, buffer,
                    archive, ghostVars, spent>>
    BY <1>3 DEF Unknown, Fail
  <2>4. QED
    BY <2>1, <2>2, <2>3 DEF TypeOK, DbTypeOK, MemTypeOK, RestTypeOK
<1>4. ASSUME NEW step \in Steps \ {"idle"},
             task[t].pc # "idle", step \in Chosen => task[t].server \in Servers
      PROVE  [task[t] EXCEPT !.pc = step] \in Tasks
  BY <1>0, <1>4 DEF Tasks
<1>5. CASE Matched(t)
  <2> DEFINE step == IF ~IsSession(task[t].line) THEN "logInsert"
                     ELSE IF HasFields(task[t].line) THEN "pppInsert" ELSE "pppOnline"
  <2>1. step \in Steps \ {"idle"} /\ task[t].server \in Servers
    BY <1>0, <1>5 DEF Matched, Tasks, Steps, Awaiting
  <2> HIDE DEF step
  <2>2. [task[t] EXCEPT !.pc = step] \in Tasks
    BY <1>4, <1>5, <2>1 DEF Matched
  <2>3. Become(t, [task[t] EXCEPT !.pc = step])
    BY <1>5 DEF Matched, Goto, step
  <2>4. QED
    BY <1>5, <2>1, <2>2, <2>3, BecomeType
       DEF TypeOK, DbTypeOK, MemTypeOK, RestTypeOK, Matched
<1>6. ASSUME NEW step \in Steps \ {"idle"}, task[t].pc \in Chosen, Goto(t, step)
      PROVE  task' \in [Handlers -> Tasks] /\ task[t].server \in Servers
  <2>1. task[t].server \in Servers /\ task[t].pc # "idle"
    BY <1>0, <1>6 DEF Tasks, Chosen
  <2>2. QED
    BY <1>4, <1>6, <2>1, BecomeType DEF Goto
<1>7. CASE InsertPpp(t)
  <2>1. "pppOnline" \in Steps \ {"idle"} /\ task[t].pc \in Chosen
    BY <1>7 DEF InsertPpp, Steps, Chosen, Awaiting
  <2>2. QED
    BY <1>6, <1>7, <2>1 DEF TypeOK, DbTypeOK, MemTypeOK, RestTypeOK, InsertPpp
<1>8. CASE MarkOnline(t)
  <2>1. {"pppFile", "logFile"} \subseteq Steps \ {"idle"} /\ task[t].pc \in Chosen
    BY <1>8 DEF MarkOnline, Steps, Chosen, Awaiting
  <2>2. task' \in [Handlers -> Tasks]
    BY <1>6, <1>8, <2>1 DEF MarkOnline
  <2>3. QED
    BY <1>8, <2>2 DEF TypeOK, DbTypeOK, MemTypeOK, RestTypeOK, MarkOnline
<1>9. CASE WritePppFile(t)
  <2>1. "logInsert" \in Steps \ {"idle"} /\ task[t].pc \in Chosen /\ task[t].server \in Servers
    BY <1>0, <1>9 DEF WritePppFile, Tasks, Steps, Chosen, Awaiting
  <2>2. task' \in [Handlers -> Tasks]
    BY <1>6, <1>9, <2>1, IdleIsTask, BecomeType DEF WritePppFile, Finish
  <2>3. archive' \subseteq [kind : {"PPP", "NAT"}, server : Servers, id : Nat]
    BY <1>9, <2>1 DEF TypeOK, RestTypeOK, WritePppFile, Archive
  <2>4. QED
    BY <1>9, <2>1, <2>2, <2>3 DEF TypeOK, DbTypeOK, MemTypeOK, RestTypeOK, WritePppFile, Finish
<1>10. CASE InsertLog(t)
  <2>1. Len(owner) + 1 \in Nat
    BY DEF TypeOK, DbTypeOK
  <2>2. task[t].server \in Servers /\ task[t].host \in Hosts /\ task[t].at \in Nat
    BY <1>0, <1>10 DEF InsertLog, Tasks, Steps, Chosen, Awaiting
  <2>3. [task[t] EXCEPT !.pc = "created", !.id = Len(owner) + 1] \in Tasks
    BY <1>0, <2>1, <2>2 DEF Tasks, Steps, Chosen, Awaiting
  <2>4. task' \in [Handlers -> Tasks]
    BY <1>10, <2>3, BecomeType DEF InsertLog
  <2>5. DbTypeOK'
    BY <1>10, <2>1, <2>2 DEF TypeOK, DbTypeOK, InsertLog, LogRows
  <2>6. QED
    BY <1>10, <2>4, <2>5 DEF TypeOK, MemTypeOK, RestTypeOK, InsertLog
<1>11. CASE PushRow(t)
  <2>1. "logOnline" \in Steps \ {"idle"} /\ task[t].pc \in Chosen
    BY <1>11 DEF PushRow, Steps, Chosen, Awaiting
  <2>2. task' \in [Handlers -> Tasks] /\ task[t].server \in Servers /\ task[t].id \in Nat
    BY <1>0, <1>6, <1>11, <2>1 DEF PushRow, Tasks
  <2>3. buffer' \in [Servers -> Seq(Nat)]
    BY <1>11, <2>2, PushedType DEF TypeOK, MemTypeOK, PushRow
  <2>4. QED
    BY <1>11, <2>2, <2>3 DEF TypeOK, DbTypeOK, MemTypeOK, RestTypeOK, PushRow
<1>12. CASE WriteLogFile(t)
  <2>1. task[t].server \in Servers /\ task[t].id \in Nat
    BY <1>0, <1>12 DEF WriteLogFile, Tasks, Steps, Chosen, Awaiting
  <2>2. task' \in [Handlers -> Tasks]
    BY <1>12, IdleIsTask, BecomeType DEF WriteLogFile, Finish
  <2>3. archive' \subseteq [kind : {"PPP", "NAT"}, server : Servers, id : Nat]
    BY <1>12, <2>1 DEF TypeOK, RestTypeOK, WriteLogFile, Archive
  <2>4. QED
    BY <1>12, <2>2, <2>3 DEF TypeOK, DbTypeOK, MemTypeOK, RestTypeOK, WriteLogFile, Finish
<1>13. QED
  BY <1>1, <1>2, <1>3, <1>5, <1>7, <1>8, <1>9, <1>10, <1>11, <1>12 DEF HandlerStep

LEMMA SurroundingsType ==
    ASSUME TypeOK
    PROVE  /\ Tick \/ Restart => TypeOK'
           /\ \A s \in Servers :
                 /\ \A a \in Addresses : CreateServer(s, a) \/ UpdateServer(s, a) => TypeOK'
                 /\ \A b \in BOOLEAN : ToggleServer(s, b) => TypeOK'
                 /\ RemoveServer(s) => TypeOK'
<1> USE DEF dbVars, memVars, ghostVars
<1>1. ASSUME Tick PROVE TypeOK'
  BY <1>1 DEF TypeOK, DbTypeOK, MemTypeOK, RestTypeOK, Tick
<1>3. ASSUME Restart PROVE TypeOK'
  <2>1. MemTypeOK'
    BY <1>3, TodayType DEF MemTypeOK, Restart, NoBucket, EmptyCache, NoPick
  <2>2. task' \in [Handlers -> Tasks]
    BY <1>3, IdleIsTask DEF Restart
  <2>u. /\ UNCHANGED <<clock, table, online, owner, logs, ppp, archive, lastRouted>>
        /\ passed' = [h \in Hosts |-> 0] /\ admitted' = 0
        /\ spent' = [spent EXCEPT !.restarts = @ + 1]
    BY <1>3 DEF Restart
  <2>r. RestTypeOK'
    BY <2>u DEF TypeOK, RestTypeOK
  <2>d. DbTypeOK'
    BY <2>u DEF TypeOK, DbTypeOK
  <2>3. QED
    BY <1>3, <2>1, <2>2, <2>r, <2>d DEF TypeOK
<1>4. ASSUME NEW s \in Servers, NEW row \in Rows, EditTable(s, row)
      PROVE  /\ table' \in [Servers -> Rows]
             /\ MemTypeOK' /\ RestTypeOK' /\ task' \in [Handlers -> Tasks]
             /\ owner' \in Seq(Servers)
  <2> DEFINE Routed == [r \in Servers |-> [h \in Hosts |-> RoutedAt(r, h)]]
  <2>a. Routed \in [Servers -> [Hosts -> Int]]
    BY RoutedAtType
  <2>b. lastRouted' = Routed
    BY <1>4 DEF EditTable
  <2> HIDE DEF Routed
  <2>1. lastRouted' \in [Servers -> [Hosts -> Int]]
    BY <2>a, <2>b
  <2>t. table' \in [Servers -> Rows] /\ task' \in [Handlers -> Tasks] /\ owner' \in Seq(Servers)
    BY <1>4 DEF TypeOK, DbTypeOK, EditTable
  <2>m. MemTypeOK'
    BY <1>4 DEF TypeOK, MemTypeOK, EditTable
  <2>r. RestTypeOK'
    BY <1>4, <2>1 DEF TypeOK, RestTypeOK, EditTable
  <2>2. QED
    BY <2>t, <2>m, <2>r
<1>5. ASSUME NEW s \in Servers, NEW a \in Addresses, CreateServer(s, a) \/ UpdateServer(s, a)
      PROVE  TypeOK'
  <2>1. /\ [status |-> "live", addrs |-> a, disabled |-> FALSE] \in Rows
        /\ [table[s] EXCEPT !.addrs = a] \in Rows
    BY DEF TypeOK, DbTypeOK, Rows, Addresses
  <2>2. PICK row \in Rows : EditTable(s, row)
    BY <1>5, <2>1 DEF CreateServer, UpdateServer
  <2>3. UNCHANGED <<online, logs, ppp>>
    BY <1>5 DEF CreateServer, UpdateServer
  <2>4. QED
    BY <1>4, <2>2, <2>3 DEF TypeOK, DbTypeOK
<1>6. ASSUME NEW s \in Servers, NEW b \in BOOLEAN, ToggleServer(s, b) PROVE TypeOK'
  <2>1. [table[s] EXCEPT !.disabled = b] \in Rows
    BY DEF TypeOK, DbTypeOK, Rows
  <2>2. PICK row \in Rows : EditTable(s, row)
    BY <1>6, <2>1 DEF ToggleServer
  <2>3. QED
    BY <1>4, <1>6, <2>2 DEF TypeOK, DbTypeOK, ToggleServer
<1>7. ASSUME NEW s \in Servers, RemoveServer(s) PROVE TypeOK'
  <2>1. [status |-> "deleted", addrs |-> {}, disabled |-> FALSE] \in Rows
    BY DEF Rows
  <2>2. PICK row \in Rows : EditTable(s, row)
    BY <1>7, <2>1 DEF RemoveServer
  <2>3. online' \in [Servers -> BOOLEAN] /\ logs' \subseteq LogRows /\ ppp' \subseteq Servers
    BY <1>7 DEF TypeOK, DbTypeOK, RemoveServer
  <2>4. QED
    BY <1>4, <2>2, <2>3 DEF TypeOK, DbTypeOK
<1>8. QED
  BY <1>1, <1>3, <1>5, <1>6, <1>7

\* Every variable keeps its type, for the in-memory state of SyslogService and
\* the tables it writes; in particular no handler gets past the check of
\* servers[0] without a router.
THEOREM TypeCorrect == Spec => []TypeOK
<1>1. TypeOK /\ [Next]_vars => TypeOK'
  <2>1. CASE UNCHANGED vars
    BY <2>1 DEF vars, dbVars, memVars, ghostVars, TypeOK, DbTypeOK, MemTypeOK, RestTypeOK
  <2>2. QED
    BY <2>1, AdmissionType, HandlerType, SurroundingsType DEF Next
<1>2. QED
  BY <1>1, InitTypeOK, PTL DEF Spec

-----------------------------------------------------------------------------
(* Attribution of log rows.                                                   *)

\* Time and the table change only with the clock and with an edit.
LEMMA RoutingSteps ==
    ASSUME [Next]_vars
    PROVE  \/ UNCHANGED <<clock, table, lastRouted>>
           \/ Tick
           \/ \E s \in Servers : \E row : EditTable(s, row)
<1> USE DEF dbVars, memVars, ghostVars
<1>1. ASSUME NEW h \in Hosts, DropOverRate(h) \/ DropBusy(h)
      PROVE  UNCHANGED <<clock, table, lastRouted>>
  BY <1>1 DEF DropOverRate, DropBusy
<1>2. ASSUME NEW t \in Handlers, NEW h \in Hosts, NEW l \in Lines, Accept(t, h, l)
      PROVE  UNCHANGED <<clock, table, lastRouted>>
  BY <1>2 DEF Accept
<1>3. ASSUME NEW t \in Handlers, HandlerStep(t)
      PROVE  UNCHANGED <<clock, table, lastRouted>>
  BY <1>3 DEF HandlerStep, ReadServers, FillCache, Unknown, Matched, InsertPpp, MarkOnline,
              WritePppFile, InsertLog, PushRow, WriteLogFile, Fail
<1>4. ASSUME Restart \/ UNCHANGED vars
      PROVE  UNCHANGED <<clock, table, lastRouted>>
  BY <1>4 DEF Restart, vars
<1>5. ASSUME NEW s \in Servers,
             \/ \E a \in Addresses : CreateServer(s, a) \/ UpdateServer(s, a)
             \/ \E b \in BOOLEAN : ToggleServer(s, b)
             \/ RemoveServer(s)
      PROVE  \E row : EditTable(s, row)
  BY <1>5 DEF CreateServer, UpdateServer, ToggleServer, RemoveServer
<1>6. QED
  BY <1>1, <1>2, <1>3, <1>4, <1>5 DEF Next

\* What a router was once known to serve stays known: the bound that the cache
\* and the handlers remember never moves back.
LEMMA RoutedGrows ==
    ASSUME TypeOK, RoutingInv, [Next]_vars
    PROVE  /\ clock <= clock' /\ clock' \in Nat
           /\ \A s \in Servers, h \in Hosts :
                 /\ lastRouted'[s][h] <= clock'
                 /\ RoutedAt(s, h) \in Int /\ RoutedAt(s, h)' \in Int
                 /\ RoutedAt(s, h) <= RoutedAt(s, h)'
<1>0. /\ clock \in Nat
      /\ \A s \in Servers, h \in Hosts :
            lastRouted[s][h] \in Int /\ lastRouted[s][h] <= clock
  BY DEF TypeOK, RestTypeOK, RoutingInv
<1>1. \A s \in Servers, h \in Hosts :
          RoutedAt(s, h) \in Int /\ lastRouted[s][h] <= RoutedAt(s, h) /\ RoutedAt(s, h) <= clock
  BY <1>0 DEF RoutedAt
<1>2. CASE UNCHANGED <<clock, table, lastRouted>>
  <2>1. \A s \in Servers, h \in Hosts : RoutedAt(s, h)' = RoutedAt(s, h)
    BY <1>2 DEF RoutedAt, Routes
  <2>2. QED
    BY <1>0, <1>1, <1>2, <2>1
<1>3. CASE Tick
  <2>1. clock' = clock + 1 /\ UNCHANGED <<table, lastRouted>>
    BY <1>3 DEF Tick, dbVars
  <2>2. \A s \in Servers, h \in Hosts :
            RoutedAt(s, h)' = IF Routes(s, h) THEN clock + 1 ELSE lastRouted[s][h]
    BY <2>1 DEF RoutedAt, Routes
  <2>3. QED
    BY <1>0, <1>1, <2>1, <2>2 DEF RoutedAt
<1>4. CASE \E s \in Servers : \E row : EditTable(s, row)
  <2>1. /\ clock' = clock
        /\ lastRouted' = [r \in Servers |-> [h \in Hosts |-> RoutedAt(r, h)]]
    BY <1>4 DEF EditTable
  <2>2. \A s \in Servers, h \in Hosts : lastRouted'[s][h] = RoutedAt(s, h)
    BY <2>1
  <2>3. \A s \in Servers, h \in Hosts :
            RoutedAt(s, h)' = clock \/ RoutedAt(s, h)' = RoutedAt(s, h)
    BY <2>1, <2>2 DEF RoutedAt
  <2>4. QED
    BY <1>0, <1>1, <2>1, <2>2, <2>3
<1>5. QED
  BY <1>2, <1>3, <1>4, RoutingSteps

\* The ways in which the record of a handler changes.
LEMMA TaskSteps ==
    ASSUME TypeOK, [Next]_vars, NEW u \in Handlers
    PROVE  \/ task'[u] = task[u]
           \/ task'[u] = Idle
           \/ \E h \in Hosts, l \in Lines :
                 task'[u] = Started(h, l) /\ UNCHANGED <<clock, table, lastRouted>>
           \/ ReadServers(u)
           \/ FillCache(u)
           \/ /\ task[u].pc # "idle" /\ task'[u].pc # "reply"
              /\ task'[u].at = task[u].at /\ task'[u].host = task[u].host
              /\ task'[u].server = task[u].server
<1> USE DEF dbVars, memVars, ghostVars
<1>0. task \in [Handlers -> Tasks]
  BY DEF TypeOK
<1>1. ASSUME NEW h \in Hosts, DropOverRate(h) \/ DropBusy(h) PROVE task' = task
  BY <1>1 DEF DropOverRate, DropBusy
<1>2. ASSUME NEW t \in Handlers, NEW h \in Hosts, NEW l \in Lines, Accept(t, h, l)
      PROVE  /\ UNCHANGED <<clock, table, lastRouted>>
             /\ task'[u] = task[u] \/ task'[u] = Started(h, l)
  BY <1>0, <1>2 DEF Accept, Become
<1>3. ASSUME NEW t \in Handlers, HandlerStep(t), task'[u] # task[u], task'[u] # Idle
      PROVE  \/ ReadServers(u)
             \/ FillCache(u)
             \/ /\ task[u].pc # "idle" /\ task'[u].pc # "reply"
                /\ task'[u].at = task[u].at /\ task'[u].host = task[u].host
                /\ task'[u].server = task[u].server
  <2> DEFINE Same == /\ task[u].pc # "idle" /\ task'[u].pc # "reply"
                     /\ task'[u].at = task[u].at /\ task'[u].host = task[u].host
                     /\ task'[u].server = task[u].server
  <2>0. task[u] \in [pc : Steps, host : Hosts \cup {NoHost}, line : LineKinds, at : Nat,
                     pick : [Hosts -> Servers \cup {NoServer}],
                     server : Servers \cup {NoServer}, id : Nat]
    BY <1>0 DEF Tasks
  <2>1. CASE ReadServers(t)
    <3>1. u = t
      BY <1>0, <1>3, <2>1 DEF ReadServers, Become
    <3>2. QED
      BY <2>1, <3>1
  <2>2. CASE FillCache(t)
    <3>1. u = t
      BY <1>0, <1>3, <2>2 DEF FillCache, Become
    <3>2. QED
      BY <2>2, <3>1
  <2>3. ASSUME NEW step, Goto(t, step), step # "reply", task[t].pc # "idle" PROVE Same
    BY <1>0, <1>3, <2>0, <2>3 DEF Goto, Become
  <2>4. ASSUME Finish(t) PROVE FALSE
    BY <1>0, <1>3, <2>4 DEF Finish, Become
  <2>5. CASE InsertLog(t)
    BY <1>0, <1>3, <2>0, <2>5 DEF InsertLog, Become
  <2>6. CASE Unknown(t) \/ WriteLogFile(t) \/ Fail(t)
    BY <2>4, <2>6 DEF Unknown, WriteLogFile, Fail
  <2>7. CASE Matched(t)
    BY <2>3, <2>7 DEF Matched
  <2>8. CASE InsertPpp(t) \/ MarkOnline(t) \/ PushRow(t)
    BY <2>3, <2>8 DEF InsertPpp, MarkOnline, PushRow
  <2>9. CASE WritePppFile(t)
    BY <2>3, <2>4, <2>9 DEF WritePppFile
  <2>10. QED
    BY <1>3, <2>1, <2>2, <2>5, <2>6, <2>7, <2>8, <2>9 DEF HandlerStep
<1>4. ASSUME Tick \/ UNCHANGED vars PROVE task' = task
  BY <1>4 DEF Tick, vars
<1>5. ASSUME Restart PROVE task'[u] = Idle
  BY <1>5 DEF Restart
<1>6. ASSUME NEW s \in Servers,
             \/ \E a \in Addresses : CreateServer(s, a) \/ UpdateServer(s, a)
             \/ \E b \in BOOLEAN : ToggleServer(s, b)
             \/ RemoveServer(s)
      PROVE  task' = task
  BY <1>6 DEF CreateServer, UpdateServer, ToggleServer, RemoveServer, EditTable
<1>7. QED
  BY <1>1, <1>2, <1>3, <1>4, <1>5, <1>6 DEF Next

\* A cached server list changes when the process starts again or a query that a
\* handler sent is answered; log rows change by an insert and by deletion.
LEMMA CacheAndLogSteps ==
    ASSUME [Next]_vars
    PROVE  /\ \/ cache' = cache
              \/ cache' = EmptyCache
              \/ \E t \in Handlers : task[t].pc = "reply" /\ cache' = Fetched(t)
           /\ \/ logs' \subseteq logs
              \/ \E t \in Handlers : InsertLog(t)
<1> USE DEF dbVars, memVars, ghostVars
<1>1. ASSUME NEW h \in Hosts, DropOverRate(h) \/ DropBusy(h) PROVE cache' = cache /\ logs' = logs
  BY <1>1 DEF DropOverRate, DropBusy
<1>2. ASSUME NEW t \in Handlers, NEW h \in Hosts, NEW l \in Lines, Accept(t, h, l)
      PROVE  cache' = cache /\ logs' = logs
  BY <1>2 DEF Accept
<1>3. ASSUME NEW t \in Handlers, HandlerStep(t), ~FillCache(t), ~InsertLog(t)
      PROVE  cache' = cache /\ logs' = logs
  BY <1>3 DEF HandlerStep, ReadServers, Unknown, Matched, InsertPpp, MarkOnline,
              WritePppFile, PushRow, WriteLogFile, Fail
<1>4. ASSUME NEW t \in Handlers, FillCache(t)
      PROVE  logs' = logs /\ task[t].pc = "reply" /\ cache' = Fetched(t)
  BY <1>4 DEF FillCache
<1>5. ASSUME NEW t \in Handlers, InsertLog(t) PROVE cache' = cache
  BY <1>5 DEF InsertLog
<1>6. ASSUME Tick \/ UNCHANGED vars PROVE cache' = cache /\ logs' = logs
  BY <1>6 DEF Tick, vars
<1>7. ASSUME Restart PROVE cache' = EmptyCache /\ logs' = logs
  BY <1>7 DEF Restart
<1>8. ASSUME NEW s \in Servers,
             \/ \E a \in Addresses : CreateServer(s, a) \/ UpdateServer(s, a)
             \/ \E b \in BOOLEAN : ToggleServer(s, b)
             \/ RemoveServer(s)
      PROVE  cache' = cache /\ logs' \subseteq logs
  BY <1>8 DEF CreateServer, UpdateServer, ToggleServer, RemoveServer, EditTable
<1>9. QED
  BY <1>1, <1>2, <1>3, <1>4, <1>5, <1>6, <1>7, <1>8 DEF Next

LEMMA InitRouting == Init => RoutingInv
<1> SUFFICES ASSUME Init PROVE RoutingInv
  OBVIOUS
<1>1. \A s \in Servers, h \in Hosts : lastRouted[s][h] <= clock
  BY IngestAssumption DEF Init, Never
<1>2. CacheRouted
  BY DEF Init, CacheRouted, EmptyCache
<1>3. \A t \in Handlers : TaskRouted(t)
  BY DEF Init, TaskRouted, Idle
<1>4. FreshAttribution
  BY DEF Init, FreshAttribution
<1>5. QED
  BY <1>1, <1>2, <1>3, <1>4 DEF RoutingInv

LEMMA NextRouting ==
    ASSUME TypeOK, RoutingInv, [Next]_vars
    PROVE  RoutingInv'
<1>0. /\ clock <= clock' /\ clock \in Nat /\ clock' \in Nat /\ CacheTtl \in Nat
      /\ \A s \in Servers, h \in Hosts :
            /\ lastRouted'[s][h] <= clock'
            /\ RoutedAt(s, h) \in Int /\ RoutedAt(s, h)' \in Int
            /\ RoutedAt(s, h) <= RoutedAt(s, h)'
  BY RoutedGrows, IngestAssumption DEF TypeOK, RestTypeOK
<1>1. /\ \A t \in Handlers : task[t] \in Tasks /\ TaskRouted(t)
      /\ CacheRouted /\ FreshAttribution
      /\ cache \in [filled : BOOLEAN, at : Nat, pick : [Hosts -> Servers \cup {NoServer}]]
      /\ logs \subseteq LogRows
  BY DEF TypeOK, DbTypeOK, MemTypeOK, RoutingInv
<1>a. \A t \in Handlers :
         /\ task[t].at \in Nat
         /\ task[t].pick \in [Hosts -> Servers \cup {NoServer}]
         /\ task[t].pc # "idle" => task[t].host \in Hosts
         /\ task[t].pc \in Chosen => task[t].server \in Servers
  BY <1>1 DEF Tasks
<1>2. CacheRouted'
  <2>1. CASE cache' = cache
    BY <1>0, <1>1, <2>1 DEF CacheRouted
  <2>2. CASE cache' = EmptyCache
    BY <2>2 DEF CacheRouted, EmptyCache
  <2>3. ASSUME NEW t \in Handlers, task[t].pc = "reply", cache' = Fetched(t)
        PROVE  CacheRouted'
    <3>1. \A s \in Servers, h \in Hosts :
             task[t].pick[h] = s => RoutedAt(s, h) >= task[t].at
      BY <1>1, <2>3 DEF TaskRouted
    <3>2. cache'.at = task[t].at /\ cache'.pick = task[t].pick
      BY <2>3 DEF Fetched
    <3>3. \A s \in Servers, h \in Hosts :
             cache'.pick[h] = s => RoutedAt(s, h)' >= cache'.at
      BY <1>0, <1>a, <3>1, <3>2
    <3>4. QED
      BY <3>3 DEF CacheRouted
  <2>4. QED
    BY <2>1, <2>2, <2>3, CacheAndLogSteps
<1>3. ASSUME NEW u \in Handlers PROVE TaskRouted(u)'
  <2>1. CASE task'[u] = task[u]
    BY <1>0, <1>1, <1>a, <2>1 DEF TaskRouted
  <2>2. CASE task'[u] = Idle
    BY <2>2 DEF TaskRouted, Idle
  <2>3. ASSUME NEW h \in Hosts, NEW l \in Lines, task'[u] = Started(h, l),
               UNCHANGED <<clock, table, lastRouted>>
        PROVE  TaskRouted(u)'
    <3>1. /\ task'[u].at = clock /\ task'[u].host = h /\ task'[u].pc # "reply"
          /\ task'[u].server = IF CacheFresh THEN cache.pick[h] ELSE NoServer
      BY <2>3 DEF Started
    <3>2. ASSUME NEW s \in Servers, task'[u].server = s
          PROVE  RoutedAt(s, h)' >= clock - CacheTtl
      <4>1. CacheFresh /\ s = cache.pick[h]
        BY <3>1, <3>2, IngestAssumption
      <4>2. cache.filled /\ clock - cache.at <= CacheTtl
        BY <4>1 DEF CacheFresh
      <4>3. RoutedAt(s, h) >= cache.at /\ cache.at \in Nat
        BY <1>1, <4>1, <4>2 DEF CacheRouted
      <4>4. QED
        BY <1>0, <4>2, <4>3
    <3>3. QED
      BY <1>0, <2>3, <3>1, <3>2 DEF TaskRouted
  <2>4. CASE ReadServers(u)
    <3>1. PICK p \in Picks : Become(u, [task[u] EXCEPT !.pc = "reply", !.pick = p])
      BY <2>4 DEF ReadServers
    <3>2. /\ task[u].pc # "idle"
          /\ task'[u].at = task[u].at /\ task'[u].host = task[u].host
          /\ task'[u].server = task[u].server /\ task'[u].pick = p
      BY <1>1, <2>4, <3>1 DEF ReadServers, Become, Tasks, TypeOK
    <3>3. /\ task[u].at <= clock
          /\ \A s \in Servers, h \in Hosts : task[u].server = s /\ task[u].host = h =>
                 RoutedAt(s, h) >= task[u].at - CacheTtl
      BY <1>1, <3>2 DEF TaskRouted
    <3>4. \A s \in Servers, h \in Hosts : p[h] = s => RoutedAt(s, h) = clock
      BY IngestAssumption DEF Picks, RoutedAt
    <3>5. \A s \in Servers, h \in Hosts : p[h] = s => RoutedAt(s, h)' >= task[u].at
      BY <1>0, <1>a, <3>3, <3>4
    <3>6. QED
      BY <1>0, <1>a, <3>2, <3>3, <3>5 DEF TaskRouted
  <2>5. CASE FillCache(u)
    <3>1. /\ task[u].pc = "reply" /\ task[u].host \in Hosts
          /\ task'[u].at = task[u].at /\ task'[u].host = task[u].host
          /\ task'[u].pc # "reply"
          /\ task'[u].server = task[u].pick[task[u].host]
      BY <1>1, <1>a, <2>5 DEF FillCache, Become, Tasks, TypeOK
    <3>2. /\ task[u].at <= clock
          /\ \A s \in Servers, h \in Hosts : task'[u].server = s /\ task[u].host = h =>
                 RoutedAt(s, h) >= task[u].at
      BY <1>1, <3>1 DEF TaskRouted
    <3>3. QED
      BY <1>0, <1>a, <3>1, <3>2 DEF TaskRouted
  <2>6. CASE /\ task[u].pc # "idle" /\ task'[u].pc # "reply"
             /\ task'[u].at = task[u].at /\ task'[u].host = task[u].host
             /\ task'[u].server = task[u].server
    BY <1>0, <1>1, <1>a, <2>6 DEF TaskRouted
  <2>7. QED
    BY <2>1, <2>2, <2>3, <2>4, <2>5, <2>6, TaskSteps
<1>4. FreshAttribution'
  <2>1. \A r \in logs : RoutedAt(r.server, r.host)' >= r.at - CacheTtl
    <3>1. \A r \in logs : r.server \in Servers /\ r.host \in Hosts /\ r.at \in Nat
      BY <1>1 DEF LogRows
    <3>2. QED
      BY <1>0, <1>1, <3>1 DEF FreshAttribution
  <2>2. CASE logs' \subseteq logs
    BY <2>1, <2>2 DEF FreshAttribution
  <2>3. ASSUME NEW t \in Handlers, InsertLog(t) PROVE FreshAttribution'
    <3> DEFINE row == [id |-> Len(owner) + 1, server |-> task[t].server,
                       host |-> task[t].host, at |-> task[t].at]
    <3>1. logs' = logs \cup {row} /\ task[t].pc = "logInsert"
      BY <2>3 DEF InsertLog
    <3>2. task[t].server \in Servers /\ task[t].host \in Hosts
      BY <1>a, <3>1 DEF Chosen, Steps, Awaiting
    <3>3. \A s \in Servers, h \in Hosts : task[t].server = s /\ task[t].host = h =>
             RoutedAt(s, h) >= task[t].at - CacheTtl
      BY <1>1, <3>1 DEF TaskRouted
    <3>4. \A s \in Servers, h \in Hosts : task[t].server = s /\ task[t].host = h =>
             RoutedAt(s, h)' >= task[t].at - CacheTtl
      BY <1>0, <1>a, <3>3
    <3>5. \A r \in logs' : RoutedAt(r.server, r.host)' >= r.at - CacheTtl
      <4>1. SUFFICES ASSUME NEW r \in logs' PROVE RoutedAt(r.server, r.host)' >= r.at - CacheTtl
        OBVIOUS
      <4>2. CASE r \in logs
        BY <2>1, <4>2
      <4>3. CASE r = row
        BY <3>2, <3>4, <4>3
      <4>4. QED
        BY <3>1, <4>2, <4>3
    <3>6. QED
      BY <3>5 DEF FreshAttribution
  <2>4. QED
    BY <2>2, <2>3, CacheAndLogSteps
<1>5. QED
  BY <1>0, <1>2, <1>3, <1>4 DEF RoutingInv

\* A log row is attributed to a router that served the sender's address no more
\* than CACHE_MS before the datagram came, whatever the interleaving of slow
\* queries, cache refreshes and administrators' edits.
THEOREM AttributionIsFresh == Spec => []FreshAttribution
<1>1. TypeOK /\ RoutingInv /\ [Next]_vars => RoutingInv'
  BY NextRouting
<1>2. RoutingInv => FreshAttribution
  BY DEF RoutingInv
<1>3. QED
  BY <1>1, <1>2, InitRouting, TypeCorrect, PTL DEF Spec

-----------------------------------------------------------------------------
(* The rate of one host.                                                      *)

\* allowRate counts the datagram in the bucket of this second and touches the
\* buckets of other hosts only when they are more than two seconds old.
LEMMA RateAfterBuckets ==
    ASSUME TypeOK, RateInv, NEW h \in Hosts
    PROVE  /\ NewWindow(h) => RateAfter(h)[h] = [window |-> clock, count |-> 1]
           /\ ~NewWindow(h) => RateAfter(h)[h] = [rate[h] EXCEPT !.count = @ + 1]
           /\ \A k \in Hosts \ {h} :
                 \/ RateAfter(h)[k] = rate[k]
                 \/ RateAfter(h)[k] = NoBucket /\ rate[k].window < clock
<1>1. rate \in [Hosts -> [window : Int, count : Nat]] /\ clock \in Nat
  BY DEF TypeOK, MemTypeOK, RestTypeOK
<1>2. CASE ~NewWindow(h)
  BY <1>1, <1>2 DEF RateAfter
<1>3. CASE NewWindow(h)
  <2> DEFINE r == [rate EXCEPT ![h] = [window |-> clock, count |-> 1]]
  <2>1. /\ r[h] = [window |-> clock, count |-> 1]
        /\ \A k \in Hosts \ {h} : r[k] = rate[k]
    BY <1>1
  <2>2. /\ Pruned(r)[h] = r[h]
        /\ \A k \in Hosts \ {h} :
              Pruned(r)[k] = rate[k] \/ (Pruned(r)[k] = NoBucket /\ rate[k].window < clock)
    <3>1. \A k \in Hosts :
             Pruned(r)[k] = IF r[k].window < clock - 2 THEN NoBucket ELSE r[k]
      BY DEF Pruned
    <3>2. ~(r[h].window < clock - 2)
      BY <1>1, <2>1
    <3>3. \A k \in Hosts \ {h} : r[k].window < clock - 2 => rate[k].window < clock
      <4>1. \A w \in Int : w < clock - 2 => w < clock
        BY <1>1
      <4>2. QED
        BY <1>1, <2>1, <4>1
    <3> HIDE DEF r
    <3>4. QED
      BY <2>1, <3>1, <3>2, <3>3
  <2>3. RateAfter(h) = r \/ RateAfter(h) = Pruned(r)
    BY <1>3 DEF RateAfter
  <2> HIDE DEF r
  <2>4. QED
    BY <1>3, <2>1, <2>2, <2>3
<1>4. QED
  BY <1>2, <1>3

LEMMA RateSteps ==
    ASSUME [Next]_vars
    PROVE  \/ UNCHANGED <<clock, rate, passed>>
           \/ \E h \in Hosts :
                 /\ clock' = clock /\ rate' = RateAfter(h)
                 /\ \/ ~Allowed(h) /\ passed' = passed
                    \/ Allowed(h) /\ passed' = [passed EXCEPT ![h] = @ + 1]
           \/ clock' = clock + 1 /\ rate' = rate /\ passed' = [h \in Hosts |-> 0]
           \/ clock' = clock /\ rate' = [h \in Hosts |-> NoBucket] /\ passed' = [h \in Hosts |-> 0]
<1> USE DEF dbVars, memVars, ghostVars
<1>1. ASSUME NEW h \in Hosts, DropOverRate(h) \/ DropBusy(h)
      PROVE  /\ clock' = clock /\ rate' = RateAfter(h)
             /\ \/ ~Allowed(h) /\ passed' = passed
                \/ Allowed(h) /\ passed' = [passed EXCEPT ![h] = @ + 1]
  BY <1>1 DEF DropOverRate, DropBusy
<1>2. ASSUME NEW t \in Handlers, NEW h \in Hosts, NEW l \in Lines, Accept(t, h, l)
      PROVE  /\ clock' = clock /\ rate' = RateAfter(h)
             /\ Allowed(h) /\ passed' = [passed EXCEPT ![h] = @ + 1]
  BY <1>2 DEF Accept
<1>3. ASSUME NEW t \in Handlers, HandlerStep(t) PROVE UNCHANGED <<clock, rate, passed>>
  BY <1>3 DEF HandlerStep, ReadServers, FillCache, Unknown, Matched, InsertPpp, MarkOnline,
              WritePppFile, InsertLog, PushRow, WriteLogFile, Fail
<1>4. ASSUME Tick
      PROVE  clock' = clock + 1 /\ rate' = rate /\ passed' = [h \in Hosts |-> 0]
  BY <1>4 DEF Tick
<1>5. ASSUME Restart
      PROVE  clock' = clock /\ rate' = [h \in Hosts |-> NoBucket] /\ passed' = [h \in Hosts |-> 0]
  BY <1>5 DEF Restart
<1>6. ASSUME UNCHANGED vars PROVE UNCHANGED <<clock, rate, passed>>
  BY <1>6 DEF vars
<1>7. ASSUME NEW s \in Servers,
             \/ \E a \in Addresses : CreateServer(s, a) \/ UpdateServer(s, a)
             \/ \E b \in BOOLEAN : ToggleServer(s, b)
             \/ RemoveServer(s)
      PROVE  UNCHANGED <<clock, rate, passed>>
  BY <1>7 DEF CreateServer, UpdateServer, ToggleServer, RemoveServer, EditTable
<1>8. QED
  BY <1>1, <1>2, <1>3, <1>4, <1>5, <1>6, <1>7 DEF Next

LEMMA NextRate ==
    ASSUME TypeOK, RateInv, [Next]_vars
    PROVE  RateInv'
<1>1. /\ rate \in [Hosts -> [window : Int, count : Nat]] /\ passed \in [Hosts -> Nat]
      /\ clock \in Nat /\ RatePerSec \in Nat \ {0}
  BY IngestAssumption DEF TypeOK, MemTypeOK, RestTypeOK
<1>2. CASE UNCHANGED <<clock, rate, passed>>
  BY <1>2 DEF RateInv
<1>3. ASSUME NEW h \in Hosts, clock' = clock, rate' = RateAfter(h),
             \/ ~Allowed(h) /\ passed' = passed
             \/ Allowed(h) /\ passed' = [passed EXCEPT ![h] = @ + 1]
      PROVE  RateInv'
  <2>1. ASSUME NEW k \in Hosts \ {h}
        PROVE  /\ passed'[k] <= RatePerSec
               /\ rate'[k].window <= clock'
               /\ IF rate'[k].window = clock' THEN passed'[k] <= rate'[k].count
                                               ELSE passed'[k] = 0
    <3>1. passed'[k] = passed[k]
      BY <1>1, <1>3
    <3>2. /\ passed[k] <= RatePerSec /\ rate[k].window <= clock
          /\ IF rate[k].window = clock THEN passed[k] <= rate[k].count ELSE passed[k] = 0
      BY DEF RateInv
    <3>3. CASE rate'[k] = rate[k]
      BY <1>3, <3>1, <3>2, <3>3
    <3>4. CASE rate'[k] = NoBucket /\ rate[k].window < clock
      <4>1. rate[k].window # clock
        BY <1>1, <3>4
      <4>2. passed'[k] = 0 /\ rate'[k].window = -1
        BY <3>1, <3>2, <3>4, <4>1 DEF NoBucket
      <4>3. QED
        BY <1>1, <1>3, <4>2
    <3>5. rate'[k] = rate[k] \/ (rate'[k] = NoBucket /\ rate[k].window < clock)
      BY <1>3, RateAfterBuckets
    <3>6. QED
      BY <3>3, <3>4, <3>5
  <2>2. /\ passed'[h] <= RatePerSec
        /\ rate'[h].window <= clock'
        /\ IF rate'[h].window = clock' THEN passed'[h] <= rate'[h].count ELSE passed'[h] = 0
    <3>1. /\ passed[h] <= RatePerSec /\ passed[h] \in Nat
          /\ rate[h].count \in Nat /\ rate[h].window \in Int
          /\ IF rate[h].window = clock THEN passed[h] <= rate[h].count ELSE passed[h] = 0
      BY <1>1 DEF RateInv
    <3>2. passed'[h] = passed[h] \/ (Allowed(h) /\ passed'[h] = passed[h] + 1)
      BY <1>1, <1>3
    <3>3. CASE NewWindow(h)
      <4>1. rate'[h] = [window |-> clock, count |-> 1]
        BY <1>3, <3>3, RateAfterBuckets
      <4>2. rate'[h].window = clock /\ rate'[h].count = 1
        BY <4>1
      <4>3. passed[h] = 0
        BY <3>1, <3>3 DEF NewWindow
      <4>4. passed'[h] \in {0, 1}
        BY <3>2, <4>3
      <4>5. QED
        BY <1>1, <1>3, <4>2, <4>4
    <3>4. CASE ~NewWindow(h)
      <4>1. rate'[h] = [rate[h] EXCEPT !.count = @ + 1]
        BY <1>3, <3>4, RateAfterBuckets
      <4>2. rate'[h].window = rate[h].window /\ rate'[h].count = rate[h].count + 1
        BY <1>1, <4>1
      <4>3. QED
        BY <1>1, <1>3, <3>1, <3>2, <3>4, <4>2 DEF NewWindow, Allowed
    <3>5. QED
      BY <3>3, <3>4
  <2>3. QED
    BY <2>1, <2>2 DEF RateInv
<1>4. CASE clock' = clock + 1 /\ rate' = rate /\ passed' = [h \in Hosts |-> 0]
  <2>1. \A h \in Hosts : rate[h].window <= clock /\ rate[h].window \in Int
    BY <1>1 DEF RateInv
  <2>2. QED
    BY <1>1, <1>4, <2>1 DEF RateInv
<1>5. CASE clock' = clock /\ rate' = [h \in Hosts |-> NoBucket] /\ passed' = [h \in Hosts |-> 0]
  BY <1>1, <1>5 DEF RateInv, NoBucket
<1>6. QED
  BY <1>2, <1>3, <1>4, <1>5, RateSteps

\* One host never gets more than RATE_PER_SEC datagrams past allowRate in a
\* second, for any number of hosts sharing the pruned map of buckets.
THEOREM RateIsBounded == Spec => []RateBound
<1>1. Init => RateInv
  BY IngestAssumption DEF Init, RateInv, NoBucket
<1>2. TypeOK /\ RateInv /\ [Next]_vars => RateInv'
  BY NextRate
<1>3. RateInv => RateBound
  BY DEF RateInv, RateBound
<1>4. QED
  BY <1>1, <1>2, <1>3, TypeCorrect, PTL DEF Spec

-----------------------------------------------------------------------------
(* The handlers in flight.                                                    *)

\* A slot is taken by one handler that was idle, given back by one that was
\* running, or not touched.
LEMMA SlotSteps ==
    ASSUME TypeOK, [Next]_vars
    PROVE  \/ Busy' = Busy /\ writes' = writes
           \/ \E t \in Handlers \ Busy :
                 Busy' = Busy \cup {t} /\ writes' = writes + 1 /\ writes < MaxInFlight
           \/ \E t \in Busy : Busy' = Busy \ {t} /\ writes' = writes - 1
           \/ Busy' = {} /\ writes' = 0
<1> USE DEF dbVars, memVars, ghostVars
<1>0. task \in [Handlers -> Tasks] /\ writes \in Int /\ MaxInFlight \in Nat
  BY IngestAssumption DEF TypeOK, MemTypeOK
<1>1. ASSUME NEW h \in Hosts, DropOverRate(h) \/ DropBusy(h)
      PROVE  Busy' = Busy /\ writes' = writes
  BY <1>1 DEF DropOverRate, DropBusy, Busy
<1>2. ASSUME NEW t \in Handlers, NEW h \in Hosts, NEW l \in Lines, Accept(t, h, l)
      PROVE  /\ t \notin Busy /\ Busy' = Busy \cup {t}
             /\ writes' = writes + 1 /\ writes < MaxInFlight
  <2>1. Started(h, l).pc # "idle"
    BY DEF Started
  <2>2. task[t].pc = "idle" /\ task' = [task EXCEPT ![t] = Started(h, l)]
    BY <1>2 DEF Accept, Become
  <2>3. writes' = writes + 1 /\ ~(writes >= MaxInFlight)
    BY <1>2 DEF Accept, Full
  <2>4. t \notin Busy /\ Busy' = Busy \cup {t}
    BY <1>0, <2>1, <2>2 DEF Busy
  <2>5. QED
    BY <1>0, <2>3, <2>4
<1>3. ASSUME NEW t \in Handlers, NEW r, Become(t, r), r.pc # "idle", task[t].pc # "idle"
      PROVE  Busy' = Busy
  BY <1>0, <1>3 DEF Become, Busy
<1>4. ASSUME NEW t \in Handlers, NEW step, Goto(t, step), step # "idle", task[t].pc # "idle"
      PROVE  Busy' = Busy
  <2>1. task[t] \in [pc : Steps, host : Hosts \cup {NoHost}, line : LineKinds, at : Nat,
                     pick : [Hosts -> Servers \cup {NoServer}],
                     server : Servers \cup {NoServer}, id : Nat]
    BY <1>0 DEF Tasks
  <2>2. [task[t] EXCEPT !.pc = step].pc = step
    BY <2>1
  <2>3. QED
    BY <1>3, <1>4, <2>2 DEF Goto
<1>5. ASSUME NEW t \in Handlers, Finish(t), task[t].pc # "idle"
      PROVE  t \in Busy /\ Busy' = Busy \ {t} /\ writes' = writes - 1
  BY <1>0, <1>5 DEF Finish, Become, Idle, Busy
<1>6. ASSUME NEW t \in Handlers, HandlerStep(t)
      PROVE  \/ Busy' = Busy /\ writes' = writes
             \/ t \in Busy /\ Busy' = Busy \ {t} /\ writes' = writes - 1
  <2>0. task[t] \in [pc : Steps, host : Hosts \cup {NoHost}, line : LineKinds, at : Nat,
                     pick : [Hosts -> Servers \cup {NoServer}],
                     server : Servers \cup {NoServer}, id : Nat]
    BY <1>0 DEF Tasks
  <2>1. CASE ReadServers(t)
    <3>1. PICK p \in Picks : Become(t, [task[t] EXCEPT !.pc = "reply", !.pick = p])
      BY <2>1 DEF ReadServers
    <3>2. QED
      BY <1>3, <2>0, <2>1, <3>1 DEF ReadServers
  <2>2. CASE FillCache(t)
    BY <1>3, <2>0, <2>2 DEF FillCache
  <2>3. CASE Unknown(t) \/ WriteLogFile(t) \/ Fail(t)
    BY <1>5, <2>3 DEF Unknown, WriteLogFile, Fail, Awaiting
  <2>4. CASE Matched(t)
    BY <1>4, <2>4 DEF Matched
  <2>5. CASE InsertPpp(t) \/ MarkOnline(t) \/ PushRow(t)
    BY <1>4, <2>5 DEF InsertPpp, MarkOnline, PushRow
  <2>6. CASE WritePppFile(t)
    BY <1>4, <1>5, <2>6 DEF WritePppFile
  <2>7. CASE InsertLog(t)
    BY <1>3, <2>0, <2>7 DEF InsertLog
  <2>8. QED
    BY <1>6, <2>1, <2>2, <2>3, <2>4, <2>5, <2>6, <2>7 DEF HandlerStep
<1>7. ASSUME Tick \/ UNCHANGED vars PROVE Busy' = Busy /\ writes' = writes
  BY <1>7 DEF Tick, vars, Busy
<1>8. ASSUME Restart PROVE Busy' = {} /\ writes' = 0
  BY <1>8 DEF Restart, Idle, Busy
<1>9. ASSUME NEW s \in Servers,
             \/ \E a \in Addresses : CreateServer(s, a) \/ UpdateServer(s, a)
             \/ \E b \in BOOLEAN : ToggleServer(s, b)
             \/ RemoveServer(s)
      PROVE  Busy' = Busy /\ writes' = writes
  BY <1>9 DEF CreateServer, UpdateServer, ToggleServer, RemoveServer, EditTable, Busy
<1>10. QED
  BY <1>1, <1>2, <1>6, <1>7, <1>8, <1>9 DEF Next, Busy

\* The in-flight counter is the number of running handlers and never exceeds
\* maxInFlight, on every path out of handle().
THEOREM SlotsAreAccounted == Spec => []SlotAccounting
<1>1. Init => SlotAccounting
  <2>1. Init => Busy = {} /\ writes = 0
    BY DEF Init, Busy, Idle
  <2>2. QED
    BY <2>1, FS_EmptySet, IngestAssumption DEF SlotAccounting
<1>2. TypeOK /\ SlotAccounting /\ [Next]_vars => SlotAccounting'
  <2> SUFFICES ASSUME TypeOK, SlotAccounting, [Next]_vars PROVE SlotAccounting'
    OBVIOUS
  <2>1. IsFiniteSet(Busy) /\ Cardinality(Busy) \in Nat
    BY FS_Subset, FS_CardinalityType, IngestAssumption DEF Busy
  <2>2. writes = Cardinality(Busy) /\ writes <= MaxInFlight /\ MaxInFlight \in Nat \ {0}
    BY IngestAssumption DEF SlotAccounting
  <2>3. CASE Busy' = Busy /\ writes' = writes
    BY <2>2, <2>3 DEF SlotAccounting
  <2>4. ASSUME NEW t \in Handlers \ Busy, Busy' = Busy \cup {t}, writes' = writes + 1,
               writes < MaxInFlight
        PROVE  SlotAccounting'
    <3>1. Cardinality(Busy \cup {t}) = Cardinality(Busy) + 1
      BY <2>1, <2>4, FS_AddElement
    <3>2. QED
      BY <2>1, <2>2, <2>4, <3>1 DEF SlotAccounting
  <2>5. ASSUME NEW t \in Busy, Busy' = Busy \ {t}, writes' = writes - 1
        PROVE  SlotAccounting'
    <3>1. Cardinality(Busy \ {t}) = Cardinality(Busy) - 1
      BY <2>1, <2>5, FS_RemoveElement
    <3>2. QED
      BY <2>1, <2>2, <2>5, <3>1 DEF SlotAccounting
  <2>6. CASE Busy' = {} /\ writes' = 0
    BY <2>2, <2>6, FS_EmptySet DEF SlotAccounting
  <2>7. QED
    BY <2>3, <2>4, <2>5, <2>6, SlotSteps
<1>3. QED
  BY <1>1, <1>2, TypeCorrect, PTL DEF Spec

-----------------------------------------------------------------------------
(* The counter of the day.                                                    *)

\* The day of a later second is not an earlier day.
LEMMA DaysGoOn ==
    ASSUME NEW n \in Nat, NEW d \in Nat \ {0}
    PROVE  /\ n \div d \in Int /\ (n + 1) \div d \in Int
           /\ n \div d <= (n + 1) \div d
<1> DEFINE q == n \div d
           p == (n + 1) \div d
<1>1. /\ q \in Int /\ p \in Int /\ n % d \in 0..(d - 1) /\ (n + 1) % d \in 0..(d - 1)
      /\ n = d * q + (n % d) /\ n + 1 = d * p + ((n + 1) % d)
  OBVIOUS
<1>2. ASSUME p < q PROVE FALSE
  <2>1. q - p - 1 \in Nat
    BY <1>1, <1>2
  <2>2. d * (q - p - 1) \in Nat
    BY <2>1
  <2>3. d * (q - p - 1) = d * q - d * p - d
    BY <1>1
  <2>4. d * q \in Int /\ d * p \in Int
    BY <1>1
  <2>5. d * q >= d * p + d
    BY <2>2, <2>3, <2>4
  <2> HIDE DEF p, q
  <2>6. n + 1 > n
    OBVIOUS
  <2>7. (n + 1) % d < d /\ n % d >= 0 /\ (n + 1) % d \in Int /\ n % d \in Int
    BY <1>1
  <2> QED
    BY <1>1, <2>4, <2>5, <2>6, <2>7
<1> QED
  BY <1>1, <1>2

\* The counter's day is not one to come; then a midnight makes it that of another day.
CounterInv == received.day <= Today /\ CounterExact

\* What a step does to the counter: it counts what it admits, or time passes, or the
\* process starts again, or nothing.
LEMMA CounterSteps ==
    ASSUME [Next]_vars
    PROVE  \/ UNCHANGED <<clock, received, admitted>>
           \/ clock' = clock /\ received' = Bumped /\ admitted' = admitted + 1
           \/ /\ clock' = clock + 1 /\ received' = received
              /\ admitted' = IF (clock + 1) \div DaySeconds = Today THEN admitted ELSE 0
           \/ clock' = clock /\ received' = [day |-> Today, count |-> 0] /\ admitted' = 0
<1> USE DEF dbVars, memVars, ghostVars
<1>1. ASSUME NEW h \in Hosts, DropOverRate(h) \/ DropBusy(h)
      PROVE  UNCHANGED <<clock, received, admitted>>
  BY <1>1 DEF DropOverRate, DropBusy
<1>2. ASSUME NEW t \in Handlers, HandlerStep(t)
      PROVE  UNCHANGED <<clock, received, admitted>>
  BY <1>2 DEF HandlerStep, ReadServers, FillCache, Unknown, Matched, InsertPpp, MarkOnline,
              WritePppFile, InsertLog, PushRow, WriteLogFile, Fail
<1>3. ASSUME NEW s \in Servers,
             \/ \E a \in Addresses : CreateServer(s, a) \/ UpdateServer(s, a)
             \/ \E b \in BOOLEAN : ToggleServer(s, b)
             \/ RemoveServer(s)
      PROVE  UNCHANGED <<clock, received, admitted>>
  BY <1>3 DEF CreateServer, UpdateServer, ToggleServer, RemoveServer, EditTable
<1>4. ASSUME NEW t \in Handlers, NEW h \in Hosts, NEW l \in Lines, Accept(t, h, l)
      PROVE  clock' = clock /\ received' = Bumped /\ admitted' = admitted + 1
  BY <1>4 DEF Accept
<1>5. CASE Tick
  BY <1>5 DEF Tick
<1>6. CASE Restart
  BY <1>6 DEF Restart
<1>7. CASE UNCHANGED vars
  BY <1>7 DEF vars
<1> QED
  BY <1>1, <1>2, <1>3, <1>4, <1>5, <1>6, <1>7 DEF Next

\* CounterExact: the number of the day is that of the datagrams accepted since midnight
\* or, after it, since the process started.
THEOREM CounterIsExact == Spec => []CounterExact
<1>1. Init => CounterInv
  <2>1. 0 \div DaySeconds = 0
    BY IngestAssumption
  <2> QED
    BY <2>1 DEF Init, CounterInv, CounterExact, Today
<1>2. TypeOK /\ CounterInv /\ [Next]_vars => CounterInv'
  <2> SUFFICES ASSUME TypeOK, CounterInv, [Next]_vars PROVE CounterInv'
    OBVIOUS
  <2>1. /\ clock \in Nat /\ DaySeconds \in Nat \ {0} /\ Today \in Int
        /\ received \in [day : Int, count : Nat] /\ admitted \in Nat
    BY TodayType, IngestAssumption DEF TypeOK, MemTypeOK, RestTypeOK
  <2>2. CASE UNCHANGED <<clock, received, admitted>>
    BY <2>2 DEF CounterInv, CounterExact, Today
  <2>3. CASE clock' = clock /\ received' = Bumped /\ admitted' = admitted + 1
    <3>1. Today' = Today
      BY <2>3 DEF Today
    <3>2. received'.day = Today /\ received'.count = admitted + 1
      BY <2>1, <2>3 DEF Bumped, CounterInv, CounterExact
    <3> QED
      BY <2>1, <2>3, <3>1, <3>2 DEF CounterInv, CounterExact
  <2>4. CASE /\ clock' = clock + 1 /\ received' = received
             /\ admitted' = IF (clock + 1) \div DaySeconds = Today THEN admitted ELSE 0
    <3>1. Today' = (clock + 1) \div DaySeconds
      BY <2>4 DEF Today
    <3>2. Today' \in Int /\ Today <= Today'
      BY <2>1, <3>1, DaysGoOn DEF Today
    <3>3. received.day <= Today /\ CounterExact
      BY DEF CounterInv
    <3>4. received'.day <= Today'
      BY <2>1, <2>4, <3>2, <3>3
    <3>5. CASE Today' = Today
      BY <2>4, <3>1, <3>3, <3>4, <3>5 DEF CounterInv, CounterExact
    <3>6. CASE Today' # Today
      <4>1. received'.day # Today' /\ admitted' = 0
        BY <2>1, <2>4, <3>1, <3>2, <3>3, <3>6
      <4> QED
        BY <3>4, <4>1 DEF CounterInv, CounterExact
    <3> QED
      BY <3>5, <3>6
  <2>5. CASE clock' = clock /\ received' = [day |-> Today, count |-> 0] /\ admitted' = 0
    <3>1. Today' = Today
      BY <2>5 DEF Today
    <3> QED
      BY <2>1, <2>5, <3>1 DEF CounterInv, CounterExact
  <2> QED
    BY <2>2, <2>3, <2>4, <2>5, CounterSteps
<1>3. CounterInv => CounterExact
  BY DEF CounterInv
<1> QED
  BY <1>1, <1>2, <1>3, TypeCorrect, PTL DEF Spec

-----------------------------------------------------------------------------
(* The daily files.                                                           *)

\* A handler that has got as far as the file has the id the database gave for its
\* router: the insert is the only way there.
Inserted(q, id, s) == id \in 1..Len(q) /\ q[id] = s
ArchiveInv ==
    /\ ArchiveFollowsInsert
    /\ \A t \in Handlers :
          task[t].pc \in {"created", "logOnline", "logFile"}
             => Inserted(owner, task[t].id, task[t].server)

\* A row that was inserted stays so: ids are only added, and never to another router.
LEMMA InsertedStays ==
    ASSUME TypeOK, [Next]_vars
    PROVE  \A id, s : Inserted(owner, id, s) => Inserted(owner', id, s)
<1> USE DEF dbVars
<1>1. owner' = owner \/ \E s \in Servers : owner' = Append(owner, s)
  <2>1. ASSUME NEW t \in Handlers, InsertLog(t) PROVE \E s \in Servers : owner' = Append(owner, s)
    <3>1. task[t].server \in Servers
      BY <2>1 DEF InsertLog, TypeOK, Tasks, Chosen, Steps, Awaiting
    <3> QED
      BY <2>1, <3>1 DEF InsertLog
  <2>2. ASSUME NEW t \in Handlers, HandlerStep(t), ~ InsertLog(t) PROVE owner' = owner
    BY <2>2 DEF HandlerStep, ReadServers, FillCache, Unknown, Matched, InsertPpp, MarkOnline,
                WritePppFile, PushRow, WriteLogFile, Fail
  <2>3. ASSUME NEW s \in Servers,
               \/ \E a \in Addresses : CreateServer(s, a) \/ UpdateServer(s, a)
               \/ \E b \in BOOLEAN : ToggleServer(s, b)
               \/ RemoveServer(s)
        PROVE  owner' = owner
    BY <2>3 DEF CreateServer, UpdateServer, ToggleServer, RemoveServer, EditTable
  <2>4. CASE Tick \/ Restart \/ UNCHANGED vars
    BY <2>4 DEF Tick, Restart, vars
  <2>5. ASSUME NEW h \in Hosts, DropOverRate(h) \/ DropBusy(h) PROVE owner' = owner
    BY <2>5 DEF DropOverRate, DropBusy
  <2>6. ASSUME NEW t \in Handlers, NEW h \in Hosts, NEW l \in Lines, Accept(t, h, l)
        PROVE  owner' = owner
    BY <2>6 DEF Accept
  <2> QED
    BY <2>1, <2>2, <2>3, <2>4, <2>5, <2>6 DEF Next
<1>2. owner \in Seq(Servers)
  BY DEF TypeOK, DbTypeOK
<1> QED
  BY <1>1, <1>2 DEF Inserted

\* A step of one handler that keeps to the order: no line without a row.
LEMMA ArchiveKept ==
    ASSUME TypeOK, ArchiveInv, [Next]_vars, NEW t \in Handlers, NEW r, Become(t, r),
           r.pc \in {"created", "logOnline", "logFile"} => Inserted(owner', r.id, r.server),
           \A e \in archive' \ archive : e.kind = "NAT" => Inserted(owner, e.id, e.server)
    PROVE  ArchiveInv'
<1>1. \A u \in Handlers : task'[u] = IF u = t THEN r ELSE task[u]
  BY DEF Become, TypeOK
<1>2. \A e \in archive : e.kind = "NAT" => Inserted(owner, e.id, e.server)
  BY DEF ArchiveInv, ArchiveFollowsInsert, Inserted
<1>3. \A e \in archive' : e.kind = "NAT" => Inserted(owner', e.id, e.server)
  BY <1>2, InsertedStays
<1>4. \A u \in Handlers : task'[u].pc \in {"created", "logOnline", "logFile"}
                            => Inserted(owner', task'[u].id, task'[u].server)
  BY <1>1, InsertedStays DEF ArchiveInv
<1>5. ArchiveFollowsInsert'
  BY <1>3 DEF ArchiveFollowsInsert, Inserted
<1>6. (\A u \in Handlers : task[u].pc \in {"created", "logOnline", "logFile"}
                            => Inserted(owner, task[u].id, task[u].server))'
  BY <1>4
<1> QED
  BY <1>5, <1>6 DEF ArchiveInv

\* A step of no handler, or of a restart that ends all.
LEMMA ArchiveRests ==
    ASSUME TypeOK, ArchiveInv, [Next]_vars, archive' = archive,
           \A t \in Handlers : task'[t] \in {task[t], Idle}
    PROVE  ArchiveInv'
<1>1. ArchiveFollowsInsert'
  <2>1. \A e \in archive : e.kind = "NAT" => Inserted(owner, e.id, e.server)
    BY DEF ArchiveInv, ArchiveFollowsInsert, Inserted
  <2>2. \A e \in archive' : e.kind = "NAT" => Inserted(owner', e.id, e.server)
    BY <2>1, InsertedStays
  <2> QED
    BY <2>2 DEF ArchiveFollowsInsert, Inserted
<1>2. \A t \in Handlers : task'[t].pc \in {"created", "logOnline", "logFile"}
                            => Inserted(owner', task'[t].id, task'[t].server)
  BY InsertedStays DEF ArchiveInv, Idle
<1> QED
  BY <1>1, <1>2 DEF ArchiveInv

\* The handlers, step by step.
LEMMA ArchiveHandlers ==
    ASSUME TypeOK, ArchiveInv, NEW t \in Handlers, HandlerStep(t)
    PROVE  ArchiveInv'
<1>1. task[t] \in Tasks /\ owner \in Seq(Servers) /\ [Next]_vars
  BY DEF TypeOK, DbTypeOK, Next
<1>2. \A step \in Steps : LET r == [task[t] EXCEPT !.pc = step]
                          IN  r.pc = step /\ r.id = task[t].id /\ r.server = task[t].server
  BY <1>1 DEF Tasks
<1>3. Idle.pc = "idle"
  BY DEF Idle
<1>4. ASSUME archive' = archive, Become(t, Idle) PROVE ArchiveInv'
  BY <1>1, <1>3, <1>4, ArchiveKept
<1>5. ASSUME archive' = archive, NEW step \in Steps, Goto(t, step),
             step \notin {"created", "logOnline", "logFile"}
      PROVE  ArchiveInv'
  BY <1>1, <1>2, <1>5, ArchiveKept DEF Goto
<1>6. CASE Unknown(t) \/ Fail(t)
  BY <1>4, <1>6 DEF Unknown, Fail, Finish
<1>7. CASE ReadServers(t)
  <2>1. PICK p \in Picks : Become(t, [task[t] EXCEPT !.pc = "reply", !.pick = p])
    BY <1>7 DEF ReadServers
  <2>2. [task[t] EXCEPT !.pc = "reply", !.pick = p].pc = "reply" /\ archive' = archive
    BY <1>1, <1>7 DEF ReadServers, Tasks
  <2> QED
    BY <1>1, <2>1, <2>2, ArchiveKept
<1>8. CASE FillCache(t)
  <2> DEFINE s == task[t].pick[task[t].host]
             r == [task[t] EXCEPT !.pc = "matched", !.pick = NoPick, !.server = s]
  <2>1. Become(t, r) /\ archive' = archive
    BY <1>8 DEF FillCache
  <2> HIDE DEF s
  <2>2. r.pc = "matched"
    BY <1>1 DEF Tasks
  <2> HIDE DEF r
  <2> QED
    BY <1>1, <2>1, <2>2, ArchiveKept
<1>9. CASE Matched(t)
  <2>1. PICK step \in {"logInsert", "pppInsert", "pppOnline"} : Goto(t, step)
    BY <1>9 DEF Matched
  <2> QED
    BY <1>5, <1>9, <2>1 DEF Matched, Steps, Awaiting
<1>10. CASE InsertPpp(t)
  BY <1>5, <1>10 DEF InsertPpp, Steps, Awaiting
<1>11. CASE MarkOnline(t)
  <2>1. CASE task[t].pc = "pppOnline"
    BY <1>5, <1>11, <2>1 DEF MarkOnline, Steps
  <2>2. CASE task[t].pc = "logOnline"
    <3>1. Inserted(owner', task[t].id, task[t].server)
      BY <1>1, <2>2, InsertedStays DEF ArchiveInv
    <3>2. Goto(t, "logFile") /\ archive' = archive /\ "logFile" \in Steps
      BY <1>11, <2>2 DEF MarkOnline, Steps
    <3> QED
      BY <1>1, <1>2, <3>1, <3>2, ArchiveKept DEF Goto
  <2> QED
    BY <1>11, <2>1, <2>2 DEF MarkOnline
<1>12. CASE WritePppFile(t)
  <2>1. \A e \in archive' \ archive : e.kind # "NAT"
    BY <1>12 DEF WritePppFile, Archive
  <2>2. CASE Goto(t, "logInsert")
    <3>1. [task[t] EXCEPT !.pc = "logInsert"].pc = "logInsert"
      BY <1>1 DEF Tasks
    <3>2. Become(t, [task[t] EXCEPT !.pc = "logInsert"])
      BY <2>2 DEF Goto
    <3> QED
      BY <1>1, <2>1, <3>1, <3>2, ArchiveKept
  <2>3. CASE Finish(t)
    BY <1>1, <1>3, <2>1, <2>3, ArchiveKept DEF Finish
  <2> QED
    BY <1>12, <2>2, <2>3 DEF WritePppFile
<1>13. CASE InsertLog(t)
  <2> DEFINE r == [task[t] EXCEPT !.pc = "created", !.id = Len(owner) + 1]
  <2>1. Become(t, r) /\ archive' = archive /\ owner' = Append(owner, task[t].server)
    BY <1>13 DEF InsertLog
  <2>2. r.id = Len(owner) + 1 /\ r.server = task[t].server /\ task[t].server \in Servers
    BY <1>1, <1>13 DEF InsertLog, Tasks, Chosen, Steps, Awaiting
  <2> HIDE DEF r
  <2>3. Inserted(owner', r.id, r.server)
    BY <1>1, <2>1, <2>2 DEF Inserted
  <2> QED
    BY <1>1, <2>1, <2>3, ArchiveKept
<1>14. CASE PushRow(t)
  <2>1. Inserted(owner', task[t].id, task[t].server)
    BY <1>1, <1>14, InsertedStays DEF ArchiveInv, PushRow
  <2>2. Goto(t, "logOnline") /\ archive' = archive /\ "logOnline" \in Steps
    BY <1>14 DEF PushRow, Steps, Awaiting
  <2> QED
    BY <1>1, <1>2, <2>1, <2>2, ArchiveKept DEF Goto
<1>15. CASE WriteLogFile(t)
  <2>1. Inserted(owner, task[t].id, task[t].server)
    BY <1>15 DEF ArchiveInv, WriteLogFile
  <2>2. \A e \in archive' \ archive : e.id = task[t].id /\ e.server = task[t].server
    BY <1>15 DEF WriteLogFile, Archive
  <2>3. Become(t, Idle)
    BY <1>15 DEF WriteLogFile, Finish
  <2> QED
    BY <1>1, <1>3, <2>1, <2>2, <2>3, ArchiveKept
<1> QED
  BY <1>6, <1>7, <1>8, <1>9, <1>10, <1>11, <1>12, <1>13, <1>14, <1>15 DEF HandlerStep

\* ArchiveFollowsInsert: a traffic line in the daily files has, or had, its row in the
\* database, under the same router.
THEOREM ArchivedIsInserted == Spec => []ArchiveFollowsInsert
<1>1. Init => ArchiveInv
  BY DEF Init, ArchiveInv, ArchiveFollowsInsert, Idle
<1>2. TypeOK /\ ArchiveInv /\ [Next]_vars => ArchiveInv'
  <2> SUFFICES ASSUME TypeOK, ArchiveInv, [Next]_vars PROVE ArchiveInv'
    OBVIOUS
  <2>1. ASSUME NEW h \in Hosts, DropOverRate(h) \/ DropBusy(h) PROVE ArchiveInv'
    BY <2>1, ArchiveRests DEF DropOverRate, DropBusy
  <2>2. ASSUME NEW t \in Handlers, NEW h \in Hosts, NEW l \in Lines, Accept(t, h, l)
        PROVE  ArchiveInv'
    <3>1. Become(t, Started(h, l)) /\ archive' = archive
      BY <2>2 DEF Accept
    <3>2. Started(h, l).pc \in {"matched", "query"}
      BY DEF Started
    <3> QED
      BY <3>1, <3>2, ArchiveKept
  <2>3. CASE Tick \/ Restart \/ UNCHANGED vars
    BY <2>3, ArchiveRests DEF Tick, Restart, vars
  <2>4. ASSUME NEW s \in Servers,
               \/ \E a \in Addresses : CreateServer(s, a) \/ UpdateServer(s, a)
               \/ \E b \in BOOLEAN : ToggleServer(s, b)
               \/ RemoveServer(s)
        PROVE  ArchiveInv'
    BY <2>4, ArchiveRests DEF CreateServer, UpdateServer, ToggleServer, RemoveServer, EditTable
  <2> QED
    BY <2>1, <2>2, <2>3, <2>4, ArchiveHandlers DEF Next
<1>3. ArchiveInv => ArchiveFollowsInsert
  BY DEF ArchiveInv
<1> QED
  BY <1>1, <1>2, <1>3, TypeCorrect, PTL DEF Spec
=============================================================================
