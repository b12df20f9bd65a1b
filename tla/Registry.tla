------------------------------ MODULE Registry ------------------------------
(* The registry of routers and its copy on disk.  ServersService checks, writes *)
(* the server table and then, without waiting, has WebConfigService copy the    *)
(* table to servers.json; CompanyController copies it too, and then gives every *)
(* router the port of the settings without another copy.  At start the file     *)
(* gives back the routers the database does not have.  Requests of              *)
(* administrators overlap, every query is a point where others may run, the     *)
(* process crashes, a write of the file fails or is torn, and the database may  *)
(* be lost and come up empty.                                                   *)
EXTENDS Integers, FiniteSets, Sequences

CONSTANTS
    Urls, NoUrl,    \* router addresses
    Ports, NoPort,  \* what the port of a router can be; no port to be given to all
    Entered,        \* the ports that are entered for a single router
    Requests,       \* requests that can be in progress, with the copying they start
    MaxIds,         \* bounds: ids of the server table, requests, license verdicts,
    MaxRequests, MaxVerdicts, MaxFaults   \* crashes, losses and failed writes

ASSUME RegistryAssumption ==
    /\ Entered \subseteq Ports
    /\ NoUrl \notin Urls
    /\ {MaxIds, MaxRequests, MaxVerdicts, MaxFaults} \subseteq Nat

VARIABLES
    table,        \* the server table by id; NoRow where there is none
    lastId,       \* the last id given
    file,         \* servers.json: its rows; <<>> if it is absent, empty or unreadable
    licensed,     \* allowed of the license service
    boot,         \* restoreServers at start; requests are served when pc is "up"
    task,         \* the state of each request
    version,      \* history: changes of the table
    due,          \* history: the newest of them that has a copy made after it
    ported,       \* history: the newest that gave every router a port
    copied,       \* history: the version whose rows the file holds
    missed,       \* history: the newest version that failed to reach the file or was
                  \* overwritten there by an older one
    owed,         \* history: addresses in the file when the database was lost
    everLicensed, \* history
    spent         \* what has been used of the bounds

copying == <<file, copied, missed>>
changes == <<version, due, ported>>
registryVars == <<table, lastId, copying, licensed, boot, task, changes, owed, everLicensed, spent>>

Ids == 1..MaxIds
RouterRows == [url : Urls, disabled : BOOLEAN, long : BOOLEAN, port : Ports]
Bodies == {r \in RouterRows : ~r.disabled /\ r.port \in Entered}   \* what a request can say
NoRow == [url |-> NoUrl, disabled |-> FALSE, long |-> FALSE, port |-> NoPort]
Live == {i \in Ids : table[i] # NoRow}
Registered == {table[i].url : i \in Live}

(* What persistServers reads: the rows in the order of their ids.              *)
RowsOf(rows) ==
    LET upTo[i \in 0..MaxIds] ==
            IF i = 0 THEN <<>>
            ELSE IF rows[i] = NoRow THEN upTo[i - 1] ELSE Append(upTo[i - 1], rows[i])
    IN  upTo[MaxIds]
Snapshot == RowsOf(table)

Idle == [pc |-> "idle", id |-> 0, row |-> NoRow, port |-> NoPort, seen |-> <<>>, at |-> 0]
Up == [pc |-> "up", todo |-> <<>>, known |-> {}]
Booting == [Up EXCEPT !.pc = "read"]

(* A server without routers, or one that has been quiet with one.              *)
RegistryInit ==
    /\ table \in {[i \in Ids |-> IF i = 1 THEN row ELSE NoRow] : row \in Bodies \cup {NoRow}}
    /\ lastId = Cardinality(Live)
    /\ file = Snapshot /\ copied = 0 /\ missed = 0
    /\ licensed \in BOOLEAN /\ everLicensed = (licensed \/ \E i \in Live : table[i].long)
    /\ boot = Up
    /\ task = [t \in Requests |-> Idle]
    /\ version = 0 /\ due = 0 /\ ported = 0 /\ owed = {}
    /\ spent = [requests |-> 0, verdicts |-> 0, faults |-> 0]

Spend(what, max) == /\ spent[what] < max
                    /\ spent' = [spent EXCEPT ![what] = @ + 1]

-----------------------------------------------------------------------------
(* Requests.  A step is a query and the code that runs on its answer, up to the *)
(* next query.                                                                *)
Become(t, r) == task' = [task EXCEPT ![t] = r]

Ask(t, r) ==
    /\ boot.pc = "up" /\ task[t].pc = "idle"
    /\ Spend("requests", MaxRequests)
    /\ Become(t, r)
    /\ UNCHANGED <<table, lastId, copying, licensed, boot, changes, owed, everLicensed>>

(* assertRetentionLicensed                                                    *)
RetentionUnchecked(row) == TRUE
RetentionLicensed(row) == row.long => licensed

(* create: an unlicensed server counts its routers first (assertCanAddServer). *)
AskCreate(t, row) ==
    Ask(t, [Idle EXCEPT !.pc = IF licensed THEN "find" ELSE "count", !.row = row])

(* update, toggle and remove read their row first (getRaw).                   *)
AskUpdate(t, i, row) ==
    /\ RetentionLicensed(row)
    /\ Ask(t, [Idle EXCEPT !.pc = "update", !.id = i, !.row = row])
AskToggle(t, i) ==
    Ask(t, [Idle EXCEPT !.pc = "toggle", !.id = i, !.row = [table[i] EXCEPT !.disabled = ~@]])
AskRemove(t, i) ==
    Ask(t, [Idle EXCEPT !.pc = "remove", !.id = i])

GoOn(t, ok, step) == Become(t, IF ok THEN [task[t] EXCEPT !.pc = step] ELSE Idle)

Check(t) ==
    /\ \/ /\ task[t].pc = "count"
          /\ GoOn(t, Live = {} /\ RetentionLicensed(task[t].row), "find")
       \/ /\ task[t].pc = "find"
          /\ GoOn(t, task[t].row.url \notin Registered, "insert")
    /\ UNCHANGED <<table, lastId, copying, licensed, boot, changes, owed, everLicensed, spent>>

(* A change of the table that a copy follows.                                 *)
Changed == version' = version + 1 /\ due' = version + 1 /\ UNCHANGED ported

(* A write ends the request; the copying it starts is not waited for.         *)
Write(t, rows) ==
    /\ table' = rows
    /\ Changed
    /\ Become(t, [Idle EXCEPT !.pc = "persist"])
    /\ UNCHANGED <<copying, licensed, boot, everLicensed, spent>>

Insert(t) ==
    /\ task[t].pc = "insert"
    /\ lastId < MaxIds
    /\ Write(t, [table EXCEPT ![lastId + 1] = task[t].row])
    /\ lastId' = lastId + 1
    /\ UNCHANGED owed

(* update and delete of a row that is gone throw; update leaves disabled alone. *)
Gone(t) ==
    /\ task[t].pc \in {"update", "toggle", "remove"} /\ task[t].id \notin Live
    /\ Become(t, Idle)
    /\ UNCHANGED <<table, lastId, copying, licensed, boot, changes, owed, everLicensed, spent>>

Rewritten(t) ==
    IF task[t].pc = "toggle" THEN [table[task[t].id] EXCEPT !.disabled = task[t].row.disabled]
    ELSE [task[t].row EXCEPT !.disabled = table[task[t].id].disabled]

UpdateUnchecked(t) ==
    /\ task[t].pc \in {"update", "toggle"}
    /\ Write(t, [table EXCEPT ![task[t].id] = Rewritten(t)])
    /\ owed' = owed \ {table[task[t].id].url}
    /\ UNCHANGED lastId
Update(t) ==
    /\ task[t].pc \in {"update", "toggle"} /\ task[t].id \in Live
    /\ Write(t, [table EXCEPT ![task[t].id] = Rewritten(t)])
    /\ owed' = owed \ {table[task[t].id].url}
    /\ UNCHANGED lastId

RemoveUnsaved(t) ==
    /\ task[t].pc = "remove" /\ task[t].id \in Live
    /\ table' = [table EXCEPT ![task[t].id] = NoRow]
    /\ Changed
    /\ Become(t, Idle)
    /\ owed' = owed \ {table[task[t].id].url}
    /\ UNCHANGED <<lastId, copying, licensed, boot, everLicensed, spent>>
Remove(t) ==
    /\ task[t].pc = "remove" /\ task[t].id \in Live
    /\ Write(t, [table EXCEPT ![task[t].id] = NoRow])
    /\ owed' = owed \ {table[task[t].id].url}
    /\ UNCHANGED lastId

(* The requests for a favicon or a license key have the table copied too        *)
(* (persistCurrent); so has a PUT of the settings, which then changes it: the   *)
(* new ports are not copied.                                                  *)
AskSettings(t, port) ==
    Ask(t, [Idle EXCEPT !.pc = "persist", !.port = port])

Spread(t) ==
    /\ task[t].pc = "spread"
    /\ table' = [i \in Ids |-> IF i \in Live THEN [table[i] EXCEPT !.port = task[t].port] ELSE NoRow]
    /\ version' = version + 1 /\ ported' = version + 1
    /\ Become(t, Idle)
    /\ UNCHANGED <<lastId, copying, licensed, boot, due, owed, everLicensed, spent>>

-----------------------------------------------------------------------------
(* persistServers: the rows are read, and written when the answer is there.   *)
Persist(t) ==
    /\ task[t].pc = "persist"
    /\ Become(t, [task[t] EXCEPT !.pc = "save", !.seen = Snapshot, !.at = version])
    /\ UNCHANGED <<table, lastId, copying, licensed, boot, changes, owed, everLicensed, spent>>

(* A PUT of the settings waits for the copy, and gives every router its port   *)
(* when that has ended, well or not; nobody else waits for it.                *)
CopyEnds(t) ==
    Become(t, IF task[t].port = NoPort THEN Idle
              ELSE [Idle EXCEPT !.pc = "spread", !.port = task[t].port])

Later(a, b) == IF a < b THEN b ELSE a

Copy(rows, at) ==
    /\ file' = rows
    /\ copied' = at
    /\ missed' = IF at < copied THEN Later(missed, copied) ELSE missed

SaveFile(t) ==
    /\ task[t].pc = "save"
    /\ Copy(task[t].seen, task[t].at)
    /\ CopyEnds(t)
    /\ UNCHANGED <<table, lastId, licensed, boot, changes, owed, everLicensed, spent>>

(* A failure of either is logged.                                             *)
NotCopied(at) ==
    /\ Spend("faults", MaxFaults)
    /\ missed' = Later(missed, at)
    /\ UNCHANGED <<file, copied>>

SaveFileFails(t) ==
    /\ task[t].pc \in {"persist", "save"}
    /\ NotCopied(IF task[t].pc = "save" THEN task[t].at ELSE version)
    /\ CopyEnds(t)
    /\ UNCHANGED <<table, lastId, licensed, boot, changes, owed, everLicensed>>

-----------------------------------------------------------------------------
(* restoreServers, before any request is served.                              *)
BootRead ==
    /\ boot.pc = "read"
    /\ boot' = IF file = <<>> THEN [Up EXCEPT !.pc = "persist"]
               ELSE [pc |-> "restore", todo |-> file, known |-> Registered]
    /\ UNCHANGED <<table, lastId, copying, licensed, task, changes, owed, everLicensed, spent>>

RestoreStuck ==
    /\ boot.pc = "restore" /\ boot.todo # <<>>
    /\ Head(boot.todo).url \in boot.known
    /\ UNCHANGED registryVars
RestoreKnown ==
    /\ boot.pc = "restore" /\ boot.todo # <<>>
    /\ Head(boot.todo).url \in boot.known
    /\ boot' = [boot EXCEPT !.todo = Tail(@)]
    /\ UNCHANGED <<table, lastId, copying, licensed, task, changes, owed, everLicensed, spent>>

KnownBefore(row) == boot.known
KnownAfter(row) == boot.known \cup {row.url}

RestoreRow ==
    LET row == Head(boot.todo) IN
    /\ boot.pc = "restore" /\ boot.todo # <<>> /\ row.url \notin boot.known
    /\ lastId < MaxIds
    /\ table' = [table EXCEPT ![lastId + 1] = row]
    /\ lastId' = lastId + 1
    /\ Changed
    /\ boot' = [boot EXCEPT !.todo = Tail(@), !.known = KnownAfter(row)]
    /\ UNCHANGED <<copying, licensed, task, owed, everLicensed, spent>>

RestoredEarly == boot.pc = "restore"
Restored == boot.pc = "restore" /\ boot.todo = <<>>

BootPersist ==
    /\ boot.pc = "persist" \/ Restored
    /\ \/ Copy(Snapshot, version) /\ UNCHANGED spent
       \/ NotCopied(version)
    /\ boot' = Up
    /\ UNCHANGED <<table, lastId, licensed, task, changes, owed, everLicensed>>

Starting == BootRead \/ RestoreKnown \/ RestoreRow \/ BootPersist

-----------------------------------------------------------------------------
(* The license, and the process: a crash in writeFileSync tears the file.     *)
Decide ==
    /\ Spend("verdicts", MaxVerdicts)
    /\ licensed' = ~licensed
    /\ everLicensed' = TRUE
    /\ UNCHANGED <<table, lastId, copying, boot, task, changes, owed>>

Writing == boot.pc = "persist" \/ Restored \/ \E t \in Requests : task[t].pc = "save"

Stop ==
    /\ boot' = Booting
    /\ task' = [t \in Requests |-> Idle]
    /\ \/ UNCHANGED copying
       \/ Writing /\ Copy(<<>>, -1)
    /\ UNCHANGED <<licensed, everLicensed>>

Crash ==
    /\ Spend("faults", MaxFaults)
    /\ Stop
    /\ UNCHANGED <<table, lastId, changes, owed>>

(* The database is replaced by an empty one, and the server starts on it.     *)
LoseDatabase ==
    /\ Spend("faults", MaxFaults)
    /\ Stop
    /\ table' = [i \in Ids |-> NoRow] /\ lastId' = 0
    /\ Changed
    /\ owed' = {file'[n].url : n \in DOMAIN file'}

RequestStep(t) == Check(t) \/ Insert(t) \/ Gone(t) \/ Update(t) \/ Remove(t) \/ Spread(t)
Copying(t) == Persist(t) \/ SaveFile(t) \/ SaveFileFails(t)

RegistryNext ==
    \/ \E t \in Requests :
          \/ \E row \in Bodies : AskCreate(t, row) \/ \E i \in Live : AskUpdate(t, i, row)
          \/ \E i \in Live : AskToggle(t, i) \/ AskRemove(t, i)
          \/ \E port \in Ports \cup {NoPort} : AskSettings(t, port)
          \/ RequestStep(t) \/ Copying(t)
    \/ Starting \/ Decide \/ Crash \/ LoseDatabase

RegistrySpec == RegistryInit /\ [][RegistryNext]_registryVars

(* The start goes on, and what a write has started.                           *)
RegistryFairness == WF_registryVars(Starting) /\ \A t \in Requests : WF_registryVars(Copying(t))
FairRegistrySpec == RegistrySpec /\ RegistryFairness

-----------------------------------------------------------------------------
RegistryTypeOK ==
    /\ table \in [Ids -> RouterRows \cup {NoRow}]
    /\ lastId \in 0..MaxIds
    /\ file \in Seq(RouterRows)
    /\ {licensed, everLicensed} \subseteq BOOLEAN
    /\ boot \in [pc : {"up", "read", "restore", "persist"}, todo : Seq(RouterRows), known : SUBSET Urls]
    /\ task \in [Requests -> [pc : {"idle", "count", "find", "insert", "update", "toggle", "remove",
                                    "persist", "save", "spread"},
                              id : 0..MaxIds, row : RouterRows \cup {NoRow}, port : Ports \cup {NoPort},
                              seen : Seq(RouterRows), at : Nat]]
    /\ {version, due, ported} \subseteq Nat /\ copied \in Int /\ missed \in Nat
    /\ owed \subseteq Urls
    /\ spent \in [requests : Nat, verdicts : Nat, faults : Nat]

\* When nothing is being copied, the file holds the rows of the table, unless a write
\* of it failed or two copies overlapped and the older one was written last; only the
\* ports may be older, from a PUT of the settings until the next copy
\* (CompanyController.update spreads them after persistCurrent).
Copied == boot.pc = "up" /\ \A t \in Requests : task[t].pc \notin {"persist", "save"}
ButForPorts(rows) == [n \in DOMAIN rows |-> [rows[n] EXCEPT !.port = NoPort]]
FileIsTable ==
    Copied /\ copied >= missed =>
        IF copied < ported THEN ButForPorts(file) = ButForPorts(Snapshot) ELSE file = Snapshot

\* A restart on an empty database gives back every router the file held, also when
\* the process crashes again in the middle of it.
RestoreCompletes == boot.pc = "up" => owed \subseteq Registered

\* A restart never registers an address a second time, although overlapping creates
\* may have left it twice in the file.
RestoredOnce ==
    [][\A i \in Ids : boot.pc = "restore" /\ table[i] = NoRow /\ table'[i] # NoRow
                        => table'[i].url \notin Registered]_registryVars

\* No order of checks, restarts and license verdicts brings a long retention to a
\* server that never was licensed.
LongWasLicensed == ~everLicensed => \A i \in Live : ~table[i].long

\* A change comes to the disk, by its own copy or by the one at the end of a start:
\* a restart, a lost database among them, never stops short of serving again.  The
\* ports of a PUT of the settings are not among these changes: no copy follows them.
ChangesReachDisk == (copied < due) ~> (copied >= due \/ copied < missed)
=============================================================================
