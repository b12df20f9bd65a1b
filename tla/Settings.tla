------------------------------- MODULE Settings -------------------------------
(* The settings of the company: one row of the database, and what follows it:   *)
(* the file a restart reads them from, the API port of every router and the     *)
(* file of the routers, the cached port, the favicon on disk, the license key   *)
(* in memory.  Every request writes one before or after the other, with queries *)
(* in between, and requests overlap; a query fails, a copy fails, the process   *)
(* crashes.  A page of the browser edits the settings, and tries again when a   *)
(* save fails.                                                                 *)
EXTENDS Integers, FiniteSets

CONSTANTS
    Texts, Ports,        \* the name and other texts of the row; TCP ports
    DefaultText, DefaultPort,
    Icons, Keys, None,   \* kinds of favicon; license keys
    Routers, Clerks,     \* routers; requests being served
    MaxSettingRequests, MaxSettingFaults, MaxEdits

ASSUME SettingsAssumption ==
    /\ DefaultText \in Texts /\ DefaultPort \in Ports
    /\ None \notin Texts \cup Ports \cup Icons \cup Keys \cup Clerks
    /\ None \notin [text : Texts, port : Ports, icon : Icons \cup {None}, key : Keys \cup {None}]
    /\ {MaxSettingRequests, MaxSettingFaults, MaxEdits} \subseteq Nat

VARIABLES
    row,         \* the row of companySetting
    settingsFile,\* company-settings.json; None if it cannot be read
    portCache,   \* the cached port; None after an invalidation or when too old
    routerPort,  \* the port of each router; None if it is not registered
    filedPort,   \* servers.json: the port of each router in it; None if it has no such
                 \* router, or cannot be read
    iconOnDisk,  \* the favicon in the folder of the file
    storedKey,   \* the license key in memory
    serving,     \* FALSE from a crash until the settings are restored
    clerk,       \* the state of each request
    companyPage, \* the page of the browser
    held,        \* history: every row the database has held
    askew,       \* history: what a late, failed or cut off write left behind the row
    aware,       \* history: nobody saved since the row that the page shows was read
    used         \* what has been used of the bounds

settingsVars == <<row, settingsFile, portCache, routerPort, filedPort, iconOnDisk, storedKey,
                  serving, clerk, companyPage, held, askew, aware, used>>

Rows == [text : Texts, port : Ports, icon : Icons \cup {None}, key : Keys \cup {None}]
Forms == [text : Texts, port : Ports]
Blank == [text |-> DefaultText, port |-> DefaultPort]
Bare == [text |-> DefaultText, port |-> DefaultPort, icon |-> None, key |-> None]
FormOf(r) == [text |-> r.text, port |-> r.port]
Facets == {"file", "backup", "cache", "ports", "icon", "key"}
NoPorts == [r \in Routers |-> None]

(* behind: another request has since written what this one has yet to write;   *)
(* old: what this request has read for a file, in seen or listed, has been      *)
(* written since.                                                             *)
Resting == [pc |-> "idle", kind |-> "put", router |-> None, new |-> Bare, seen |-> Bare,
            listed |-> NoPorts, behind |-> FALSE, old |-> FALSE]

SettingsInit ==
    /\ row \in {[Bare EXCEPT !.port = p] : p \in Ports}
    /\ settingsFile = row /\ held = {row}
    /\ portCache = None
    /\ routerPort \in [Routers -> {row.port, None}] /\ filedPort = routerPort
    /\ iconOnDisk = None /\ storedKey = None
    /\ serving = TRUE
    /\ clerk = [c \in Clerks |-> Resting]
    /\ companyPage = [pc |-> "loading", form |-> Blank, saved |-> Blank, asked |-> Blank,
               by |-> None, notice |-> ""]
    /\ askew = {} /\ aware = FALSE
    /\ used = [requests |-> 0, faults |-> 0, edits |-> 0]

Use(what, max) == used[what] < max /\ used' = [used EXCEPT ![what] = @ + 1]

(* What a request has begun to change and will still bring in line.            *)
Owes(c) ==
    LET k == clerk[c] IN
    CASE k.pc = "write" /\ k.kind = "icon" -> {"icon"}
      [] k.pc = "write" /\ k.kind = "key" -> {"key"}
      [] k.pc \in {"read", "copy"} /\ k.kind = "put" -> {"file", "cache", "ports"}
      [] k.pc \in {"read", "copy"} /\ k.kind # "put" -> {"file"}
      [] k.pc \in {"list", "backup"} /\ k.kind = "put" -> {"backup", "cache", "ports"}
      [] k.pc \in {"list", "backup"} /\ k.kind # "put" -> {"backup"}
      [] k.pc = "drop" -> {"cache", "ports"}
      [] k.pc = "spread" -> {"ports"}
      [] OTHER -> {}
Owed == UNION {Owes(c) : c \in Clerks}

Mark(facet, wrong) == askew' = IF wrong THEN askew \cup {facet} ELSE askew \ {facet}

-----------------------------------------------------------------------------
(* Requests.                                                                   *)
Take(c, k) ==
    /\ serving /\ clerk[c].pc = "idle"
    /\ Use("requests", MaxSettingRequests)
    /\ clerk' = [d \in Clerks |->
           IF d = c THEN k
           ELSE IF clerk[d].kind = k.kind /\ k.kind \in {"icon", "key"}
           THEN [clerk[d] EXCEPT !.behind = TRUE] ELSE clerk[d]]

(* PUT /company-settings: a port that is absent counts as the default one.     *)
AskPut(c, form) ==
    Take(c, [Resting EXCEPT !.pc = "write", !.new.text = form.text, !.new.port = form.port])

OtherPut(c, form) ==
    /\ AskPut(c, form)
    /\ UNCHANGED <<row, settingsFile, portCache, routerPort, filedPort, iconOnDisk, storedKey,
                   serving, companyPage, held, askew, aware>>

(* writeFavicon and removeFaviconFiles change the disk before the row.         *)
AskIcon(c, icon) ==
    /\ Take(c, [Resting EXCEPT !.pc = "write", !.kind = "icon", !.new.icon = icon])
    /\ iconOnDisk' = icon
    /\ UNCHANGED <<row, settingsFile, portCache, routerPort, filedPort, storedKey, serving,
                   companyPage, held, askew, aware>>

(* activateKey and deactivate change the key in memory before the row.         *)
AskKey(c, key) ==
    /\ Take(c, [Resting EXCEPT !.pc = "write", !.kind = "key", !.new.key = key])
    /\ storedKey' = key
    /\ UNCHANGED <<row, settingsFile, portCache, routerPort, filedPort, iconOnDisk, serving,
                   companyPage, held, askew, aware>>

(* A router is added without a port of its own (readMikrotikPorts).            *)
AskRouter(c, r) ==
    /\ routerPort[r] = None /\ \A d \in Clerks : clerk[d].router # r
    /\ Take(c, IF portCache # None
               THEN [Resting EXCEPT !.pc = "insert", !.kind = "router", !.router = r,
                                    !.new.port = portCache,
                                    !.behind = "cache" \in askew \cup Owed]
               ELSE [Resting EXCEPT !.pc = "look", !.kind = "router", !.router = r])
    /\ UNCHANGED <<row, settingsFile, portCache, routerPort, filedPort, iconOnDisk, storedKey,
                   serving, companyPage, held, askew, aware>>

Wrote(k) ==
    CASE k.kind = "put" -> [row EXCEPT !.text = k.new.text, !.port = k.new.port]
      [] k.kind = "icon" -> [row EXCEPT !.icon = k.new.icon]
      [] k.kind = "key" -> [row EXCEPT !.key = k.new.key]

OutOfDate(k, put) == put /\ \/ /\ k.kind = "put"
                                /\ k.pc \in {"read", "copy", "list", "backup", "drop", "spread",
                                            "answer"}
                             \/ k.pc \in {"fill", "insert"}
Overtaken(k, put) == [k EXCEPT !.behind = @ \/ OutOfDate(k, put), !.old = @ \/ k.pc = "copy"]

(* The row is updated; the icon or the key is then in line with it, unless a   *)
(* later request has changed that meanwhile.                                   *)
WriteRow(c) ==
    LET k == clerk[c] IN
    /\ k.pc = "write"
    /\ row' = Wrote(k)
    /\ held' = held \cup {row'}
    /\ clerk' = [d \in Clerks |->
           IF d = c THEN [k EXCEPT !.pc = "read", !.new = row']
           ELSE Overtaken(clerk[d], k.kind = "put")]
    /\ IF k.kind = "put" THEN UNCHANGED askew ELSE Mark(k.kind, k.behind)
    /\ aware' = (aware /\ (k.kind = "put" => companyPage.by = c))
    /\ UNCHANGED <<settingsFile, portCache, routerPort, filedPort, iconOnDisk, storedKey,
                   serving, companyPage, used>>

Step(c, k) == clerk' = [clerk EXCEPT ![c] = k]

(* persistCurrent: the row is read again, then its file is written; a failure   *)
(* of the write is only logged.                                                *)
ReadRow(c) ==
    /\ clerk[c].pc = "read"
    /\ Step(c, [clerk[c] EXCEPT !.pc = "copy", !.seen = row, !.old = FALSE])
    /\ UNCHANGED <<row, settingsFile, portCache, routerPort, filedPort, iconOnDisk, storedKey,
                   serving, companyPage, held, askew, aware, used>>

(* The row as the request wrote it goes to the file, without a second read.    *)
CopyWritten(c) ==
    /\ clerk[c].pc = "copy"
    /\ Step(c, [clerk[c] EXCEPT !.pc = "list", !.seen = Bare, !.old = FALSE])
    /\ settingsFile' = clerk[c].new
    /\ Mark("file", clerk[c].old)
    /\ UNCHANGED <<row, portCache, routerPort, filedPort, iconOnDisk, storedKey, serving,
                   companyPage, held, aware, used>>

CopyRow(c) ==
    /\ clerk[c].pc = "copy"
    /\ Step(c, [clerk[c] EXCEPT !.pc = "list", !.seen = Bare, !.old = FALSE])
    /\ \/ /\ settingsFile' = clerk[c].seen
          /\ Mark("file", clerk[c].old)
          /\ UNCHANGED used
       \/ /\ Use("faults", MaxSettingFaults)
          /\ settingsFile' \in {settingsFile, None}
          /\ Mark("file", TRUE)
    /\ UNCHANGED <<row, portCache, routerPort, filedPort, iconOnDisk, storedKey, serving,
                   companyPage, held, aware>>

(* Its rest, persistServers, which a new router has done too: the routers are   *)
(* read and written to their file; a failure of either is only logged.          *)
ListRouters(c) ==
    /\ clerk[c].pc = "list"
    /\ Step(c, [clerk[c] EXCEPT !.pc = "backup", !.listed = routerPort])
    /\ UNCHANGED <<row, settingsFile, portCache, routerPort, filedPort, iconOnDisk, storedKey,
                   serving, companyPage, held, askew, aware, used>>

FileRouters(c) ==
    LET k == clerk[c] IN
    /\ k.pc = "backup"
    /\ Step(c, IF k.kind = "router" THEN Resting
               ELSE [k EXCEPT !.pc = IF k.kind = "put" THEN "drop" ELSE "answer",
                              !.listed = NoPorts, !.old = FALSE])
    /\ \/ filedPort' = k.listed /\ Mark("backup", k.old) /\ UNCHANGED used
       \/ /\ Use("faults", MaxSettingFaults)
          /\ filedPort' \in {filedPort, NoPorts}
          /\ Mark("backup", TRUE)
    /\ UNCHANGED <<row, settingsFile, portCache, routerPort, iconOnDisk, storedKey, serving,
                   companyPage, held, aware>>

(* The rest of a PUT: the cache is dropped, every router gets the port.        *)
DropPorts(c) ==
    /\ clerk[c].pc = "drop"
    /\ Step(c, [clerk[c] EXCEPT !.pc = "spread"])
    /\ portCache' = None
    /\ Mark("cache", FALSE)
    /\ UNCHANGED <<row, settingsFile, routerPort, filedPort, iconOnDisk, storedKey, serving,
                   companyPage, held, aware, used>>

(* Whoever is about to file the routers has read them before this.             *)
SetPorts(c, k, ports) ==
    /\ routerPort' = ports
    /\ clerk' = [d \in Clerks |->
           IF d = c THEN k
           ELSE [clerk[d] EXCEPT !.old = @ \/ (clerk[d].pc = "backup" /\ ports # routerPort)]]

(* No copy of the routers follows.                                            *)
SpreadPort(c) ==
    LET ports == [r \in Routers |->
                     IF routerPort[r] = None THEN None ELSE clerk[c].new.port] IN
    /\ clerk[c].pc = "spread"
    /\ SetPorts(c, [clerk[c] EXCEPT !.pc = "answer"], ports)
    /\ askew' = (IF clerk[c].behind THEN askew \cup {"ports"} ELSE askew \ {"ports"}) \cup
                (IF ports # routerPort THEN {"backup"} ELSE {})
    /\ UNCHANGED <<row, settingsFile, portCache, filedPort, iconOnDisk, storedKey, serving,
                   companyPage, held, aware, used>>

(* readMikrotikPorts: the query, and what its answer does; then the insert.    *)
LookUpPort(c) ==
    /\ clerk[c].pc = "look"
    /\ Step(c, [clerk[c] EXCEPT !.pc = "fill", !.new.port = row.port, !.behind = FALSE])
    /\ UNCHANGED <<row, settingsFile, portCache, routerPort, filedPort, iconOnDisk, storedKey,
                   serving, companyPage, held, askew, aware, used>>

FillPort(c) ==
    /\ clerk[c].pc = "fill"
    /\ Step(c, [clerk[c] EXCEPT !.pc = "insert"])
    /\ portCache' = clerk[c].new.port
    /\ Mark("cache", clerk[c].behind)
    /\ UNCHANGED <<row, settingsFile, routerPort, filedPort, iconOnDisk, storedKey, serving,
                   companyPage, held, aware, used>>

InsertRouter(c) ==
    /\ clerk[c].pc = "insert"
    /\ SetPorts(c, [clerk[c] EXCEPT !.pc = "list"],
                [routerPort EXCEPT ![clerk[c].router] = clerk[c].new.port])
    /\ askew' = IF clerk[c].behind THEN askew \cup {"ports"} ELSE askew
    /\ UNCHANGED <<row, settingsFile, portCache, filedPort, iconOnDisk, storedKey, serving,
                   companyPage, held, aware, used>>

CacheAges ==
    /\ portCache # None
    /\ portCache' = None
    /\ Mark("cache", FALSE)
    /\ UNCHANGED <<row, settingsFile, routerPort, filedPort, iconOnDisk, storedKey, serving,
                   clerk, companyPage, held, aware, used>>

(* A request that the page does not wait for any more, or of somebody else.    *)
AnswerOther(c) ==
    /\ clerk[c].pc = "answer" /\ companyPage.by # c
    /\ Step(c, Resting)
    /\ UNCHANGED <<row, settingsFile, portCache, routerPort, filedPort, iconOnDisk, storedKey,
                   serving, companyPage, held, askew, aware, used>>

(* A query throws: what the request owes stays undone.  That of persistServers   *)
(* is caught.                                                                 *)
RequestFails(c) ==
    /\ clerk[c].pc \notin {"idle", "answer", "list", "backup"}
    /\ Use("faults", MaxSettingFaults)
    /\ Step(c, Resting)
    /\ askew' = askew \cup Owes(c)
    /\ companyPage' = IF companyPage.by = c THEN [companyPage EXCEPT !.by = None] ELSE companyPage
    /\ UNCHANGED <<row, settingsFile, portCache, routerPort, filedPort, iconOnDisk, storedKey,
                   serving, held, aware>>

-----------------------------------------------------------------------------
(* The process stops, perhaps inside the write of a file, and starts again: the *)
(* file overwrites the row, or the row the file, and the routers are filed.     *)
StopServer ==
    /\ serving
    /\ Use("faults", MaxSettingFaults)
    /\ serving' = FALSE
    /\ \/ UNCHANGED <<settingsFile, filedPort>>
       \/ /\ \E c \in Clerks : clerk[c].pc = "copy"
          /\ settingsFile' = None /\ UNCHANGED filedPort
       \/ /\ \E c \in Clerks : clerk[c].pc = "backup"
          /\ filedPort' = NoPorts /\ UNCHANGED settingsFile
    /\ portCache' = None /\ storedKey' = None
    /\ clerk' = [c \in Clerks |-> Resting]
    /\ companyPage' = [companyPage EXCEPT !.by = None]
    /\ askew' = askew \cup Owed
    /\ UNCHANGED <<row, routerPort, iconOnDisk, held, aware>>

FileAgain(late) ==
    \/ late = {} /\ filedPort' = routerPort /\ UNCHANGED used
    \/ /\ late = {"backup"} /\ Use("faults", MaxSettingFaults)
       /\ filedPort' \in {filedPort, NoPorts}

(* The license key is left out of the file.                                    *)
RestoreWithoutKey ==
    /\ ~serving /\ serving' = TRUE
    /\ settingsFile # None
    /\ row' = [settingsFile EXCEPT !.key = None]
    /\ storedKey' = None /\ aware' = FALSE
    /\ UNCHANGED <<settingsFile, portCache, routerPort, filedPort, iconOnDisk, clerk,
                   companyPage, held, askew, used>>

RestoreSettings ==
    \E late \in SUBSET {"backup"} :
        /\ ~serving /\ serving' = TRUE
        /\ FileAgain(late)
        /\ IF settingsFile = None
           THEN /\ settingsFile' = row
                /\ UNCHANGED <<row, aware>>
                /\ askew' = (askew \ {"file", "backup", "cache", "key"}) \cup late
           ELSE /\ row' = settingsFile
                /\ aware' = (aware /\ "file" \notin askew)
                /\ askew' = (askew \ {"file", "backup", "cache", "key"}) \cup late \cup
                            (IF "file" \in askew THEN {"ports", "icon"} ELSE {})
                /\ UNCHANGED settingsFile
        /\ storedKey' = row'.key
        /\ UNCHANGED <<portCache, routerPort, iconOnDisk, clerk, companyPage, held>>

-----------------------------------------------------------------------------
(* The page.                                                                   *)
served == <<row, settingsFile, portCache, routerPort, filedPort, iconOnDisk, storedKey, serving,
            held, askew>>

LoadRead ==
    /\ companyPage.pc = "loading" /\ serving
    /\ companyPage' = [companyPage EXCEPT !.pc = "loaded", !.asked = FormOf(row)]
    /\ aware' = TRUE
    /\ UNCHANGED <<served, clerk, used>>

Shows(form, notice) == [companyPage EXCEPT !.pc = "ready", !.form = form, !.saved = form,
                                           !.by = None, !.notice = notice]

LoadShown ==
    /\ companyPage.pc = "loaded"
    /\ companyPage' = Shows(companyPage.asked, "")
    /\ UNCHANGED <<served, clerk, aware, used>>

(* The page then shows its defaults, and can save them.                        *)
LoadFails ==
    /\ companyPage.pc \in {"loading", "loaded"}
    /\ Use("faults", MaxSettingFaults)
    /\ companyPage' = Shows(Blank, "error")
    /\ aware' = FALSE
    /\ UNCHANGED <<served, clerk>>

EditForm(form) ==
    /\ companyPage.pc \in {"ready", "first", "second"} /\ form # companyPage.form
    /\ Use("edits", MaxEdits)
    /\ companyPage' = [companyPage EXCEPT !.form = form, !.notice = ""]
    /\ UNCHANGED <<served, clerk, aware>>

Discard ==
    /\ companyPage.pc = "ready" /\ companyPage.form # companyPage.saved
    /\ companyPage' = [companyPage EXCEPT !.form = companyPage.saved, !.notice = ""]
    /\ UNCHANGED <<served, clerk, aware, used>>

Send(c, attempt, entered, form) ==
    /\ AskPut(c, form)
    /\ companyPage' = [companyPage EXCEPT !.pc = attempt, !.by = c, !.asked = entered, !.notice = ""]
    /\ UNCHANGED <<served, aware>>

Save(c) ==
    /\ companyPage.pc = "ready" /\ companyPage.form # companyPage.saved
    /\ Send(c, "first", companyPage.form, companyPage.form)

(* The first attempt failed or its answer was lost: a second one without ports. *)
LoseAnswer ==
    /\ companyPage.pc \in {"first", "second"} /\ companyPage.by # None
    /\ Use("faults", MaxSettingFaults)
    /\ companyPage' = [companyPage EXCEPT !.by = None]
    /\ UNCHANGED <<served, clerk, aware>>

SaveAgain(c) ==
    /\ companyPage.pc = "first" /\ companyPage.by = None
    /\ Send(c, "second", companyPage.asked, [companyPage.asked EXCEPT !.port = DefaultPort])

SaveFails ==
    /\ companyPage.by = None
    /\ companyPage.pc = "second" \/ (companyPage.pc = "first" /\ ~serving)
    /\ companyPage' = [companyPage EXCEPT !.pc = "ready", !.notice = "error"]
    /\ aware' = FALSE
    /\ UNCHANGED <<served, clerk, used>>

(* The page shows what was entered, and not what the answer says.              *)
SavedAsEntered(c) ==
    /\ clerk[c].pc = "answer" /\ companyPage.by = c
    /\ companyPage' = Shows(companyPage.asked, "saved")
    /\ aware' = ~clerk[c].behind
    /\ Step(c, Resting)
    /\ UNCHANGED <<served, used>>

Saved(c) ==
    /\ clerk[c].pc = "answer" /\ companyPage.by = c
    /\ companyPage' = Shows(FormOf(clerk[c].new), "saved")
    /\ aware' = ~clerk[c].behind
    /\ Step(c, Resting)
    /\ UNCHANGED <<served, used>>

SettingsNext ==
    \/ \E c \in Clerks : \/ \E form \in Forms : OtherPut(c, form)
                         \/ \E icon \in Icons \cup {None} : AskIcon(c, icon)
                         \/ \E key \in Keys \cup {None} : AskKey(c, key)
                         \/ \E r \in Routers : AskRouter(c, r)
                         \/ WriteRow(c) \/ ReadRow(c) \/ CopyRow(c)
                         \/ ListRouters(c) \/ FileRouters(c)
                         \/ DropPorts(c) \/ SpreadPort(c)
                         \/ LookUpPort(c) \/ FillPort(c) \/ InsertRouter(c)
                         \/ AnswerOther(c) \/ RequestFails(c)
                         \/ Save(c) \/ SaveAgain(c) \/ Saved(c)
    \/ CacheAges \/ StopServer \/ RestoreSettings
    \/ LoadRead \/ LoadShown \/ LoadFails \/ Discard \/ LoseAnswer \/ SaveFails
    \/ \E form \in Forms : EditForm(form)

SettingsSpec == SettingsInit /\ [][SettingsNext]_settingsVars

-----------------------------------------------------------------------------
SettingsTypeOK ==
    /\ row \in Rows /\ settingsFile \in Rows \cup {None}
    /\ portCache \in Ports \cup {None}
    /\ {routerPort, filedPort} \subseteq [Routers -> Ports \cup {None}]
    /\ iconOnDisk \in Icons \cup {None} /\ storedKey \in Keys \cup {None}
    /\ serving \in BOOLEAN /\ aware \in BOOLEAN
    /\ clerk \in [Clerks ->
           [pc : {"idle", "write", "read", "copy", "list", "backup", "drop", "spread", "answer",
                  "look", "fill", "insert"},
            kind : {"put", "icon", "key", "router"}, router : Routers \cup {None},
            new : Rows, seen : Rows, listed : [Routers -> Ports \cup {None}],
            behind : BOOLEAN, old : BOOLEAN]]
    /\ companyPage \in [pc : {"loading", "loaded", "ready", "first", "second"}, form : Forms,
                 saved : Forms, asked : Forms, by : Clerks \cup {None},
                 notice : {"", "saved", "error"}]
    /\ held \subseteq Rows /\ askew \subseteq Facets
    /\ used \in [requests : Nat, faults : Nat, edits : Nat]

InLine(facet) ==
    CASE facet = "file" -> settingsFile = row
      [] facet = "backup" -> filedPort = routerPort
      [] facet = "cache" -> portCache \in {row.port, None}
      [] facet = "ports" -> \A r \in Routers : routerPort[r] \in {row.port, None}
      [] facet = "icon" -> iconOnDisk = row.icon
      [] facet = "key" -> serving => storedKey = row.key

(* Whatever the requests in between, all that follows the row is in line with  *)
(* it once nobody owes it a change, unless a write of it came late, failed or  *)
(* was cut off: CompanyController, LicenseService and the restore at start.    *)
FollowsTheRow == \A facet \in Facets \ (askew \cup Owed) : InLine(facet)

(* What a page shows as saved is what the database holds, also after a failed  *)
(* save and its second attempt, unless somebody else has saved since           *)
(* (company-settings/page.tsx, onSave and apply).                              *)
ShownIsStored == companyPage.pc = "ready" /\ aware => companyPage.saved = FormOf(row)

(* A save that is reported as done stored the port that was entered.  The      *)
(* second attempt of onSave leaves the ports out and breaks it.                *)
EnteredIsSaved == companyPage.notice = "saved" => companyPage.saved = companyPage.asked

(* A restart brings back a state that the database has held.                   *)
Promise == INSTANCE SavedState WITH Values <- Rows, None <- None, current <- row,
                                    durable <- settingsFile
RestartKeepsASavedState == Promise!Spec
=============================================================================
