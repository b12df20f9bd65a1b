# ISP-LogServer in TLA+

A formal model of the log server in this repository (`api/`, a NestJS service, and `web/`,
a Next.js front end). MikroTik routers send syslog datagrams over UDP; the service matches
them to a registered router, completes them with what it knows of the customer, stores
them in PostgreSQL, keeps the newest ones in memory for a live page, and appends them to daily
files. Some features are unlocked by a license that a remote manager confirms.

The TLA+ modules are written from the source, not from the documentation: an action is what
runs between two `await`s (or one statement executed by the database), and its guard, its
assignments and the order of the two are those of the code. Where several activations of
a function can be in flight, the model has several tasks. Names follow the source.

## Inventory

| Part (source) | State | Operations | What is hard |
|---|---|---|---|
| Syslog ingest (`api/src/syslog/syslog.service.ts`, `syslog.state.ts`) | `rate` (bucket per host), `cache` (server table for `CACHE_MS`), `writes` (slots in use), the day counter, hourly counters | `handle` per datagram, `serversFor`, `allowRate`, `markOnline`, `warmSessionCache` | many handlers at once, each with up to six awaits; stale server lists; slots returned on every path; failures after a partial write; restarts |
| Live buffer (`syslog/stream-buffer.ts`) | up to 200 rows per router | push, seed, read after an id | filled by handlers and by readers; deduplication looks at the head only |
| Log stream (`logs/logs.service.ts`, `web/src/app/log-stream/page.tsx`) | per page: selected router, rows, known ids, `newestId`, one request in flight | select, poll, pause, refresh, receive | answers that arrive after a switch; ids pushed out of order; a restart that empties the buffer; trimming of known ids |
| Session table (`syslog/session-table.ts`) | maps by address, MAC and user name | `remember`, `apply`, `ipsMatchingUser`, `prune` | joins facts of many lines; a wrong join attributes traffic to another customer |
| Line parser (`syslog/syslog.parse.ts`) | none | what kind of line, its fields, `sanitizeNat`, `applyWanNat` | string processing |
| Daily files (`syslog/daily-log-file.ts`) | folders by date | append, purge by date | errors are swallowed |
| License (`license/license.service.ts`, `amarpin-license.js`) | `client`, `allowed`, `storedKey`, cache file of the SDK, key in the database | boot, activate, deactivate, refresh | three network calls in sequence while others change `client`; lost answers; calls that never settle; grace; restarts |
| Router registry (`servers/*.ts`) | server table | create, update, toggle, remove, probe | license limit and duplicate check before the write |
| Configuration snapshots (`company/web-config.*.ts`) | company and server files beside the database | persist, restore at start | crash between database and file; fire-and-forget writes; a write that no copy follows |
| Company settings (`company/*.ts`) | one row, favicon file | read, update | concurrent updates; ports of all routers |
| Scheduled jobs (`jobs/jobs.service.ts`) | none of their own | purge by retention, connectivity check, client-map sync | read before await, used after |
| Notifications (`notify/notify.service.ts`) | SMS counter of the day | alert, test mail, test SMS | counter read, message sent, counter written |
| Accounts, roles (`users/`, `roles/`) | users, roles, menu and router assignments | create, update, remove, setRole, setServers, setMenus | the last SuperAdmin; check before write |
| Authentication (`auth/`) | login throttle per address and account | login, change password, per-request check | parallel attempts; changes after a token was issued |
| Access rules (`auth/menus.guard.ts`, `auth-user.ts`, `csrf.middleware.ts`) | none | evaluate | decision tables |
| RouterOS client (`servers/mikrotik-api.ts`, `mikrotik-ppp.ts`) | one socket, a receive buffer | login, print, length codec | replies in pieces, traps, boundaries of the length code |
| Search (`logs/logs.service.ts`) | none | filter, page, hydrate | paging arithmetic; which rows a user may see |
| Audit, dashboard, host metrics | samples and counters | insert, read | display only |
| Web pages (`web/src/app`) | a list, a selected entry, a draft, what counts as saved, busy flags, requests in flight | load, select, edit, discard, save, delete, page through | requests that overlap, answers that meet another selection, retries, a list that is older than a write |
| Browser session (`web/src/proxy.ts`, `components/Shell.tsx`, `lib/api.ts`) | the cookie, the page, what it shows | redirect, ask who it is for, log out | two judges of one session: the presence of a cookie, and the API |
| Start-up (`main.ts`, `config/`, `prisma/seed.ts`) | none | wiring, seeding | none in TLC's reach |

**How they interact.** `handle` reads the registry through its cache, calls the session
table synchronously, inserts rows, pushes to the live buffer, sets a router online and
appends to the files. The stream page polls `LogsService.stream`, which reads and fills
the same buffer. The registry writes the table that ingest caches and asks the license
service whether one more router, or a longer retention, is allowed; each of its writes is
followed by a snapshot to disk. A PUT of the company settings takes that snapshot too, but then writes
the API port of every router, with no snapshot after it. Jobs delete rows, change connectivity, send notifications
and feed the session table. Administrators, the scheduler, the routers and the license
manager act at any time; the process may restart at any time.

## Modules

| Module | Models | Extends |
|---|---|---|
| `StreamBuffer` | the live buffer as operators on a sequence of row ids | |
| `SyslogIngest` | the ingest service, the server table and the log tables | `StreamBuffer` |
| `SyslogIngestProofs` | fresh attribution, rate, slots, the counter of the day, the daily files | `SyslogIngest` |
| `LogStream` | handlers that insert and push, the stream endpoint, the pages | `StreamBuffer` |
| `PagedLists` | Search Log and Activity Logs, walked page by page, and the purge under them | |
| `SessionTable` | the join table | |
| `RouterApi` | one session with the API of a router, its framing and its lengths | |
| `ClientMap` | the sync of the client map over HTTP and the API | `RouterApi` |
| `RouterClientProofs` | no mixing of customers, the bound of the table; lengths, answers under their query | `ClientMap`, `SessionTable` |
| `License` | license service, SDK results and cache, manager | |
| `LicenseProofs` | locked until confirmed, no grace after a refusal, what can unlock a deactivated server | `License` |
| `Registry` | requests on the router registry, its copy on disk, the restore at start | |
| `RegistryProofs` | the file and the table, the restore, the license check | `Registry`, `Induction` |
| `Settings` | the company row and all that follows it, the settings page | |
| `SavedState` | the abstract promise of a database with a file beside it | |
| `ScreensProofs` | the refinement of `SavedState`, what follows the row, the settings page; the walk through a list; the live buffer and the stream page | `Settings`, `PagedLists`, `LogStream`, `Induction` |
| `Accounts` | requests on accounts and roles, the rights they are checked against | |
| `AdminPages` | the pages of users, roles, access and routers, with their requests; `setServers` | |
| `SignIn` | the attempt limit, and a browser between proxy, Shell and the API | |
| `AdministrationProofs` | who holds and who gives the SuperAdmin role; what the pages list, send and save; how many attempts the limit lets through | `Accounts`, `AdminPages`, `SignIn` |
| `DownAlerts` | the connectivity check, its alerts, the SMS counter of the day | |
| `DownAlertsProofs` | single alerts and the daily limit | `DownAlerts` |
| `Induction` | induction over the natural numbers, and what `FoldLeft` computes, in a form the provers can use | |

Modules for TLC: `MCSyslogIngest`, `MCLogStream` and `MCSessionTable` give symmetry and the
instance of the join table. `Browser`, `Screens`, `Jobs` and `Administration` each put
two or three components into one run. The components in one such module share no state of the
models: `part` says which of them moves in a behaviour, the others rest in one initial state.
They are a way of checking several components at once, not a composition; where components do
meet, the module models both sides (`LogStream` the handlers, the endpoint and the page;
`Settings` the page, the requests, the file and the routers; `AdminPages` pages and server;
`ClientMap` a `RouterApi` session inside the schedule's run).

### SyslogIngest

`task[t].pc` is the await at which handler `t` is suspended. `Accept` is `handle` up to its
first await: rate check, slot check, counters, and the decision whether the cached server
list is fresh. `DropOverRate` and `DropBusy` are the two early returns before it.
`ReadServers`/`FillCache` are `findMany` and the assignment after it, which stamps the list
with the time read *before* the query and overwrites whatever another handler stored.
`Unknown` and `Matched` are the branches after the match; `InsertPpp`, `MarkOnline`,
`WritePppFile`, `InsertLog`, `PushRow`, `WriteLogFile` the writes in their order; `Fail` the
`catch`; `Finish` the `finally`. `CreateServer`, `UpdateServer`, `ToggleServer` and
`RemoveServer` are the registry's writes of the server table, each one SQL statement
(`remove` cascades). `Restart` empties everything that is held in memory.

Abstractions. A datagram is one of four kinds of line (`nat`, `ppp`, `bare`, `pppNat`): a
traffic line, a session line with fields, one without, and one that is also a traffic
line. A cached list is the router it gives for each host: `findMany` has no order, so
which of several matching routers is found is the database's choice, made when the query
runs. Time is in whole seconds and does not go back; a list exactly `CACHE_MS` old
may count as fresh. The daily files are on (`LOG_FILE_ENABLE`). What handlers tell
the session table is in `SessionTable`. Ghost variables record what the properties
talk of: datagrams let through this second, datagrams accepted today, and when a router
last stopped serving a host.

### LogStream

`Insert`, `Commit` and `Push` are the three moments of a log row: the statement is sent (its
`receivedAt` is taken to be in this order), the database gives the next id, the handler
resumes and pushes. `ReadBuffer`, `Query` and `FillBuffer` are `LogsService.stream` between its
awaits. `Select`, `Poll`, `Pause`, `Refresh` and `Receive` are the page; `Load` is `load()`
with its early return when a request is in flight, and `Loaded` what it does with the
answer. `Lose` fails a request, `Restart` restarts the service under the pages. A row is its
id; `hydrate`, which fills in names, and the access check are not part of it. A page's
other filters and closing the page are left out. A page's `filter` is `Among`, a fold: `SelectSeq` is a definition
the prover cannot open. `StreamAssumption` relates three limits of the code, 120 rows on display, 80 in an answer and 800
ids kept: an answer fits into the display, and the display and one answer into what a page keeps. `crossed` counts the
selections made while an answer was awaited.

### SessionTable

All methods are synchronous, so a call is one action. `Learn` is `remember`, called for
session lines, rows of the client map, stored sessions and stored rows (also those that
`warmSessionCache` reads back); `Complete` is `apply`, called for a traffic line, which
sanitises, remembers, looks up, completes, adds the WAN address and remembers again.
`Of[s][x]` names the customer whom a private address, MAC or name denotes at router
`s`; a line speaks of one customer. That is an assumption about the network, stated in
`LinesOf`: the code has no way to notice that an address has passed to another customer.
Ports are carried along without being looked at and are left out, as is `stitch`.

### RouterApi, ClientMap

`wire` is what the router has sent and nobody has read, in words: a length, a text, the zero that ends a
sentence. `ReadWord` is one `readExact` of the caller, with what `print` or `login` do with a complete sentence
(`SentenceOfLogin`, `SentenceOfPrint`); `WaitEnds` is the timeout of a sentence, after which the next query is sent while
the rest of the old answer is still to come. A length whose text is not there yet is gone by then, so the text is
taken for a length (`ReadLost`: what follows is cut in any way). `ReplyRow`, `ReplyDone`, `ReplyTrap`,
`ReplyChallenge` and `Hangup` are the router, `SocketIdles` the timeout of the socket. `EncodeLen` and `DecodeLen` are the
length code, byte by byte.

`ClientMap` is `syncPppSessions`: the flag, the list of routers, and for each of them the check of its address,
the HTTP probes of each port, and sessions of `RouterApi` on the API ports until one yields rows. `stuck` is a response over
HTTP that breaks off after its head: `restGet` listens to `end` and to the request's errors, so its promise
never settles. What a row says, and what the session table makes of it, is in `SessionTable`.

### License

A task is a running `activateKey`, `deactivate` or refresh, suspended in one call of the
SDK (`claim`, `validate`, `reclaim`, `release`) or in the write of the key. The manager
is external: `Answer` gives the verdict it holds at that moment, `Lose` stands for a
timeout, a network error or an answer whose signature does not verify, `BreakOff` for an answer that
breaks off after its headers: `postJson` listens to `data` and `end` of the response only, and its timeout goes with
the socket, so the promise never settles and the task stays in its call until the process ends. `Result` is what
the SDK returns, grace included, `Cached` what it keeps. The three parts of `refresh` are
`Claimed`, `Validated` and `Reclaimed`; each tests `client` again only where the code does, and
`Throw` is the exception when it is gone. When the last refresh is six hours old is left
open. Grace of a cached verdict is none, running or over. Lengths and formats of keys,
`ensureLicenseMenu` and messages are left out. `deactivated` is history: it is set when `deactivate` ends while no activation runs.

### Registry

A step is a query and the code that runs on its answer, up to the next query. `AskCreate`,
`AskUpdate`, `AskToggle` and `AskRemove` are the handlers of the controller up to their first
write or check: an unlicensed create counts the routers (`count`), then looks for the
address (`find`), then inserts; update, toggle and remove read their row and write it.
`Gone` is the exception of Prisma when the row was removed in between. `Write` ends a
request and starts `persistServers`, which nobody waits for: `Persist` reads the rows,
`SaveFile` writes `servers.json`, `SaveFileFails` is the `catch` of either. `AskSettings` is `persistCurrent` as
`CompanyController` and the license service call it, which copies the table as well; the PUT of the settings waits for
that copy (`CopyEnds`) and then gives every router its port (`Spread`, the `updateMany`), and no copy follows. At start `BootRead` reads the file,
`RestoreKnown` and `RestoreRow` are the two ends of the loop's body, and `BootPersist` is the copy at
the end. `Crash` stops the process anywhere, also inside a write of the file, which leaves
a file that does not parse; `LoseDatabase` also replaces the database by an empty one.

Abstractions. A row is its address, its port, whether it is disabled, and whether its retention is
longer than a month. The write of the company row before `persistCurrent` touches nothing here and is part of
`Settings`. `file = <<>>` stands for a file that is absent, empty or unreadable:
`restoreServers` treats the three alike. `version` counts the changes of the table, `due` is the newest that has a copy
made after it and `ported` the newest `Spread`; `copied` says which version the file holds; `missed` is the newest version that a failed or
late copy kept out of the file; `owed` collects the addresses that a lost database leaves
to the file, until a request changes them. Probing and the access
check are left out; the default port of a new router is in `Settings`, here it is one of `Entered`.

### Settings, SavedState

A *clerk* is a request in the server. `AskPut`, `AskIcon`, `AskKey` and `AskRouter` take one: PUT of the
settings, the favicon and the license key, and a router added without a port of its own. The favicon
is on disk, and the key in memory, before the row is written (`AskIcon`, `AskKey`); then `WriteRow`,
`ReadRow`, `CopyRow`, `ListRouters` and `FileRouters` are the update and `persistCurrent`: the row is read and written to
its file, then the routers to theirs (`filedPort`, their ports in `servers.json`). A PUT goes on to drop the
cached ports (`DropPorts`) and to give its port to every router (`SpreadPort`), and files nothing after that. `LookUpPort`, `FillPort`
and `InsertRouter` are `readMikrotikPorts` and the insert after it, which has the routers filed too. `RequestFails` is a query that throws;
`StopServer` a crash, also inside the write of either file, and `RestoreSettings` the start after it, which files the
routers (`FileAgain`; what it restores to the table is in `Registry`). The page is
`LoadRead`, `LoadShown`, `LoadFails`, `EditForm`, `Discard`, `Save`, `LoseAnswer`, `SaveAgain` (the second
attempt of `onSave`, which leaves the ports out), `Saved`, `SaveFails`.

Abstractions. The texts of the row are one value, the ports one port, which the second attempt turns
into the default. The cache of ports may age at any time. `None`, which stands for what is absent, is no value of a
field (`SettingsAssumption`). Ghosts: `askew` holds what a late, failed or cut
off write left behind the row (its facet `backup` is the routers' file against the routers: `SpreadPort` sets it
whenever it changes a port), `Owed` what a request still has to bring in line, `aware` whether nobody saved
since the page read the row, `held` every row the database has had.

`SavedState` is the promise: the database changes, a copy is made of some value it has held, possibly an old
one, or none; a restart brings back the copy, whole, or keeps the database if there is no copy.
`Promise == INSTANCE SavedState WITH current <- row, durable <- settingsFile` maps it, and the run
`Screens` checks that every behaviour of `Settings` is one of it (`RestartKeepsASavedState`): no order of late
copies, torn files and crashes makes a row out of parts of two, or one that was never saved.

### Accounts

A request is a step of its own when it comes in: `Accept` reads the rights of its actor, as
`JwtStrategy.validate` does, and decides with `evaluateAccess` (`MayWrite`). From then on it
keeps those rights and proceeds query by query: `Read` the target, `Count` the other
SuperAdmins, `ReadRole`, `CountLeaving` for a role change, then the writes `Insert`, `Assign`,
`Swap` (the transaction that replaces the role), `Write`, `Delete`. `update` may do several
of them in a row. A write that the database refuses, because the row, the name or the role is
no longer what it was, is `Refused`. A role's own requests read one row, and nothing that
decides about it can change before the write (a role never becomes or ceases to be
SuperAdmin), so `ChangeRole` is one step.

Abstractions. An account is its name, whether it is activated, and its roles; a role is
whether it is `view-only`, and the menus it opens that matter here. Ids are not told apart
from names: a request whose target is deleted and created again acts on the new account,
which is more than the code can do. The name that cannot be deleted is the
constant `Undeletable`. `raced` records that a request wrote after another had taken a
SuperAdmin's rights away since it was accepted, `delegated` that somebody who is no SuperAdmin
managed accounts. Passwords, the profile fields and the menu table are left out; `setServers` is in `AdminPages`.

### AdminPages

One module for four pages, since they are one program four times: a list, a selected entry, a draft, the
parts that count as saved (`base`), a load after every request. `kind` says which page it is; where the pages
differ the actions do (`Together` and `Blocked` are their busy flags, `ShowRouters` leaves the selection alone). A
request is `Request`, then its write in the server (`DoCreate`, `DoWrite`; `ClearParts` and `FillParts` are the two
statements of `setServers`), `RefuseAsk` if it is refused, `Answered` when the page continues, `ReadList` and
`Shown` for the load. `Slip` fails a query, a request or an answer; `OtherAssigns` and `OtherRemoves` are another administrator.

Abstractions. An entry is a name, one mark (an account has a role; a router is enabled) and its parts (menus of a role,
routers of a user). Ghosts: `filled` remembers from which entry a draft was filled, `meant` the parts
last chosen for each entry, `behind` that the list shown is older than something that will not change it, `switched`
that an answer made parts saved for another entry than its own, `disturbed` the entries two assignments wrote at once, or
one wrote in half. The rights a request is checked against are in `Accounts`; what the servers page knows of the license
is left out.

### SignIn

An attempt is `Try` (the prune and the check of the limit), then `Fail` or `Succeed` when the password has been
compared, both with what they do to the bucket. A bucket has a count and the time it has left; none
left is expired. The browser is the cookie (none, good, or one that the API refuses), the page, and what it shows:
`Proxied` is `proxy.ts`, which looks at the presence of the cookie only; `Welcome`, `SentAway` and `NeverLoads` are `Shell`'s question
who it is for; `RequestRefused` is the 401 of a later request. `SessionEnds` is an account disabled, a token or a cookie expired. The address and the
user name of an attempt are one `login`.

### PagedLists

`logged` is the table in the order in which rows became visible, each with its time: a row may be older than
one that is already visible. `AskPage` is `runSearch` or the load of Activity Logs (`view`), `CountRows` the count of the
latter, `ShowPage` the read of the page and what is made of the answer; the search takes one row more than a page
(`HasMore`). Rows of one time come in any order (`NewestFirst`), in each request anew. `PurgeOld` is the nightly
purge. `ClearFilters` does not stop a request on its way. Filters are a tag or none; `clampPage` is `Clamped`.

### DownAlerts

A run of `checkMikroTikLinks` is `Start` (the list of routers with their `online` as read then),
`Look` (the newest row of the next router), `Update` (the write of `online`), `Alert` (the company
is read, and what is switched on decides) and `Alerted`, each the code between two queries;
`UpdateGone` is the exception of a router removed meanwhile, `QueryFails` any other, and both end
the run. `checking` keeps a second run out. `Insert` and `MarkOnline` are the two writes of a
handler that matter here. A message goes from `email` (the mail is being sent, with the company as
it was read before) through `Send` (the limit is tested on that copy) to `sending`, `Deliver` (the
provider, external), `Answer` and `Count`, which writes the counter back from the copy. `SendFails`
loses the answer or the write. A test message is the same without a mail. `Save` is
`persistCurrent`; `Restart` restores the company from its file, as `restoreCompany` does.

Abstractions. There is no clock: a row of the last ten minutes is recent until `Age`, and a run's
`since` is what its cutoff lets through. `today` says whether the date of the last message is the
current one; `Midnight` changes that. Whether mail and SMS are switched on, and how a mail ends, is
left open. The routers of a list are looked at in any order. Ghost variables: `sent` counts today's deliveries, up to one
more than the limit; `uncounted` records that sends overlapped, a delivery was not counted, or an
older counter was restored; `fell` holds the routers set offline and not yet reported; `faulted` that
a run was cut short.

## Runs

All runs explore the whole state space. "Bounds" names the constants that make it finite. The type
invariants are not among the properties of the runs: all are proved but those of `SessionTable`, whose theorems need none,
and of the browser's half of `SignIn`.

| Run | Question | Bounds and why they suffice |
|---|---|---|
| `IngestAdmission` | attribution, rate and counter under concurrent handlers, table edits and time | two hosts, one router, two handlers (two readers of the list that overlap), three datagrams, a router added and then edited, clock to 2 with a day and a cache life of 1, a rate of 1 and a map of 1: each limit is crossed |
| `IngestDrain` | slots and files for every kind of line and failure; a full service recovers | one router, two handlers for two slots, three datagrams, a buffer of 2, one edit (also a removal), one restart |
| `Browser` | pages catch up; how many sign-in attempts pass, and whether the browser comes to rest | one router, two pages that share its buffer, two rows, two handlers, a lost request, a restart, answers that hold all rows; two logins, two attempts at a time, five in all, a limit, a window and a prune of 2, two turns of the session |
| `Screens` | the buffer and the page when everything is trimmed, and what polling passes over; the row of the settings, what follows it, the page, the restart; a walk through the search skips nothing | one page, two routers, three rows, a page and a display of 1, known ids 2, two clicks, a refresh, a restart; two ports, one text and one favicon, a key, one router and its entry in the file, two requests that overlap, one fault, one edit; lists of three rows on pages of one, with two as the highest page that can be asked for, two requests at a time, three in all, one purge, failure or edit |
| `Jobs` | alerts and their limit; the client map ends; no customer is mixed with another | one router, two firings of the timer, one test message, a limit of 1; one router asked on two HTTP and two API ports, one row for each query, two sentences; two routers at which the same address, MAC and name group differently, a table pruned at two entries, every line |
| `Registry` | the file follows the table (but for ports a PUT of the settings has spread since), a restart restores it, the license check holds under overlap | two addresses, two ports of which one is entered by hand and either may come from a PUT of the settings, two overlapping requests, one change of the license, two faults (a crash in the restore after a lost database), four ids |
| `Administration` | somebody keeps the SuperAdmin role, only SuperAdmins give it; what the pages list, send and save | three accounts (one seeded, two that are alike), one role besides SuperAdmin, two requests that overlap at every query; two entries, two names, one part, two requests that overlap, one failure or act of another administrator |
| `LicenseKeys` | locking, grace, refreshes | two keys, one administrator's request beside the refresh, one each of activation, deactivation, verdict, call that is lost or breaks off, restart |
| `StreamSwitch` | *violated*: rows of the selected router only | two routers, one row |
| `LicenseDeactivate` | *violated*: a deactivated server is locked | one key |
| `EnteredIsSaved` | *violated*: a save reported as done stored the port entered | as in `Screens` |
| `RefusedForItsReason` | *violated*: a refusal for the own role has that reason | as in `Administration` |

The four violated runs show disagreements between the program and what it says of itself:

- **StreamSwitch.** `load()` returns at once while a request is in flight, so the load of
  a switch is dropped; the old answer then arrives and is shown under the new router, whose
  heading says "Live syslog from the selected MikroTik, newest first"
  (`web/src/app/log-stream/page.tsx:120`). Without such a switch it does not happen (`OwnRowsShown`).
- **LicenseDeactivate.** A refresh in flight when `deactivate()` runs applies its answer
  afterwards and sets `allowed`, and nothing else can (`DeactivatedStaysLocked`); `README.md:67` says "Deactivating a key locks licensed
  features again".
- **EnteredIsSaved.** When a save of the settings fails, whatever the reason and also if only its answer was lost,
  `onSave` sends it again without the ports (`web/src/app/company-settings/page.tsx:238-244`). The server
  reads absent ports as the default ones, stores them and gives them to every router; the page reports
  "Server settings saved" (line 251) and fills its form with the default ports of the answer. TLC's trace is that: a page that
  has read the row, another port entered, a first attempt whose answer is lost or that fails, the second one answered.
- **RefusedForItsReason.** The users page sends the role it shows, changed or not
  (`web/src/app/users/page.tsx:210`), and `update` refuses any role for the own account, with 'You cannot change your own
  role' (`api/src/users/users.service.ts:115`): an administrator cannot change his own name or mail there.

Some properties hold only outside a situation the code does reach. Each names it, as a ghost or a condition,
so that the property says exactly how far the code's promise goes:

- *Stream.* Handlers may push rows in another order than their ids, so a later push of a lower id is
  missed by a poll: `NothingSkipped` assumes one handler at a time (`InOrder`). Of more new rows than the 80 of an
  answer a poll gets the newest and never the rest: the property says `PassedOver`, that the last 80 ids the page learnt are
  newer. A Refresh replaces rows and known ids but not `newestId`, so a Refresh answered from a buffer that another page filled
  late, from an older query, leaves rows below `newestId` that are not known and never asked for; likewise an answer that meets
  another selection than its own. `InOrder` excludes both, and `StreamCatchesUp` is checked without Refresh.
- *Lists.* `WalkSkipsNothing` excludes rows that share their time (`Tied`): the order of rows with the same time may
  differ from page to page, and a row can fall between two. It excludes also what lies beyond `clampPage`'s highest page:
  Search Log counts on past it and shows that page again (the proof failed there, and `Screens` has a highest page of 2 since).
- *License.* A rejected `activateKey` leaves a licensed server without a client until restart
  (`ActiveUnlocks` excludes it, `client # k`). A failed call after a refusal unlocks the server while a key is stored,
  the other face of "stay unlocked offline". A refresh whose answer breaks off after its headers never ends, and
  `refreshIfStale` starts no other while it is there: `RefreshEnds` and `ActiveUnlocks` exclude it (`BrokenOff`).
- *Registry.* Two creates that overlap both pass the one-router limit and the duplicate check, and an update has no
  duplicate check, so there is no invariant about either. A copy that was read earlier and written later stays in the file
  until the next change, so a router that was removed can come back after a lost database. The ports that a PUT of the
  settings spreads are in no copy until somebody else's (a write of the registry, the favicon or the key, the next PUT or start; `company.controller.ts:194-198`): after a
  lost database the routers come back with the old ones. `FileIsTable` compares the rest of the rows then (`ButForPorts`), and
  `ChangesReachDisk` is about the changes that have a copy made after them (`due`).
- *Settings.* `FollowsTheRow` excludes what is `askew`: a write that came late, failed or was cut off stays so
  until the next save or start, and so does the routers' file once a PUT has spread another port. A page whose load failed shows its defaults and can save them;
  `ShownIsStored` speaks of a page that is `aware`.
- *Accounts.* Two requests that each take the role from the other's holder both count one and leave nobody
  (`raced`). The counts include deactivated accounts, so somebody who is no SuperAdmin but manages accounts can deactivate
  every SuperAdmin that is activated while a deactivated one remains (`delegated`).
- *Pages.* Two loads shown in another order than they read leave the older list (`behind`). Parts become the saved ones
  of whichever entry is selected when the answer arrives; if the load after it fails, Discard puts them into that entry (`switched`). Two
  assignments of a user that overlap, or one that fails between its two statements, leave neither choice (`disturbed`).
- *Alerts.* Two messages that overlap both read the counter before either is counted, a message whose answer is lost
  is not counted, and a restart brings back the counter of the last saved settings: in each case more
  messages go out than the "Max SMS per day" of `README.md:258` (`uncounted`). A router is set offline before its
  alert is sent, so an alert is lost when a run is cut short in between (`faulted`).
- *Client map.* A trap, a timeout or an answer that is too long leaves the rest of the answer on the wire,
  and rows go to the query after (`upset`; `RowsUnderTheirQuery`, which no run checks, fails there). A response over HTTP that breaks off leaves the
  run waiting for ever and the flag set, so that no sync runs until a restart (`stuck`).
- *Signing in.* The limit is checked before a comparison and counted after, so attempts in progress pass it:
  `AttemptsBounded` says by how many. With a cookie that the API refuses, `proxy.ts` sends the browser away from the form and
  `Shell` back to it, for ever (`BrowserSettles` excludes a refused cookie).

## Fairness

`SyslogIngest`: weak fairness of each handler: the event loop runs every continuation that is
due and a database or file call ends, with an answer or an error. `LogStream`: the same
for handlers and requests, and the timer of a live page fires. No fairness for users,
faults, or new datagrams. `License`: boot completes, the scheduler fires, every call ends within
the SDK's timeout of 20 s, unless its answer breaks off after the headers (`BreakOff`), which no step takes up. `Registry`: a start goes on, and a copy that was started ends, by
writing or by failing; requests may be given up. Nothing is assumed of the manager's operator.
`DownAlerts`: the timer fires, and a query, a mail or a message ends, with an answer or an error; the
call of the provider and the mail transport have timeouts of 8 and 10 s, and an error of the
database counts as a fault. `ClientMap`: a run that has begun goes on; in a session, what has arrived is read,
and a wait for what does not arrive ends by its timer. Of the router nothing is assumed. `SignIn`: a browser
follows redirects, and its own attempts and questions are answered; not that anybody types.
The modules that check several components take over the fairness of each.
`SessionTable`, `Accounts`, `AdminPages`, `PagedLists` and `Settings` promise nothing that needs fairness.

## Proofs

TLAPS checks these for all values of the constants that satisfy the modules' assumptions.

*Ingest* (`SyslogIngestProofs`)

- `TypeCorrect`: the types of every variable of `SyslogIngest`.
- `AttributionIsFresh`: `FreshAttribution`. It is not inductive: a row is inserted from a task,
  a task takes its router from the cache or from its own query, and the cache from some
  other task's query. `RoutingInv` strengthens it: every router named in the cache served
  its host at the cache's stamp or later; every router in an answer under way, when the
  task began or later; every router a task has chosen, at most `CacheTtl` before. Lemma
  `RoutedGrows` says the last moment a router served a host never moves back.
- `RateIsBounded`: `RateBound`, from `RateInv`: a host's allowance used in this second is at
  most what its bucket counted, and pruning removes buckets of past seconds only.
- `SlotsAreAccounted`: `SlotAccounting` is inductive with the types; lemma `SlotSteps` says
  every step starts one handler, ends one, ends all (restart), or none.
- `CounterIsExact`: `CounterExact`, with the day of the counter never after today (`CounterInv`); lemma `CounterSteps`
  reduces every step to four: one more counted, time passes, a restart, nothing.
- `ArchivedIsInserted`: `ArchiveFollowsInsert`. `ArchiveInv` adds that a handler behind its insert has the id of a row
  that is in the table for its router; `InsertedStays` that such a row stays what it is.

*Router client* (`RouterClientProofs`)

- `NoMixedEntry`, `NoMixedRow`, `SearchIsolated`: the isolation properties of the
  session table (`OneCustomer`, `RowOfOneCustomer`, `SearchStaysWithCustomer`; the second is proved and
  in no run). The inductive invariant is `OneCustomer` itself; the work is in the lemmas
  that `mergeSess`, `lookupRaw`, `store`, `prune` and `apply` preserve it.
- `MapIsBounded`: `AddressesBounded`, for the table's limit and any sequence of lines. The list of keys in
  their order names each key of the map once (`Listed`), so dropping its first elements drops as many keys.
- `LengthsSurvive`: `DecodeLen(EncodeLen(n)) = n` for every `n` that four bytes hold, at each of the five sizes.
- `SessionTypes`, `AnswersAreListed`: the types of a session, and `ListsAreAnswers`. Until something is `upset`
  (`AnswersInv`), what is on the wire is some number of rows of the command under way and the replies that end it,
  of which the words read so far are missing (`Pending`); the rows in its list and those on the wire are together the rows the
  router sent (`Fits`), earlier commands are complete and later ones empty (`InTurn`).

*Alerts* (`DownAlertsProofs`)

- `AlertTypes`, `AlertsAreSingle`, `SmsAreLimited`: `TypeOK`, `OneAlertPerOutage` and `DailyLimit` of the
  alerts. `RunInv` says that one run is at work, that a router it read as online and has not
  written is still online (nobody else sets routers offline), and that a run waits for its message;
  so the router of an alert was online when it was written. `CountInv` says what a counter that lags behind
  still knows: while nothing is `uncounted`, one message at most is under way (`Lonely`), the copy
  it carries is no smaller than the stored counter, and deliveries exceed that copy by one at most
  (`Known`). `CountMoves` proves it for one message that changes, and every step of a message is a case of it.

*License* (`LicenseProofs`)

- `LicenseTypes`, `UnconfirmedIsLocked`, `RefusedHasNoGrace`: the types, `LockedUntilConfirmed` and
  `NoGraceAfterNegative`. A server that no manager ever confirmed is locked because nothing of it could unlock it: no key is
  stored, in memory or in the database, no verdict is cached as valid, and no request is about to write a key
  (`Unconfirmed`). The grace property is inductive with the types.
- `DeactivatedHoldsNoKey`, `DeactivatedStaysLocked`: how far the finding LicenseDeactivate reaches. After a deactivation that no
  activation overlapped, and until the next activation or restart, the service has neither a key nor a client (`HoldsNoKey`);
  found locked with no refresh in flight, it stays so. The refresh that was already in flight is the only thing that unlocks it.
  The invariant adds to the types what each task may be doing (`InRole`): a request claims or checks a key only while it
  activates one, the refresh never releases or writes one, and requests run only when the service is up. A restart is left out
  because the write that clears the key in the database may have failed (`WriteKey`): the service then starts with it again.

*Registry* (`RegistryProofs`)

- `RegistryTypes`: the types, with what makes them inductive: a request that goes on has a row in hand (`InHand`), ids not given
  out have none (`IdsInOrder`), and no request runs while the process starts (`ServedWhenUp`).
- `RestoreGivesBack`: `RestoreCompletes`. The addresses owed to the file are, at each stage of a start, registered or in the
  part of the file not yet restored (`OwedInv`).
- `FileComesInLine`: `FileIsTable`. A copy carries the version it was read at; the newest change that has a copy made after it
  (`due`) is either in the file, known as missed, or still carried by a request (`CopyInv`), and whoever carries a version not
  older has the table as it is, but for ports if it is older than the last `Spread`.
- `RestoresOnce`: the action property `RestoredOnce`, from the same types.
- `LongNeedsLicense`: `LongWasLicensed`. A server never licensed has no long retention in the table, in the file, in a start or in
  the hand of a request past the check (`LongInv`).

*Administration* (`AdministrationProofs`)

- `AccountTypes`, `SomebodyIsSuperAdmin`, `OnlySuperAdminsGive`: `TypeOK`, `SomeoneHolds` and
  `GivenBySuperAdmin` of the accounts. A count is stale when its request writes, so the
  invariant `Counted` speaks of every request that has its count behind it (`Checked`): until it
  is marked stale, some account other than its target holds the role. `WriteStep` shows that a
  write either takes nothing away or marks all such requests. `Entitled` says that a request
  about to give the SuperAdmin role came from a SuperAdmin.
- `SomebodyCanAdminister`: `SomeoneCanAdminister`. A request that could take the last rights away and is not stale leaves an
  able SuperAdmin besides its target, the one who sent it (`AbleInv`); `Fits` ties the step a request is at to its operation.
- `PagesListTheStored`, `PartsAreAsChosen`, `SavedForTheirEntry`: `ListIsStored`, `PartsAsChosen` and the action
  property `SentToItsEntry`, all from `PagesInv`: a draft was filled from the entry that is selected (`FilledInv`); a list that differs
  from what is stored has a load behind it, or one that read the stored list is on its way (`ListInv`); an assignment between its
  two statements is alone with its user and carries the choice made last (`PartsInv`).
- `TriesAreBounded`: `AttemptsBounded` of the sign-in, which is inductive with the types of the throttle. An attempt
  that passes the check (`Try`) finds at most one failure less than the limit, and all comparisons are among the
  attempts there are; one that fails moves from the comparisons to the failures (`Ends`).

*Screens* (`ScreensProofs`)

- `RestartsAsPromised`: `RestartKeepsASavedState`, the refinement: `Settings` implements `SavedState`. Its
  invariant `SavedInv` says, with the types, that the row, the file and what each request has read for the
  file are rows the database has held (`AllHeld`); without the last, a late copy could bring anything.
  `StepsAsPromised` maps the write of the row to `Change`, a copy and a stop to `Copy`, the restore to
  `Restart`, and the rest to stutters. `SettingsTypes`: the types.
- `AllFollows`: `FollowsTheRow`. What has not followed the row yet is owed by a request under way, and a request that is not
  `behind` carries the values of the row (`UpToDate`), and one about to file the routers has them as they are unless it is `old`; a process that is down has neither (`DownIsEmpty`).
- `SavedIsShown`: `ShownIsStored`. A page waits for a save of its own or for nothing, and what it read while `aware` is the
  row (`ShownInv`).
- `WalksSkipNothing`: `WalkSkipsNothing`. `PagedInv` says that a row which must be shown and was not yet has as many newer ones
  in front of it as the pages shown so far hold (`Covered`), so it comes on a later page; `Position` says that in a list ordered
  by time a row without a twin stands where the newer ones leave it. New rows and a purge move rows back, never forward. `CountHolds`
  says that a count is not behind the rows read after it, unless rows came in between.
- `StreamTypes`, `BufferHoldsStored`, `ShownRowsAreKnown`: `TypeOK`, `BufferBacked` and `ShownIsKnown` of the stream, from
  `StreamInv`. What is on its way to a buffer, in a handler or in the answer of a query, is a row the database has for that router;
  rows stay, so it still is when it arrives. For the page, that every row shown is known is not inductive, as a page forgets ids:
  `Recognises` says where the id is, the row `j` of the display among the last `j + PageSize - 1` ids learnt.
  `NewRowsLeaveRoom` keeps that when an answer is merged, and `TrimmingForgetsNoRow` needs the relation of the
  three limits that `StreamAssumption` states.

- `PollsSkipNothing`: `NothingSkipped`, from `OrderInv`, which says of a stream that is `InOrder`: ids and times agree and one
  handler is at work (`OneByOne`), so buffers and answers have falling ids (`Falling`); an answer under way is for the router and
  the id its page is at (`Asked`), and accounts for every row of the buffer between that id and the highest it brings (`Answers`,
  or for a query `Seeds`, of every row of the database, since the buffer may be filled by another page meanwhile); and the page has
  accounted for every row up to its `newestId` (`Follows`). A row is accounted for when it is in the list or was passed
  over. Forgetting keeps that because ids an answer apart rise (`NearlyRising`) and more than an answer is kept (`TrimAccounts`).
  `ShelfChanges` shows that a push, or a fill of the empty buffer by another page, costs no page anything: an empty buffer
  means that nobody has reached a row of it. `RowsByTime` needs that an injection between finite sets of one size is onto, for
  a query that orders by time and must still return every row.
- `OwnRowsShown`, `NewestRowsFirst`: what the page's heading promises, "Live syslog from the selected MikroTik, newest
  first", and when. The finding StreamSwitch shows rows of another router after a switch under a request;
  `OwnRowsShown` says that this is the only way to them: while nobody has selected a router under an awaited answer
  (`spent.crossed = 0`), a page's rows, its request and the answer are of the router it is at (`OwnInv`), with
  overlapping handlers, refreshes, losses and restarts allowed. `NewestRowsFirst` is under `InOrder`, from `OrderInv`: an answer
  falls and is above `newestId`, the rows on display are not, and merging puts the one before the other
  (`JoinedFalls`, `ShownFalls`). With overlapping handlers rows are pushed, and shown, in another order than that of their ids.

Two means carry the proofs about recursive data. The induction theorems of the library take an operator as parameter;
`Induction` states induction with a set of numbers in place of the formula (`SetInduction`), and proves from it that
the functions by which the models recurse exist (`Iterates`, `FoldsExist`), hence what `FoldLeft` computes step by step.
`AmongSteps`, `LearnSteps` and `PushesKeep` instantiate it for the three folds of the stream.

Assumed: what the modules' named assumptions say of the constants, that handlers are
finitely many, and the abstractions above. Checked by TLC only: all liveness (`SlotsDrain`, `StreamCatchesUp`, `BrowserSettles`, `SilenceReported`, `StatusFollows`, `SyncEnds`,
`ChangesReachDisk`, `RefreshEnds`, `ActiveUnlocks`), which is out of the prover's reach.

## Plan

Done: ingest, buffer, stream, session table; registry and settings with their files, refinement of the latter; license;
accounts, roles, their pages and assignments; sign-in; alerts, client map and the router's API; paged lists.

Left, in this order:

1. The retention purge against the retention of each router, and the purge of the daily folders.
2. Changing the password and what it does to sessions; the access of a user to routers at the time of a request.

## Not modelled

String processing (regular expressions of the parser, dates, formatting, redaction, input checks), SQL
and the ORM beyond atomic statements, HTTP and cookies, JWT cryptography, the CSRF check, the operating
system's metrics, the look of the web pages, deployment scripts. The license manager, the router and
the database are modelled by what the code relies on. Pages that show what one request returned (dashboard, service
information, help) keep no state between requests. Left out of modelled parts: the license page and the menu table, changing the
password, `canAccessServer`, `stitch` of the session table, the CSV export and the address lookup of a search by user name,
hydration of rows, the hourly counters, the fallback of the UDP port, the test mail.
