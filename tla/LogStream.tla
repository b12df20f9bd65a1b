------------------------------ MODULE LogStream ------------------------------
(* The realtime log stream, end to end: handlers that insert a log row and then *)
(* push it to the live buffer of its router, LogsService.stream that answers    *)
(* from the buffer or, when it is empty, fills it from the database, and the    *)
(* browser pages (log-stream/page.tsx) that poll it with the highest id they    *)
(* have seen.  Every await, and the network, is a point where others may run.   *)
EXTENDS Integers, FiniteSets, StreamBuffer

CONSTANTS
    Servers, NoServer,
    Pages,         \* open browser pages
    MaxRows,       \* bound: log rows created
    MaxHandlers,   \* handlers in flight at a time
    PageSize,      \* rows of an answer
    ShownMax,      \* rows a page displays
    KnownMax, KnownKeep,   \* a page that knows more than KnownMax ids keeps KnownKeep
    MaxClicks, MaxRefreshes,   \* bounds: selections and pauses, refreshes,
    MaxLosses, MaxRestarts,    \* failed requests, restarts of the service,
    MaxOverlaps                \* inserts sent while another is in flight

ASSUME StreamAssumption ==
    /\ NoServer \notin Servers
    /\ {MaxRows, MaxHandlers, PageSize, ShownMax, KnownMax, KnownKeep} \subseteq Nat \ {0}
    /\ {MaxClicks, MaxRefreshes, MaxLosses, MaxRestarts, MaxOverlaps} \subseteq Nat
    /\ PageSize <= ShownMax /\ ShownMax + PageSize <= KnownKeep + 1    \* in the code 80, 120 and 800

VARIABLES
    handlers,  \* inserts under way or not pushed yet: [server, at, id], id 0 = not inserted
    issued,    \* inserts sent so far
    db,        \* the log rows, by id: [server, at]
    buffer,    \* the live buffer of each router
    page,      \* the state of each page
    req,       \* the one request a page may have in flight
    spent      \* what has been used of the bounds

vars == <<handlers, issued, db, buffer, page, req, spent>>

Ids == 1..MaxRows
NoReq == [stage |-> "none", server |-> NoServer, mode |-> "silent", after |-> 0, reply |-> <<>>]
ServerStages == {"sent", "seeding", "refilling", "seed", "refill"}

Init ==
    /\ handlers = {} /\ issued = 0 /\ db = <<>>
    /\ buffer = [s \in Servers |-> <<>>]
    /\ page = [p \in Pages |-> [selected |-> NoServer, rows |-> <<>>, known |-> <<>>,
                                newest |-> 0, first |-> TRUE, live |-> TRUE]]
    /\ req = [p \in Pages |-> NoReq]
    /\ spent = [clicks |-> 0, refreshes |-> 0, losses |-> 0, restarts |-> 0, overlaps |-> 0,
              crossed |-> 0]

-----------------------------------------------------------------------------
(* handle: logEvent.create is sent (the row's receivedAt is this moment), the   *)
(* database gives it the next id, the handler resumes and pushes it.           *)
Insert(s) ==
    /\ issued < MaxRows /\ Cardinality(handlers) < MaxHandlers
    /\ issued' = issued + 1
    /\ handlers' = handlers \cup {[server |-> s, at |-> issued + 1, id |-> 0]}
    /\ IF handlers = {} THEN UNCHANGED spent
       ELSE spent.overlaps < MaxOverlaps /\ spent' = [spent EXCEPT !.overlaps = @ + 1]
    /\ UNCHANGED <<db, buffer, page, req>>

Commit(h) ==
    /\ h.id = 0
    /\ db' = Append(db, [server |-> h.server, at |-> h.at])
    /\ handlers' = (handlers \ {h}) \cup {[h EXCEPT !.id = Len(db) + 1]}
    /\ UNCHANGED <<issued, buffer, page, req, spent>>

Push(h) ==
    /\ h.id # 0
    /\ buffer' = [buffer EXCEPT ![h.server] = Pushed(@, h.id)]
    /\ handlers' = handlers \ {h}
    /\ UNCHANGED <<issued, db, page, req, spent>>

-----------------------------------------------------------------------------
(* LogsService.stream.                                                        *)
FirstRows(rows) == SubSeq(rows, 1, IF Len(rows) > PageSize THEN PageSize ELSE Len(rows))

RowsOf(s) == {id \in DOMAIN db : db[id].server = s}
(* orderBy desc: the rows of a set of ids, by falling key.                     *)
Descending(S, key) ==
    {rows \in [1..Cardinality(S) -> S] :
        \A i, j \in DOMAIN rows : i < j => key[rows[i]] > key[rows[j]]}
ByTime(s) == Descending(RowsOf(s), [id \in RowsOf(s) |-> db[id].at])
ById(s, after) ==
    LET S == {id \in RowsOf(s) : id > after} IN Descending(S, [id \in S |-> id])

Move(p, r) == req' = [req EXCEPT ![p] = r]
Answer(r, rows) == [r EXCEPT !.stage = "answer", !.reply = FirstRows(rows)]

(* The buffer answers, or a query is sent because it is empty.                *)
ReadBuffer(p) ==
    LET r == req[p]
        rows == ReadAfter(buffer[r.server], r.after)
    IN  /\ r.stage = "sent"
        /\ Move(p, IF r.after = 0 /\ rows = <<>> THEN [r EXCEPT !.stage = "seeding"]
                   ELSE IF r.after # 0 /\ buffer[r.server] = <<>>
                   THEN [r EXCEPT !.stage = "refilling"]
                   ELSE Answer(r, rows))
        /\ UNCHANGED <<handlers, issued, db, buffer, page, spent>>

(* The database executes it.                                                  *)
Query(p) ==
    LET r == req[p] IN
    /\ \/ /\ r.stage = "seeding"
          /\ \E rows \in ByTime(r.server) :
                 Move(p, [r EXCEPT !.stage = "seed", !.reply = FirstRows(rows)])
       \/ /\ r.stage = "refilling"
          /\ \E rows \in ById(r.server, r.after) :
                 Move(p, [r EXCEPT !.stage = "refill", !.reply = FirstRows(rows)])
    /\ UNCHANGED <<handlers, issued, db, buffer, page, spent>>

(* stream resumes and stores what it read, whatever was pushed meanwhile.     *)
FillBuffer(p) ==
    LET r == req[p]
        oldestFirst == Reverse(r.reply)
    IN  /\ \/ /\ r.stage = "seed"
              /\ buffer' = [buffer EXCEPT ![r.server] = Seeded(@, r.reply)]
           \/ /\ r.stage = "refill"
              /\ buffer' = [buffer EXCEPT ![r.server] = FoldLeft(Pushed, @, oldestFirst)]
        /\ Move(p, Answer(r, r.reply))
        /\ UNCHANGED <<handlers, issued, db, page, spent>>

-----------------------------------------------------------------------------
(* The page.                                                                  *)
Largest(a, S) == IF S = {} THEN a ELSE LET m == CHOOSE m \in S : \A x \in S : x <= m
                                       IN  IF m > a THEN m ELSE a

(* A Set of ids in the order they were added.                                 *)
Learn(known, rows) ==
    FoldLeft(LAMBDA k, id : IF Contains(k, id) THEN k ELSE Append(k, id), known, rows)
Trimmed(known) ==
    IF Len(known) > KnownMax
    THEN SubSeq(known, IF Len(known) > KnownKeep THEN Len(known) - KnownKeep + 1 ELSE 1, Len(known))
    ELSE known

(* The state of a page after the answer incoming.                             *)
ReplacedForgets(g, incoming) == [g EXCEPT !.first = FALSE, !.rows = incoming]
Replaced(g, incoming) == [g EXCEPT !.first = FALSE, !.known = Learn(<<>>, incoming), !.rows = incoming]
Merged(g, incoming) ==
    LET fresh == Among(incoming, ToSet(incoming) \ ToSet(g.known))
        kept  == Among(g.rows, ToSet(g.rows) \ ToSet(fresh))
        all   == fresh \o kept
    IN  IF fresh = <<>> THEN g
        ELSE [g EXCEPT !.known = Trimmed(Learn(@, fresh)),
                       !.rows = SubSeq(all, 1, IF Len(all) > ShownMax THEN ShownMax ELSE Len(all))]

NewestNext(g, incoming) == Largest(g.newest, {id + 1 : id \in ToSet(incoming)})
Newest(g, incoming) == Largest(g.newest, ToSet(incoming))

Loaded(g, mode, incoming) ==
    LET n == [g EXCEPT !.newest = Newest(g, incoming)]
    IN  IF mode = "replace" \/ n.first \/ n.known = <<>> THEN Replaced(n, incoming)
        ELSE Merged(n, incoming)

(* load returns at once when a request is in flight: the click is lost.       *)
Load(p, g, mode) ==
    req' = IF req[p].stage # "none" THEN req
           ELSE [req EXCEPT ![p] =
                   [stage |-> "sent", server |-> g.selected, mode |-> mode,
                    after |-> IF mode = "silent" THEN g.newest ELSE 0, reply |-> <<>>]]

Poll(p) ==
    /\ page[p].live /\ page[p].selected # NoServer
    /\ req[p].stage = "none"
    /\ Load(p, page[p], "silent")
    /\ UNCHANGED <<handlers, issued, db, buffer, page, spent>>

(* crossed counts the selections made while an answer is awaited.             *)
Select(p, s) ==
    LET g == [page[p] EXCEPT !.selected = s, !.first = TRUE, !.known = <<>>,
                             !.newest = 0, !.rows = <<>>]
    IN  /\ page[p].selected # s /\ spent.clicks < MaxClicks
        /\ spent' = [spent EXCEPT !.clicks = @ + 1,
                                  !.crossed = IF req[p].stage = "none" THEN @ ELSE @ + 1]
        /\ page' = [page EXCEPT ![p] = g]
        /\ Load(p, g, "replace")
        /\ UNCHANGED <<handlers, issued, db, buffer>>

RefreshUnselected(p) ==
    /\ spent.refreshes < MaxRefreshes
    /\ spent' = [spent EXCEPT !.refreshes = @ + 1]
    /\ Load(p, page[p], "replace")
    /\ UNCHANGED <<handlers, issued, db, buffer, page>>
Refresh(p) ==
    /\ page[p].selected # NoServer
    /\ spent.refreshes < MaxRefreshes
    /\ spent' = [spent EXCEPT !.refreshes = @ + 1]
    /\ Load(p, page[p], "replace")
    /\ UNCHANGED <<handlers, issued, db, buffer, page>>

Pause(p) ==
    /\ spent.clicks < MaxClicks
    /\ spent' = [spent EXCEPT !.clicks = @ + 1]
    /\ page' = [page EXCEPT ![p].live = ~@]
    /\ UNCHANGED <<handlers, issued, db, buffer, req>>

(* The answer is handled under the selection of now, not of the request.      *)
ReceiveKeepsFlag(p) ==
    /\ req[p].stage = "answer"
    /\ page' = [page EXCEPT ![p] = Loaded(@, req[p].mode, req[p].reply)]
    /\ Move(p, IF page'[p] = page[p] THEN [req[p] EXCEPT !.stage = "stuck"] ELSE NoReq)
    /\ UNCHANGED <<handlers, issued, db, buffer, spent>>
Receive(p) ==
    /\ req[p].stage = "answer"
    /\ page' = [page EXCEPT ![p] = Loaded(@, req[p].mode, req[p].reply)]
    /\ Move(p, NoReq)
    /\ UNCHANGED <<handlers, issued, db, buffer, spent>>

-----------------------------------------------------------------------------
(* Faults: a request fails, the service restarts.                             *)
Lose(p) ==
    /\ req[p].stage # "none"
    /\ spent.losses < MaxLosses
    /\ spent' = [spent EXCEPT !.losses = @ + 1]
    /\ Move(p, NoReq)
    /\ UNCHANGED <<handlers, issued, db, buffer, page>>

Restart ==
    /\ spent.restarts < MaxRestarts
    /\ spent' = [spent EXCEPT !.restarts = @ + 1]
    /\ handlers' = {}
    /\ buffer' = [s \in Servers |-> <<>>]
    /\ req' = [p \in Pages |-> IF req[p].stage \in ServerStages THEN NoReq ELSE req[p]]
    /\ UNCHANGED <<issued, db, page>>

Ingest == (\E s \in Servers : Insert(s)) \/ (\E h \in handlers : Commit(h) \/ Push(h))
Serve(p) == ReadBuffer(p) \/ Query(p) \/ FillBuffer(p)

Next ==
    \/ Ingest
    \/ \E p \in Pages :
          \/ Serve(p) \/ Receive(p) \/ Poll(p) \/ Refresh(p) \/ Pause(p) \/ Lose(p)
          \/ \E s \in Servers : Select(p, s)
    \/ Restart

Spec == Init /\ [][Next]_vars

(* Handlers and requests get on, and the timer of a live page fires.          *)
Fairness ==
    /\ WF_vars(\E h \in handlers : Commit(h) \/ Push(h))
    /\ \A p \in Pages : WF_vars(Serve(p) \/ Receive(p)) /\ WF_vars(Poll(p))
FairSpec == Spec /\ Fairness

-----------------------------------------------------------------------------
PageType == [selected : Servers \cup {NoServer}, rows : Seq(Nat), known : Seq(Nat),
             newest : Nat, first : BOOLEAN, live : BOOLEAN]
ReqType == [stage : ServerStages \cup {"none", "answer"}, server : Servers \cup {NoServer},
            mode : {"replace", "silent"}, after : Nat, reply : Seq(Nat)]

TypeOK ==
    /\ handlers \subseteq [server : Servers, at : Nat, id : Nat]
    /\ issued \in Nat
    /\ db \in Seq([server : Servers, at : Nat])
    /\ buffer \in [Servers -> Seq(Nat)]
    /\ page \in [Pages -> PageType]
    /\ req \in [Pages -> ReqType]
    /\ \A p \in Pages : req[p].stage \in ServerStages => req[p].server \in Servers
    /\ spent \in [clicks : Nat, refreshes : Nat, losses : Nat, restarts : Nat, overlaps : Nat,
                 crossed : Nat]

\* Whatever the handlers and the fills of other pages interleave, the buffer of a
\* router holds only rows that are in the database for that router, at most MAX.
BufferBacked ==
    \A s \in Servers :
        /\ ToSet(buffer[s]) \subseteq RowsOf(s)
        /\ Len(buffer[s]) <= BufferMax

\* A page that goes on polling never fetches a row it shows: every row on display
\* is at or below the id it polls from, and among the ids it recognises, although
\* it forgets all but the last KnownKeep of them and an answer may be of the
\* router selected before.
ShownIsKnown ==
    \A p \in Pages, id \in Ids :
        Contains(page[p].rows, id) =>
            id <= page[p].newest /\ Contains(page[p].known, id)

\* Where rows are pushed in the order of their ids (one handler at a time), the
\* service does not restart, nobody clicks Refresh and no router is selected while an
\* answer is awaited, polling by the highest id passes over a row of the buffer only
\* behind a full answer of newer ones: the last PageSize ids the page learnt are all
\* newer than the row, also when other pages fill the buffer, requests fail, and the
\* page forgets the ids it learnt first.
InOrder ==
    /\ spent.overlaps = 0 /\ spent.restarts = 0
    /\ spent.refreshes = 0 /\ spent.crossed = 0
PassedOver(known, id) ==
    /\ Len(known) >= PageSize
    /\ \A i \in (Len(known) - PageSize + 1)..Len(known) : known[i] > id
NothingSkipped ==
    \A p \in Pages :
        InOrder /\ page[p].selected # NoServer =>
            \A id \in ToSet(buffer[page[p].selected]) :
                id <= page[p].newest =>
                    Contains(page[p].known, id) \/ PassedOver(page[p].known, id)

\* Once ingest is quiet, a live page comes to show the newest row of its router,
\* in spite of failed requests and a restart that empties the buffer.  (Not with
\* Refresh: newestId keeps its value when an answer replaces the rows, so a newer
\* row that the answer lacks is never asked for again.)
Quiet == issued = MaxRows /\ handlers = {}
ShowsNewest(p) ==
    LET rows == RowsOf(page[p].selected)
    IN  rows = {} \/ \E id \in rows : Contains(page[p].rows, id) /\ \A x \in rows : x <= id
StreamCatchesUp ==
    \A p \in Pages :
        (Quiet /\ page[p].live /\ page[p].selected # NoServer)
            ~> (ShowsNewest(p) \/ ~page[p].live)

\* page.tsx says of its table: "Live syslog from the selected MikroTik, newest
\* first."  It shows rows of the selected router only.
OnlySelected ==
    \A p \in Pages :
        page[p].selected # NoServer => ToSet(page[p].rows) \subseteq RowsOf(page[p].selected)
=============================================================================
