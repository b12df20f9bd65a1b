---------------------------- MODULE ScreensProofs -----------------------------
(* What the screens show, proved for any number of pages, requests, rows and     *)
(* values, and whatever fails: the settings are kept as SavedState promises (the *)
(* row, the file and what a request has read are values the database has held)   *)
(* and the Settings page shows them; the lists skip nothing; the live buffers    *)
(* hold stored rows, a page knows the rows it shows, polling passes over a row     *)
(* only behind a full answer of newer ones, and a page shows the rows of its router, *)
(* the newest first, unless it is switched under an answer.                      *)
EXTENDS LogStream, Settings, PagedLists, FiniteSetTheorems, Induction, TLAPS

-----------------------------------------------------------------------------
(* Part 1.  The settings and their page.                                        *)
Requested ==
    [pc : {"idle", "write", "read", "copy", "list", "backup", "drop", "spread", "answer", "look",
           "fill", "insert"},
     kind : {"put", "icon", "key", "router"}, router : Routers \cup {None},
     new : Rows, seen : Rows, listed : [Routers -> Ports \cup {None}],
     behind : BOOLEAN, old : BOOLEAN]
PageStates ==
    [pc : {"loading", "loaded", "ready", "first", "second"}, form : Forms,
     saved : Forms, asked : Forms, by : Clerks \cup {None}, notice : {"", "saved", "error"}]
Counts == [requests : Nat, faults : Nat, edits : Nat]

(* The types, apart; and what makes them inductive for the file.               *)
ServerTypes ==
    /\ row \in Rows /\ settingsFile \in Rows \cup {None}
    /\ portCache \in Ports \cup {None} /\ routerPort \in [Routers -> Ports \cup {None}]
    /\ filedPort \in [Routers -> Ports \cup {None}]
    /\ iconOnDisk \in Icons \cup {None} /\ storedKey \in Keys \cup {None}
    /\ serving \in BOOLEAN /\ aware \in BOOLEAN
    /\ held \subseteq Rows /\ askew \subseteq Facets
    /\ used \in Counts
ClerkTypes == clerk \in [Clerks -> Requested]
PageTypes == companyPage \in PageStates
ReadForFile ==
    \A c \in Clerks : /\ clerk[c].pc = "copy" => clerk[c].seen \in held
                      /\ clerk[c].pc = "write" => clerk[c].kind # "router"
AllHeld == row \in held /\ settingsFile \in held \cup {None} /\ ReadForFile
SavedInv == ServerTypes /\ ClerkTypes /\ PageTypes /\ AllHeld

(* The type invariant is those three parts.                                    *)
LEMMA TypesApart == SettingsTypeOK <=> ServerTypes /\ ClerkTypes /\ PageTypes
  BY DEF SettingsTypeOK, ServerTypes, ClerkTypes, PageTypes, Requested, PageStates, Counts

(* The constants the states begin with are values of their types.              *)
LEMMA Constants ==
    /\ Bare \in Rows /\ Resting \in Requested /\ Blank \in Forms
    /\ \A r \in Rows : FormOf(r) \in Forms
    /\ NoPorts \in [Routers -> Ports \cup {None}]
  BY SettingsAssumption DEF Bare, Rows, Resting, Requested, Blank, Forms, FormOf, NoPorts

(* It holds at first.                                                          *)
LEMMA SavedInit == SettingsInit => SavedInv
<1> SUFFICES ASSUME SettingsInit PROVE SavedInv
  OBVIOUS
<1>1. row \in Rows
  BY Constants DEF SettingsInit, Rows
<1>2. ServerTypes
  <2>1. routerPort \in [Routers -> Ports \cup {None}]
    <3>1. row.port \in Ports
      BY <1>1 DEF Rows
    <3>2. PICK rp \in [Routers -> {row.port, None}] : routerPort = rp
      BY DEF SettingsInit
    <3> QED
      BY <3>1, <3>2
  <2>2. used \in Counts
    BY DEF SettingsInit, Counts
  <2> QED
    BY <1>1, <2>1, <2>2 DEF SettingsInit, ServerTypes
<1>3. ClerkTypes
  BY Constants DEF SettingsInit, ClerkTypes
<1>4. PageTypes
  BY Constants DEF SettingsInit, PageTypes, PageStates
<1>5. AllHeld
  BY Constants DEF SettingsInit, AllHeld, ReadForFile, Resting
<1> QED
  BY <1>2, <1>3, <1>4, <1>5 DEF SavedInv

(* Bounds, marks, and a request that goes a step further.                      *)
LEMMA Uses ==
  ASSUME NEW what \in {"requests", "faults", "edits"}, NEW max, used \in Counts, Use(what, max)
  PROVE  used' \in Counts
  BY DEF Use, Counts

LEMMA Sets ==
  ASSUME NEW c \in Clerks, NEW k \in Requested, NEW ports, ClerkTypes, ReadForFile,
         held \subseteq held', SetPorts(c, k, ports), k.pc \notin {"copy", "write"}
  PROVE  ClerkTypes' /\ ReadForFile'
<1> DEFINE late(d) == [clerk[d] EXCEPT !.old = @ \/ (clerk[d].pc = "backup" /\ ports # routerPort)]
<1>1. ASSUME NEW d \in Clerks
      PROVE  /\ late(d) \in Requested /\ late(d).pc = clerk[d].pc /\ late(d).seen = clerk[d].seen
             /\ late(d).kind = clerk[d].kind
  <2>1. \A b \in BOOLEAN :
            LET kb == [clerk[d] EXCEPT !.old = b]
            IN  kb \in Requested /\ kb.pc = clerk[d].pc /\ kb.seen = clerk[d].seen
                /\ kb.kind = clerk[d].kind
    BY DEF ClerkTypes, Requested
  <2> QED
    BY <2>1, Zenon
<1>2. clerk' = [d \in Clerks |-> IF d = c THEN k ELSE late(d)]
  BY DEF SetPorts
<1> QED
  BY <1>1, <1>2 DEF ClerkTypes, ReadForFile

LEMMA Steps ==
  ASSUME NEW c \in Clerks, NEW k \in Requested, ClerkTypes, ReadForFile, held \subseteq held',
         Step(c, k), k.pc = "copy" => k.seen \in held', k.pc # "write"
  PROVE  ClerkTypes' /\ ReadForFile'
  BY DEF Step, ClerkTypes, ReadForFile

(* A request that comes in marks the others of its kind as overtaken.          *)
LEMMA Takes ==
  ASSUME NEW c \in Clerks, NEW k \in Requested, ClerkTypes, ReadForFile, used \in Counts,
         held' = held, k.pc # "copy",
         k.pc = "write" => k.kind # "router", Take(c, k)
  PROVE  ClerkTypes' /\ ReadForFile' /\ used' \in Counts
<1>1. used' \in Counts
  BY Uses DEF Take
<1>2. \A d \in Clerks : clerk[d] \in Requested /\ [clerk[d] EXCEPT !.behind = TRUE] \in Requested
  BY DEF ClerkTypes, Requested
<1>3. ClerkTypes'
  BY <1>2 DEF Take, ClerkTypes
<1>4. ASSUME NEW d \in Clerks
      PROVE  /\ clerk'[d].pc = "copy" => clerk'[d].seen \in held'
             /\ clerk'[d].pc = "write" => clerk'[d].kind # "router"
  <2>1. CASE d = c
    BY <2>1 DEF Take
  <2>2. CASE d # c
    <3>1. clerk'[d] \in {clerk[d], [clerk[d] EXCEPT !.behind = TRUE]}
      BY <2>2 DEF Take
    <3>2. /\ clerk'[d].pc = clerk[d].pc /\ clerk'[d].seen = clerk[d].seen
          /\ clerk'[d].kind = clerk[d].kind
      BY <3>1, <1>2 DEF Requested
    <3> QED
      BY <3>2 DEF ReadForFile
  <2> QED
    BY <2>1, <2>2
<1> QED
  BY <1>1, <1>3, <1>4 DEF ReadForFile

-----------------------------------------------------------------------------
(* Requests come in.                                                           *)
LEMMA AskSteps ==
  ASSUME SavedInv, NEW c \in Clerks,
         \/ \E form \in Forms : OtherPut(c, form) \/ (AskPut(c, form) /\ UNCHANGED served)
         \/ \E icon \in Icons \cup {None} : AskIcon(c, icon)
         \/ \E key \in Keys \cup {None} : AskKey(c, key)
         \/ \E r \in Routers : AskRouter(c, r)
  PROVE  ClerkTypes' /\ ReadForFile' /\ used' \in Counts
<1>0. held' = held /\ used \in Counts /\ ClerkTypes /\ ReadForFile
  BY DEF SavedInv, ServerTypes, AllHeld, OtherPut, AskPut, AskIcon, AskKey, AskRouter, served
<1>1. ASSUME NEW form \in Forms, AskPut(c, form)
      PROVE  ClerkTypes' /\ ReadForFile' /\ used' \in Counts
  <2> DEFINE k == [Resting EXCEPT !.pc = "write", !.new.text = form.text, !.new.port = form.port]
  <2>1. k \in Requested /\ k.pc = "write" /\ k.kind # "router"
    BY Constants DEF Resting, Requested, Rows, Bare, Forms
  <2>2. Take(c, k)
    BY <1>1 DEF AskPut
  <2> QED
    BY <1>0, <2>1, <2>2, Takes
<1>2. ASSUME NEW icon \in Icons \cup {None}, AskIcon(c, icon)
      PROVE  ClerkTypes' /\ ReadForFile' /\ used' \in Counts
  <2> DEFINE k == [Resting EXCEPT !.pc = "write", !.kind = "icon", !.new.icon = icon]
  <2>1. k \in Requested /\ k.pc = "write" /\ k.kind # "router"
    BY Constants DEF Resting, Requested, Rows, Bare
  <2>2. Take(c, k)
    BY <1>2 DEF AskIcon
  <2> QED
    BY <1>0, <2>1, <2>2, Takes
<1>3. ASSUME NEW key \in Keys \cup {None}, AskKey(c, key)
      PROVE  ClerkTypes' /\ ReadForFile' /\ used' \in Counts
  <2> DEFINE k == [Resting EXCEPT !.pc = "write", !.kind = "key", !.new.key = key]
  <2>1. k \in Requested /\ k.pc = "write" /\ k.kind # "router"
    BY Constants DEF Resting, Requested, Rows, Bare
  <2>2. Take(c, k)
    BY <1>3 DEF AskKey
  <2> QED
    BY <1>0, <2>1, <2>2, Takes
<1>4. ASSUME NEW r \in Routers, AskRouter(c, r)
      PROVE  ClerkTypes' /\ ReadForFile' /\ used' \in Counts
  <2> DEFINE l == [Resting EXCEPT !.pc = "look", !.kind = "router", !.router = r]
  <2>1. CASE portCache # None
    <3>1. portCache \in Ports
      BY <2>1 DEF SavedInv, ServerTypes
    <3>2. \A b \in BOOLEAN :
              LET k == [Resting EXCEPT !.pc = "insert", !.kind = "router", !.router = r,
                                       !.new.port = portCache, !.behind = b]
              IN  k \in Requested /\ k.pc = "insert"
      BY <3>1, Constants DEF Resting, Requested, Rows, Bare
    <3>3. CASE "cache" \in askew \cup Owed
      <4> DEFINE k == [Resting EXCEPT !.pc = "insert", !.kind = "router", !.router = r,
                                      !.new.port = portCache, !.behind = TRUE]
      <4>1. Take(c, k)
        BY <1>4, <2>1, <3>3 DEF AskRouter
      <4> QED
        BY <1>0, <3>2, <4>1, Takes
    <3>4. CASE "cache" \notin askew \cup Owed
      <4> DEFINE k == [Resting EXCEPT !.pc = "insert", !.kind = "router", !.router = r,
                                      !.new.port = portCache, !.behind = FALSE]
      <4>0. ("cache" \in askew \cup Owed) = FALSE
        BY <3>4
      <4>1. Take(c, k)
        BY <1>4, <2>1, <4>0, Zenon DEF AskRouter
      <4>2. k \in Requested /\ k.pc = "insert"
        BY <3>1, Constants DEF Resting, Requested, Rows, Bare
      <4> HIDE DEF k
      <4> QED
        BY <1>0, <4>1, <4>2, Takes
    <3> QED
      BY <3>3, <3>4
  <2>2. CASE portCache = None
    <3>1. l \in Requested /\ l.pc = "look"
      BY Constants DEF Resting, Requested
    <3>2. Take(c, l)
      BY <1>4, <2>2 DEF AskRouter
    <3> QED
      BY <1>0, <3>1, <3>2, Takes
  <2> QED
    BY <2>1, <2>2
<1> QED
  BY <1>1, <1>2, <1>3, <1>4 DEF OtherPut

(* The end of persistServers: a request for a new router is done, the others go  *)
(* on.                                                                         *)
LEMMA Filed ==
  ASSUME NEW c \in Clerks, clerk[c] \in Requested, FileRouters(c)
  PROVE  \E k \in Requested :
            /\ Step(c, k)
            /\ \/ clerk[c].kind = "router" /\ k = Resting
               \/ /\ clerk[c].kind # "router"
                  /\ k.pc = IF clerk[c].kind = "put" THEN "drop" ELSE "answer"
                  /\ k.kind = clerk[c].kind /\ k.new = clerk[c].new /\ k.behind = clerk[c].behind
<1>1. CASE clerk[c].kind = "router"
  <2>1. Step(c, Resting)
    BY <1>1 DEF FileRouters
  <2> QED
    BY <1>1, <2>1, Constants
<1>2. CASE clerk[c].kind # "router"
  <2> DEFINE k == [clerk[c] EXCEPT !.pc = IF clerk[c].kind = "put" THEN "drop" ELSE "answer",
                                   !.listed = NoPorts, !.old = FALSE]
  <2>1. Step(c, k)
    BY <1>2 DEF FileRouters
  <2>2. /\ k \in Requested /\ k.pc = (IF clerk[c].kind = "put" THEN "drop" ELSE "answer")
        /\ k.kind = clerk[c].kind /\ k.new = clerk[c].new /\ k.behind = clerk[c].behind
    BY Constants DEF Requested
  <2> HIDE DEF k
  <2> QED
    BY <1>2, <2>1, <2>2
<1> QED
  BY <1>1, <1>2

(* They go on: each step keeps what is known of the requests.                  *)
LEMMA GoOnSteps ==
  ASSUME SavedInv, NEW c \in Clerks,
         \/ ReadRow(c) \/ CopyRow(c) \/ ListRouters(c) \/ FileRouters(c)
         \/ DropPorts(c) \/ SpreadPort(c) \/ LookUpPort(c) \/ FillPort(c) \/ InsertRouter(c)
         \/ AnswerOther(c) \/ RequestFails(c) \/ Saved(c)
  PROVE  ClerkTypes' /\ ReadForFile'
<1>0. held' = held /\ ClerkTypes /\ ReadForFile /\ row \in held /\ row \in Rows
  BY DEF SavedInv, ServerTypes, AllHeld, ReadRow, CopyRow, ListRouters, FileRouters, DropPorts,
     SpreadPort, LookUpPort, FillPort, InsertRouter, AnswerOther, RequestFails, Saved, served
<1>1. clerk[c] \in Requested
  BY <1>0 DEF ClerkTypes
<1>2. Resting \in Requested /\ Resting.pc = "idle"
  BY Constants DEF Resting
<1>3. ASSUME NEW pc \in {"list", "drop", "spread", "answer", "insert"}
      PROVE  [clerk[c] EXCEPT !.pc = pc] \in Requested /\ [clerk[c] EXCEPT !.pc = pc].pc = pc
  BY <1>1 DEF Requested
<1>4. CASE ReadRow(c)
  <2> DEFINE k == [clerk[c] EXCEPT !.pc = "copy", !.seen = row, !.old = FALSE]
  <2>1. k \in Requested /\ k.seen = row /\ k.pc = "copy"
    BY <1>0, <1>1 DEF Requested
  <2>2. Step(c, k)
    BY <1>4 DEF ReadRow
  <2> HIDE DEF k
  <2> QED
    BY <1>0, <2>1, <2>2, Steps
<1>5. CASE LookUpPort(c)
  <2> DEFINE k == [clerk[c] EXCEPT !.pc = "fill", !.new.port = row.port, !.behind = FALSE]
  <2>1. k \in Requested /\ k.pc = "fill"
    BY <1>0, <1>1 DEF Requested, Rows
  <2>2. Step(c, k)
    BY <1>5 DEF LookUpPort
  <2> QED
    BY <1>0, <2>1, <2>2, Steps
<1>6. CASE AnswerOther(c) \/ RequestFails(c) \/ Saved(c)
  <2>1. Step(c, Resting)
    BY <1>6 DEF AnswerOther, RequestFails, Saved
  <2> QED
    BY <1>0, <1>2, <2>1, Steps
<1>7. CASE DropPorts(c) \/ FillPort(c)
  <2>1. PICK pc \in {"spread", "insert"} : Step(c, [clerk[c] EXCEPT !.pc = pc])
    BY <1>7 DEF DropPorts, FillPort
  <2> QED
    BY <1>0, <1>3, <2>1, Steps
<1>8. CASE SpreadPort(c) \/ InsertRouter(c)
  <2>1. PICK pc \in {"answer", "list"} : \E ports : SetPorts(c, [clerk[c] EXCEPT !.pc = pc], ports)
    BY <1>8 DEF SpreadPort, InsertRouter
  <2>2. PICK ports : SetPorts(c, [clerk[c] EXCEPT !.pc = pc], ports)
    BY <2>1
  <2> DEFINE k == [clerk[c] EXCEPT !.pc = pc]
  <2>3. k \in Requested /\ k.pc = pc /\ SetPorts(c, k, ports)
    BY <1>3, <2>2
  <2> HIDE DEF k
  <2> QED
    BY <1>0, <2>3, Sets
<1>9. CASE CopyRow(c)
  <2> DEFINE k == [clerk[c] EXCEPT !.pc = "list", !.seen = Bare, !.old = FALSE]
  <2>1. k \in Requested /\ k.pc = "list"
    BY <1>1, Constants DEF Requested
  <2>2. Step(c, k)
    BY <1>9 DEF CopyRow
  <2> HIDE DEF k
  <2> QED
    BY <1>0, <2>1, <2>2, Steps
<1>10. CASE ListRouters(c)
  <2> DEFINE k == [clerk[c] EXCEPT !.pc = "backup", !.listed = routerPort]
  <2>1. k \in Requested /\ k.pc = "backup"
    BY <1>1 DEF Requested, SavedInv, ServerTypes
  <2>2. Step(c, k)
    BY <1>10 DEF ListRouters
  <2> HIDE DEF k
  <2> QED
    BY <1>0, <2>1, <2>2, Steps
<1>11. CASE FileRouters(c)
  <2>1. PICK k : Step(c, k) /\ k \in Requested /\ k.pc \in {"idle", "drop", "answer"}
    BY <1>1, <1>2, <1>11, Filed
  <2> QED
    BY <1>0, <2>1, Steps
<1> QED
  BY <1>4, <1>5, <1>6, <1>7, <1>8, <1>9, <1>10, <1>11

(* The write of the row: a row, and requests that know they are behind.        *)
LEMMA WriteSteps ==
  ASSUME SavedInv, NEW c \in Clerks, WriteRow(c)
  PROVE  ClerkTypes' /\ ReadForFile' /\ row' \in Rows
<1>1. \A d \in Clerks : clerk[d] \in Requested
  BY DEF SavedInv, ClerkTypes
<1>2. row' \in Rows
  <2>1. clerk[c].kind \in {"put", "icon", "key"} /\ clerk[c].new \in Rows /\ row \in Rows
    BY <1>1 DEF SavedInv, ServerTypes, Requested, AllHeld, ReadForFile, WriteRow
  <2> QED
    BY <2>1 DEF WriteRow, Wrote, Rows
<1> DEFINE over(d) == Overtaken(clerk[d], clerk[c].kind = "put")
           k == [clerk[c] EXCEPT !.pc = "read", !.new = row']
<1>3. ASSUME NEW d \in Clerks
      PROVE  over(d) \in Requested /\ over(d).pc = clerk[d].pc /\ over(d).seen = clerk[d].seen
             /\ over(d).kind = clerk[d].kind
  <2>1. \A b1, b2 \in BOOLEAN :
            LET kb == [clerk[d] EXCEPT !.behind = b1, !.old = b2]
            IN  kb \in Requested /\ kb.pc = clerk[d].pc /\ kb.seen = clerk[d].seen
                /\ kb.kind = clerk[d].kind
    BY <1>1 DEF Requested
  <2> QED
    BY <2>1, Zenon DEF Overtaken, OutOfDate
<1>4. k \in Requested /\ k.pc = "read"
  BY <1>1, <1>2 DEF Requested
<1>5. clerk' = [d \in Clerks |-> IF d = c THEN k ELSE over(d)]
  BY DEF WriteRow
<1>6. ClerkTypes'
  BY <1>3, <1>4, <1>5 DEF ClerkTypes
<1>7. ReadForFile'
  <2>1. held \subseteq held' /\ ReadForFile
    BY DEF WriteRow, SavedInv, AllHeld
  <2> QED
    BY <1>3, <1>4, <1>5, <2>1 DEF ReadForFile
<1> QED
  BY <1>2, <1>6, <1>7

-----------------------------------------------------------------------------
(* The server: the row and the file are rows that the database has held.       *)
LEMMA OwedFacets == Owed \subseteq Facets
  BY DEF Owed, Owes, Facets

(* A mark is a facet.                                                          *)
LEMMA Marks ==
  ASSUME NEW facet \in Facets, NEW wrong, askew \subseteq Facets, Mark(facet, wrong)
  PROVE  askew' \subseteq Facets
  BY DEF Mark

Copies == row \in held /\ settingsFile \in held \cup {None}

(* The invariant, with what the file needs in two parts.                       *)
LEMMA SavedParts == SavedInv <=> ServerTypes /\ ClerkTypes /\ PageTypes /\ ReadForFile /\ Copies
  BY DEF SavedInv, AllHeld, Copies

(* A step that only reads.                                                     *)
LEMMA ServedSame ==
  ASSUME SavedInv, UNCHANGED served, aware' \in BOOLEAN, used' \in Counts
  PROVE  ServerTypes' /\ Copies'
  BY SavedParts DEF ServerTypes, Copies, served

(* Requests that come in,                                                      *)
LEMMA AskServes ==
  ASSUME SavedInv, NEW c \in Clerks,
         \/ \E form \in Forms : OtherPut(c, form)
         \/ \E icon \in Icons \cup {None} : AskIcon(c, icon)
         \/ \E key \in Keys \cup {None} : AskKey(c, key)
         \/ \E r \in Routers : AskRouter(c, r)
  PROVE  ServerTypes' /\ Copies'
<1>1. used' \in Counts
  BY AskSteps
<1>2. CASE \/ \E form \in Forms : OtherPut(c, form)
           \/ \E r \in Routers : AskRouter(c, r)
  <2>1. UNCHANGED served /\ aware' = aware
    BY <1>2 DEF OtherPut, AskRouter, served
  <2> QED
    BY <1>1, <2>1, ServedSame DEF SavedInv, ServerTypes
<1>3. ASSUME NEW icon \in Icons \cup {None}, AskIcon(c, icon) PROVE ServerTypes' /\ Copies'
  BY <1>1, <1>3, SavedParts DEF AskIcon, ServerTypes, Copies
<1>4. ASSUME NEW key \in Keys \cup {None}, AskKey(c, key) PROVE ServerTypes' /\ Copies'
  BY <1>1, <1>4, SavedParts DEF AskKey, ServerTypes, Copies
<1> QED
  BY <1>2, <1>3, <1>4

(* requests that go on,                                                        *)
LEMMA GoOnServes ==
  ASSUME SavedInv, NEW c \in Clerks,
         \/ WriteRow(c) \/ ReadRow(c) \/ CopyRow(c) \/ ListRouters(c) \/ FileRouters(c)
         \/ DropPorts(c) \/ SpreadPort(c)
         \/ LookUpPort(c) \/ FillPort(c) \/ InsertRouter(c) \/ AnswerOther(c) \/ RequestFails(c)
  PROVE  ServerTypes' /\ Copies'
<1>0. ServerTypes /\ Copies /\ ReadForFile /\ clerk[c] \in Requested
  BY SavedParts DEF ClerkTypes
<1>1. {"file", "backup", "cache", "ports", "icon", "key"} = Facets /\ Owes(c) \subseteq Facets
  BY OwedFacets DEF Facets, Owed
<1>2. clerk[c].new.port \in Ports
  BY <1>0 DEF Requested, Rows
<1>3. CASE WriteRow(c)
  <2>1. row' \in Rows
    BY <1>3, WriteSteps
  <2>2. askew' \subseteq Facets
    <3>1. clerk[c].kind \in {"put", "icon", "key"}
      BY <1>0, <1>3 DEF ReadForFile, WriteRow, Requested
    <3>2. CASE clerk[c].kind = "put"
      BY <1>0, <1>3, <3>2 DEF WriteRow, ServerTypes
    <3>3. CASE clerk[c].kind # "put"
      <4>1. Mark(clerk[c].kind, clerk[c].behind) /\ clerk[c].kind \in Facets
        BY <1>1, <1>3, <3>1, <3>3 DEF WriteRow
      <4> QED
        BY <1>0, <4>1, Marks DEF ServerTypes
    <3> QED
      BY <3>2, <3>3
  <2>3. aware' \in BOOLEAN
    BY <1>3 DEF WriteRow
  <2> QED
    BY <1>0, <1>3, <2>1, <2>2, <2>3 DEF WriteRow, ServerTypes, Copies
<1>4. CASE ReadRow(c) \/ ListRouters(c) \/ LookUpPort(c) \/ AnswerOther(c)
  <2>1. UNCHANGED served /\ aware' = aware /\ used' = used
    BY <1>4 DEF ReadRow, ListRouters, LookUpPort, AnswerOther, served
  <2> QED
    BY <1>0, <2>1, ServedSame DEF ServerTypes
<1>5. CASE CopyRow(c)
  <2>1. settingsFile' \in held \cup {None}
    BY <1>0, <1>5 DEF CopyRow, ReadForFile, Copies
  <2>2. used' \in Counts
    BY <1>0, <1>5, Uses DEF CopyRow, ServerTypes
  <2>3. askew' \subseteq Facets
    BY <1>0, <1>1, <1>5, Marks DEF CopyRow, ServerTypes
  <2> QED
    BY <1>0, <1>5, <2>1, <2>2, <2>3 DEF CopyRow, ServerTypes, Copies
<1>6. CASE DropPorts(c)
  <2>1. askew' \subseteq Facets
    BY <1>0, <1>1, <1>6, Marks DEF DropPorts, ServerTypes
  <2> QED
    BY <1>0, <1>6, <2>1 DEF DropPorts, ServerTypes, Copies
<1>7. CASE SpreadPort(c)
  <2>1. askew' \subseteq Facets
    BY <1>0, <1>1, <1>7 DEF SpreadPort, ServerTypes
  <2>2. routerPort' \in [Routers -> Ports \cup {None}]
    BY <1>2, <1>7 DEF SpreadPort, SetPorts
  <2> QED
    BY <1>0, <1>7, <2>1, <2>2 DEF SpreadPort, ServerTypes, Copies
<1>8. CASE FillPort(c)
  <2>1. askew' \subseteq Facets
    BY <1>0, <1>1, <1>8, Marks DEF FillPort, ServerTypes
  <2> QED
    BY <1>0, <1>2, <1>8, <2>1 DEF FillPort, ServerTypes, Copies
<1>9. CASE InsertRouter(c)
  <2>1. askew' \subseteq Facets
    BY <1>0, <1>1, <1>9 DEF InsertRouter, ServerTypes
  <2>2. routerPort' \in [Routers -> Ports \cup {None}]
    BY <1>0, <1>2, <1>9 DEF InsertRouter, SetPorts, ServerTypes
  <2> QED
    BY <1>0, <1>9, <2>1, <2>2 DEF InsertRouter, ServerTypes, Copies
<1>10. CASE RequestFails(c)
  <2>1. used' \in Counts
    BY <1>0, <1>10, Uses DEF RequestFails, ServerTypes
  <2>2. askew' \subseteq Facets
    BY <1>0, <1>1, <1>10 DEF RequestFails, ServerTypes
  <2> QED
    BY <1>0, <1>10, <2>1, <2>2 DEF RequestFails, ServerTypes, Copies
<1>11. CASE FileRouters(c)
  <2>1. filedPort' \in [Routers -> Ports \cup {None}]
    <3>1. filedPort' \in {clerk[c].listed, filedPort, NoPorts}
      BY <1>11 DEF FileRouters
    <3> QED
      BY <1>0, <3>1, Constants DEF ServerTypes, Requested
  <2>2. used' \in Counts
    BY <1>0, <1>11, Uses DEF FileRouters, ServerTypes
  <2>3. askew' \subseteq Facets
    BY <1>0, <1>1, <1>11, Marks DEF FileRouters, ServerTypes
  <2> QED
    BY <1>0, <1>11, <2>1, <2>2, <2>3 DEF FileRouters, ServerTypes, Copies
<1> QED
  BY <1>3, <1>4, <1>5, <1>6, <1>7, <1>8, <1>9, <1>10, <1>11

(* and the server itself: the cache ages, the process stops and restores.      *)
LEMMA ServerServes ==
  ASSUME SavedInv, CacheAges \/ StopServer \/ RestoreSettings
  PROVE  ServerTypes' /\ Copies' /\ ClerkTypes' /\ ReadForFile'
<1>0. ServerTypes /\ Copies /\ ReadForFile /\ ClerkTypes
  BY SavedParts
<1>1. CASE CacheAges
  <2>1. askew' \subseteq Facets
    BY <1>0, <1>1, Marks DEF CacheAges, ServerTypes, Facets
  <2> QED
    BY <1>0, <1>1, <2>1 DEF CacheAges, ServerTypes, Copies, ClerkTypes, ReadForFile
<1>2. CASE StopServer
  <2>1. used' \in Counts
    BY <1>0, <1>2, Uses DEF StopServer, ServerTypes
  <2>2. ServerTypes' /\ Copies'
    <3>1. filedPort' \in [Routers -> Ports \cup {None}] /\ settingsFile' \in {settingsFile, None}
      BY <1>0, <1>2, Constants DEF StopServer, ServerTypes
    <3> QED
      BY <1>0, <1>2, <2>1, <3>1, OwedFacets DEF StopServer, ServerTypes, Copies
  <2>3. ClerkTypes' /\ ReadForFile'
    <3>1. Resting \in Requested /\ Resting.pc = "idle"
      BY Constants DEF Resting
    <3>2. clerk' = [c \in Clerks |-> Resting]
      BY <1>2 DEF StopServer
    <3> QED
      BY <3>1, <3>2 DEF ClerkTypes, ReadForFile
  <2> QED
    BY <2>2, <2>3
<1>3. CASE RestoreSettings
  <2>1. row' \in held /\ settingsFile' \in held /\ row' \in Rows
    BY <1>0, <1>3 DEF RestoreSettings, Copies, ServerTypes
  <2>2. storedKey' \in Keys \cup {None} /\ aware' \in BOOLEAN
    BY <1>0, <1>3, <2>1 DEF RestoreSettings, ServerTypes, Rows
  <2>3. askew' \subseteq Facets
    BY <1>0, <1>3 DEF RestoreSettings, ServerTypes, Facets
  <2>4. filedPort' \in [Routers -> Ports \cup {None}] /\ used' \in Counts
    BY <1>0, <1>3, Constants, Uses DEF RestoreSettings, FileAgain, ServerTypes
  <2> QED
    BY <1>0, <1>3, <2>1, <2>2, <2>3, <2>4 DEF RestoreSettings, ServerTypes, Copies, ClerkTypes, ReadForFile
<1> QED
  BY <1>1, <1>2, <1>3

-----------------------------------------------------------------------------
(* The page.                                                                   *)
LEMMA SettingsPages ==
  ASSUME NEW form \in Forms, NEW notice \in {"", "saved", "error"}, PageTypes
  PROVE  Shows(form, notice) \in PageStates
  BY DEF Shows, PageTypes, PageStates

(* A save of the page is a request,                                            *)
LEMMA Sends ==
  ASSUME SavedInv, NEW c \in Clerks, NEW attempt \in {"first", "second"}, NEW entered \in Forms,
         NEW form \in Forms, Send(c, attempt, entered, form)
  PROVE  SavedInv' /\ UNCHANGED <<row, settingsFile, held>>
<1>1. AskPut(c, form) /\ UNCHANGED served /\ aware' = aware
  BY DEF Send
<1>2. ClerkTypes' /\ ReadForFile' /\ used' \in Counts
  BY <1>1, AskSteps
<1>3. ServerTypes' /\ Copies'
  BY <1>1, <1>2, ServedSame DEF SavedInv, ServerTypes
<1>4. PageTypes'
  BY SavedParts DEF Send, PageTypes, PageStates
<1>5. SavedInv'
  BY <1>2, <1>3, <1>4 DEF SavedInv, AllHeld, Copies
<1> QED
  BY <1>1, <1>5 DEF served

(* and nothing else it does reaches the server.                                *)
LEMMA PageSteps ==
  ASSUME SavedInv,
         \/ LoadRead \/ LoadShown \/ LoadFails \/ Discard \/ LoseAnswer \/ SaveFails
         \/ \E form \in Forms : EditForm(form)
         \/ \E c \in Clerks : Save(c) \/ SaveAgain(c) \/ Saved(c)
  PROVE  SavedInv' /\ UNCHANGED <<row, settingsFile, held>>
<1>0. ServerTypes /\ Copies /\ ReadForFile /\ ClerkTypes /\ companyPage \in PageStates
  BY SavedParts DEF PageTypes
<1>1. /\ companyPage.form \in Forms /\ companyPage.saved \in Forms /\ companyPage.asked \in Forms
      /\ row \in Rows /\ aware \in BOOLEAN /\ used \in Counts
  BY <1>0 DEF PageStates, ServerTypes
<1>2. ASSUME NEW c \in Clerks, Save(c)
      PROVE  SavedInv' /\ UNCHANGED <<row, settingsFile, held>>
  <2>1. Send(c, "first", companyPage.form, companyPage.form)
    BY <1>2 DEF Save
  <2> QED
    BY <1>1, <2>1, Sends
<1>3. ASSUME NEW c \in Clerks, SaveAgain(c)
      PROVE  SavedInv' /\ UNCHANGED <<row, settingsFile, held>>
  <2> DEFINE form == [companyPage.asked EXCEPT !.port = DefaultPort]
  <2>1. form \in Forms
    BY <1>1, SettingsAssumption DEF Forms
  <2>2. Send(c, "second", companyPage.asked, form)
    BY <1>3 DEF SaveAgain
  <2> HIDE DEF form
  <2> QED
    BY <1>1, <2>1, <2>2, Sends
<1>4. ASSUME \/ LoadRead \/ LoadShown \/ LoadFails \/ Discard \/ LoseAnswer \/ SaveFails
             \/ \E form \in Forms : EditForm(form)
             \/ \E c \in Clerks : Saved(c)
      PROVE  SavedInv' /\ UNCHANGED <<row, settingsFile, held>>
  <2>1. UNCHANGED served
    BY <1>4 DEF LoadRead, LoadShown, LoadFails, Discard, LoseAnswer, SaveFails, EditForm, Saved
  <2>2. aware' \in BOOLEAN
    BY <1>1, <1>4 DEF LoadRead, LoadShown, LoadFails, Discard, LoseAnswer, SaveFails, EditForm, Saved
  <2>3. used' \in Counts
    BY <1>1, <1>4, Uses
       DEF LoadRead, LoadShown, LoadFails, Discard, LoseAnswer, SaveFails, EditForm, Saved
  <2>4. ServerTypes' /\ Copies'
    BY <2>1, <2>2, <2>3, ServedSame
  <2>5. ClerkTypes' /\ ReadForFile'
    <3>1. CASE \E c \in Clerks : Saved(c)
      BY <3>1, GoOnSteps
    <3>2. CASE UNCHANGED clerk
      BY <1>0, <2>1, <3>2 DEF ClerkTypes, ReadForFile, served
    <3> QED
      BY <1>4, <3>1, <3>2
         DEF LoadRead, LoadShown, LoadFails, Discard, LoseAnswer, SaveFails, EditForm
  <2>6. PageTypes'
    <3>1. FormOf(row) \in Forms /\ Blank \in Forms
      BY <1>1, Constants
    <3>2. CASE LoadRead
      BY <1>0, <3>1, <3>2 DEF LoadRead, PageTypes, PageStates
    <3>3. CASE LoadShown \/ LoadFails
      BY <1>0, <1>1, <3>1, <3>3, SettingsPages DEF LoadShown, LoadFails, PageTypes
    <3>4. CASE Discard \/ LoseAnswer \/ SaveFails \/ \E form \in Forms : EditForm(form)
      BY <1>0, <1>1, <3>4 DEF Discard, LoseAnswer, SaveFails, EditForm, PageTypes, PageStates
    <3>5. ASSUME NEW c \in Clerks, Saved(c) PROVE PageTypes'
      <4>1. FormOf(clerk[c].new) \in Forms
        BY <1>0, Constants DEF ClerkTypes, Requested
      <4> QED
        BY <1>0, <3>5, <4>1, SettingsPages DEF Saved, PageTypes
    <3> QED
      BY <1>4, <3>2, <3>3, <3>4, <3>5
  <2> QED
    BY <2>1, <2>4, <2>5, <2>6 DEF SavedInv, AllHeld, Copies, served
<1> QED
  BY <1>2, <1>3, <1>4

-----------------------------------------------------------------------------
(* A request that fails only stops being the one the page waits for.           *)
LEMMA RequestPages ==
  ASSUME SavedInv, NEW c \in Clerks,
         \/ \E form \in Forms : OtherPut(c, form)
         \/ \E icon \in Icons \cup {None} : AskIcon(c, icon)
         \/ \E key \in Keys \cup {None} : AskKey(c, key)
         \/ \E r \in Routers : AskRouter(c, r)
         \/ WriteRow(c) \/ ReadRow(c) \/ CopyRow(c) \/ ListRouters(c) \/ FileRouters(c)
         \/ DropPorts(c) \/ SpreadPort(c)
         \/ LookUpPort(c) \/ FillPort(c) \/ InsertRouter(c) \/ AnswerOther(c) \/ RequestFails(c)
  PROVE  PageTypes'
<1>1. companyPage' \in {companyPage, [companyPage EXCEPT !.by = None]}
  BY DEF OtherPut, AskIcon, AskKey, AskRouter, WriteRow, ReadRow, CopyRow, ListRouters,
     FileRouters, DropPorts, SpreadPort, LookUpPort, FillPort, InsertRouter, AnswerOther, RequestFails
<1>2. companyPage \in PageStates
  BY SavedParts DEF PageTypes
<1> QED
  BY <1>1, <1>2 DEF PageTypes, PageStates

(* The invariant is inductive: one step for each kind of action.               *)
LEMMA SavedStep == SavedInv /\ [SettingsNext]_settingsVars => SavedInv'
<1> SUFFICES ASSUME SavedInv, [SettingsNext]_settingsVars PROVE SavedInv'
  OBVIOUS
<1>1. ASSUME NEW c \in Clerks,
             \/ \E form \in Forms : OtherPut(c, form)
             \/ \E icon \in Icons \cup {None} : AskIcon(c, icon)
             \/ \E key \in Keys \cup {None} : AskKey(c, key)
             \/ \E r \in Routers : AskRouter(c, r)
      PROVE  SavedInv'
  <2>1. ServerTypes' /\ Copies' /\ ClerkTypes' /\ ReadForFile' /\ PageTypes'
    BY <1>1, AskSteps, AskServes, RequestPages
  <2> QED
    BY <2>1 DEF SavedInv, AllHeld, Copies
<1>2. ASSUME NEW c \in Clerks,
             \/ WriteRow(c) \/ ReadRow(c) \/ CopyRow(c) \/ ListRouters(c) \/ FileRouters(c)
             \/ DropPorts(c) \/ SpreadPort(c)
             \/ LookUpPort(c) \/ FillPort(c) \/ InsertRouter(c) \/ AnswerOther(c) \/ RequestFails(c)
      PROVE  SavedInv'
  <2>1. ServerTypes' /\ Copies' /\ PageTypes'
    BY <1>2, GoOnServes, RequestPages
  <2>2. ClerkTypes' /\ ReadForFile'
    BY <1>2, GoOnSteps, WriteSteps
  <2> QED
    BY <2>1, <2>2 DEF SavedInv, AllHeld, Copies
<1>3. CASE CacheAges \/ StopServer \/ RestoreSettings
  <2>1. PageTypes'
    <3>1. companyPage' \in {companyPage, [companyPage EXCEPT !.by = None]}
      BY <1>3 DEF CacheAges, StopServer, RestoreSettings
    <3> QED
      BY <3>1 DEF SavedInv, PageTypes, PageStates
  <2> QED
    BY <1>3, <2>1, ServerServes DEF SavedInv, AllHeld, Copies
<1>4. CASE \/ LoadRead \/ LoadShown \/ LoadFails \/ Discard \/ LoseAnswer \/ SaveFails
           \/ \E form \in Forms : EditForm(form)
           \/ \E c \in Clerks : Save(c) \/ SaveAgain(c) \/ Saved(c)
  BY <1>4, PageSteps
<1>5. CASE UNCHANGED settingsVars
  BY <1>5 DEF settingsVars, SavedInv, ServerTypes, ClerkTypes, PageTypes, AllHeld, ReadForFile
<1> QED
  BY <1>1, <1>2, <1>3, <1>4, <1>5 DEF SettingsNext

(* Every step is a step of SavedState or leaves its variables alone.           *)
LEMMA StepsAsPromised ==
  SavedInv /\ [SettingsNext]_settingsVars => [Promise!Next]_(Promise!vars)
<1> SUFFICES ASSUME SavedInv, [SettingsNext]_settingsVars PROVE [Promise!Next]_(Promise!vars)
  OBVIOUS
<1> DEFINE Same == UNCHANGED <<row, settingsFile, held>>
<1>1. ASSUME NEW c \in Clerks, WriteRow(c) PROVE Promise!Change
  BY <1>1, WriteSteps DEF WriteRow, Promise!Change
<1>2. ASSUME NEW c \in Clerks, CopyRow(c) PROVE Promise!Copy
  BY <1>2 DEF SavedInv, AllHeld, ReadForFile, CopyRow, Promise!Copy
<1>3. CASE StopServer
  BY <1>3 DEF SavedInv, AllHeld, StopServer, Promise!Next, Promise!Copy
<1>4. CASE RestoreSettings
  BY <1>4 DEF RestoreSettings, Promise!Next, Promise!Restart
<1>5. ASSUME NEW c \in Clerks,
             \/ \E form \in Forms : OtherPut(c, form)
             \/ \E icon \in Icons \cup {None} : AskIcon(c, icon)
             \/ \E key \in Keys \cup {None} : AskKey(c, key)
             \/ \E r \in Routers : AskRouter(c, r)
             \/ ReadRow(c) \/ ListRouters(c) \/ FileRouters(c) \/ DropPorts(c) \/ SpreadPort(c)
             \/ LookUpPort(c) \/ FillPort(c) \/ InsertRouter(c) \/ AnswerOther(c) \/ RequestFails(c)
      PROVE  Same
  BY <1>5 DEF OtherPut, AskIcon, AskKey, AskRouter, ReadRow, ListRouters, FileRouters, DropPorts,
     SpreadPort, LookUpPort, FillPort, InsertRouter, AnswerOther, RequestFails
<1>6. CASE CacheAges \/ UNCHANGED settingsVars
  BY <1>6 DEF CacheAges, settingsVars, Promise!vars
<1>7. CASE \/ LoadRead \/ LoadShown \/ LoadFails \/ Discard \/ LoseAnswer \/ SaveFails
           \/ \E form \in Forms : EditForm(form)
           \/ \E c \in Clerks : Save(c) \/ SaveAgain(c) \/ Saved(c)
  BY <1>7, PageSteps DEF Promise!vars
<1>8. ASSUME Same PROVE [Promise!Next]_(Promise!vars)
  BY <1>8 DEF Promise!vars
<1> QED
  BY <1>1, <1>2, <1>3, <1>4, <1>5, <1>6, <1>7, <1>8 DEF SettingsNext, Promise!Next

(* The settings always hold values of their types, and whatever waits to be    *)
(* written to the file is a row that the database has held.                    *)
THEOREM SettingsSafe == SettingsSpec => []SavedInv
  BY SavedInit, SavedStep, PTL DEF SettingsSpec

(* The state of the settings has its type, for every number of requests and    *)
(* routers: the handlers of CompanyController and the page.                    *)
THEOREM SettingsTypes == SettingsSpec => []SettingsTypeOK
<1>1. SavedInv => SettingsTypeOK
  BY TypesApart DEF SavedInv
<1> QED
  BY <1>1, SettingsSafe, PTL

(* The refinement: whatever overlaps, fails or is cut off, the file holds a    *)
(* row the database has held, whole, or nothing; and a restart brings back     *)
(* what the file holds (persistCurrent, onModuleInit of WebConfigService).     *)
THEOREM RestartsAsPromised == SettingsSpec => RestartKeepsASavedState
<1>1. SettingsInit => Promise!Init
  BY SavedInit DEF SettingsInit, SavedInv, ServerTypes, Promise!Init
<1> QED
  BY <1>1, SettingsSafe, StepsAsPromised, PTL
     DEF SettingsSpec, RestartKeepsASavedState, Promise!Spec

-----------------------------------------------------------------------------
(* What follows the row.  A facet may be askew, or a request may still owe it;  *)
(* otherwise it is in line.  A request that stops owing a facet leaves it in    *)
(* line because what it carries is still what the row says, unless another      *)
(* request has overtaken it: that is what UpToDate says of every request.       *)
(* What a request that nobody has overtaken still has right, while it is under *)
(* way: what it read for a file, the icon or the key it has yet to write to the *)
(* row, and the port or the form that it wrote or looked up.                   *)
ToldByRow(k) ==
    k.kind = "put" /\ k.pc \in {"read", "copy", "list", "backup", "drop", "spread", "answer"}
UpToDate(k) ==
    /\ k.pc = "copy" /\ ~k.old => k.seen = row
    /\ k.pc = "backup" /\ ~k.old => k.listed = routerPort
    /\ k.pc \in {"look", "fill", "insert"} => k.kind = "router"
    /\ k.pc = "write" /\ k.kind = "icon" /\ ~k.behind => iconOnDisk = k.new.icon
    /\ k.pc = "write" /\ k.kind = "key" /\ ~k.behind => storedKey = k.new.key
    /\ ToldByRow(k) /\ ~k.behind => FormOf(k.new) = FormOf(row)
    /\ k.pc \in {"fill", "insert"} /\ ~k.behind => k.new.port = row.port
    /\ k.pc \in {"drop", "spread"} => k.kind = "put"

(* A process that is down has no requests and no cache.                        *)
DownIsEmpty == ~serving => portCache = None /\ \A c \in Clerks : clerk[c] = Resting

FollowInv == FollowsTheRow /\ DownIsEmpty /\ \A c \in Clerks : UpToDate(clerk[c])

(* The page waits for a save of its own, or for nothing; a page that knows of  *)
(* every save has read, or shows, the row as it is.                            *)
Waited == {"write", "read", "copy", "list", "backup", "drop", "spread", "answer"}
ShownInv ==
    /\ companyPage.by # None =>
          /\ companyPage.pc \in {"first", "second"}
          /\ clerk[companyPage.by].kind = "put"
          /\ clerk[companyPage.by].pc \in Waited
    /\ companyPage.pc = "loaded" /\ aware => companyPage.asked = FormOf(row)
    /\ ShownIsStored

(* What the requests owe, when one of them goes on: the others owe the same.    *)
LEMMA OwedByOthers ==
  ASSUME NEW c \in Clerks,
         \A d \in Clerks \ {c} : /\ clerk'[d].pc = clerk[d].pc
                                 /\ clerk'[d].kind = clerk[d].kind
  PROVE  Owed \subseteq Owed' \cup Owes(c) /\ Owes(c)' \subseteq Owed'
<1>1. \A d \in Clerks \ {c} : Owes(d)' = Owes(d)
  BY DEF Owes
<1>2. \A d \in Clerks : Owes(d) \subseteq Owed
  BY DEF Owed
<1>3. \A d \in Clerks : Owes(d)' \subseteq Owed'
  BY DEF Owed
<1>4. ASSUME NEW f \in Owed PROVE f \in Owed' \cup Owes(c)
  <2>1. PICK d \in Clerks : f \in Owes(d)
    BY <1>4 DEF Owed
  <2> QED
    BY <1>1, <1>3, <2>1
<1> QED
  BY <1>3, <1>4

(* Facet by facet: marked, owed, in line, or as it was.                         *)
LEMMA FacetByFacet ==
  ASSUME FollowsTheRow,
         \A f \in Facets : \/ f \in askew' \cup Owed'
                           \/ InLine(f)'
                           \/ f \notin askew \cup Owed /\ (InLine(f) => InLine(f)')
  PROVE  FollowsTheRow'
  BY DEF FollowsTheRow, Facets

(* What is in line stays so when nothing of it changes.                         *)
LEMMA LinesStay ==
  ASSUME FollowsTheRow, Owed \subseteq Owed' \cup askew', askew \subseteq askew',
         UNCHANGED <<row, settingsFile, portCache, routerPort, filedPort, iconOnDisk, storedKey, serving>>
  PROVE  FollowsTheRow'
<1>1. \A f \in Facets : InLine(f) => InLine(f)'
  BY DEF InLine
<1> QED
  BY <1>1, FacetByFacet

(* A request that comes in.                                                     *)
LEMMA TakesInOrder ==
  ASSUME SavedInv, FollowInv, NEW c \in Clerks, NEW k, Take(c, k),
         UNCHANGED <<row, routerPort, serving>>,
         iconOnDisk' = iconOnDisk \/ k.kind = "icon", storedKey' = storedKey \/ k.kind = "key"
  PROVE  /\ clerk'[c] = k /\ serving /\ DownIsEmpty'
         /\ Owed \subseteq Owed' /\ Owes(c)' \subseteq Owed'
         /\ \A d \in Clerks \ {c} : UpToDate(clerk[d])'
<1>1. /\ clerk'[c] = k /\ serving /\ serving' /\ clerk[c].pc = "idle"
      /\ \A d \in Clerks \ {c} : /\ clerk'[d].pc = clerk[d].pc
                                 /\ clerk'[d].kind = clerk[d].kind
                                 /\ clerk'[d].new = clerk[d].new
                                 /\ clerk'[d].seen = clerk[d].seen
                                 /\ clerk'[d].listed = clerk[d].listed
                                 /\ clerk'[d].old = clerk[d].old
                                 /\ ~ clerk'[d].behind =>
                                       /\ ~ clerk[d].behind
                                       /\ clerk[d].kind = k.kind => k.kind \notin {"icon", "key"}
  BY DEF Take, SavedInv, ClerkTypes, Requested
<1>2. Owes(c) = {}
  BY <1>1 DEF Owes
<1>3. ASSUME NEW d \in Clerks \ {c} PROVE UpToDate(clerk[d])'
  <2>1. UpToDate(clerk[d])
    BY DEF FollowInv
  <2> QED
    BY <1>1, <2>1 DEF UpToDate, ToldByRow
<1> QED
  BY <1>1, <1>2, <1>3, OwedByOthers DEF DownIsEmpty

LEMMA AskFollows ==
  ASSUME SavedInv, FollowInv, NEW c \in Clerks,
         \/ \E form \in Forms : OtherPut(c, form) \/ (AskPut(c, form) /\ UNCHANGED served)
         \/ \E icon \in Icons \cup {None} : AskIcon(c, icon)
         \/ \E key \in Keys \cup {None} : AskKey(c, key)
         \/ \E r \in Routers : AskRouter(c, r)
  PROVE  FollowInv'
<1>0. FollowsTheRow /\ Resting \in Requested
  BY Constants DEF FollowInv
<1>1. ASSUME NEW form \in Forms, AskPut(c, form), UNCHANGED served PROVE FollowInv'
  <2> DEFINE k == [Resting EXCEPT !.pc = "write", !.new.text = form.text, !.new.port = form.port]
  <2>1. Take(c, k) /\ k.pc = "write" /\ k.kind = "put"
    BY <1>1 DEF AskPut, Resting
  <2> HIDE DEF k
  <2>2. /\ clerk'[c] = k /\ DownIsEmpty' /\ Owed \subseteq Owed'
        /\ \A d \in Clerks \ {c} : UpToDate(clerk[d])'
    BY <1>1, <2>1, TakesInOrder DEF served
  <2>3. UpToDate(clerk[c])'
    BY <2>1, <2>2 DEF UpToDate, ToldByRow
  <2>4. FollowsTheRow'
    BY <1>0, <1>1, <2>2, LinesStay DEF served
  <2> QED
    BY <2>2, <2>3, <2>4 DEF FollowInv
<1>2. ASSUME NEW icon \in Icons \cup {None}, AskIcon(c, icon) PROVE FollowInv'
  <2> DEFINE k == [Resting EXCEPT !.pc = "write", !.kind = "icon", !.new.icon = icon]
  <2>1. Take(c, k) /\ k.pc = "write" /\ k.kind = "icon" /\ k.new.icon = icon
    BY <1>0, <1>2 DEF AskIcon, Requested, Rows
  <2> HIDE DEF k
  <2>2. /\ clerk'[c] = k /\ DownIsEmpty' /\ Owed \subseteq Owed' /\ Owes(c)' \subseteq Owed'
        /\ \A d \in Clerks \ {c} : UpToDate(clerk[d])'
    BY <1>2, <2>1, TakesInOrder DEF AskIcon
  <2>3. UpToDate(clerk[c])'
    BY <1>2, <2>1, <2>2 DEF UpToDate, ToldByRow, AskIcon
  <2>4. "icon" \in Owed'
    BY <2>1, <2>2 DEF Owes
  <2>5. \A f \in Facets \ {"icon"} : InLine(f) => InLine(f)'
    BY <1>2 DEF AskIcon, InLine, Facets
  <2>6. FollowsTheRow'
    BY <1>0, <1>2, <2>2, <2>4, <2>5, FacetByFacet DEF AskIcon
  <2> QED
    BY <2>2, <2>3, <2>6 DEF FollowInv
<1>3. ASSUME NEW key \in Keys \cup {None}, AskKey(c, key) PROVE FollowInv'
  <2> DEFINE k == [Resting EXCEPT !.pc = "write", !.kind = "key", !.new.key = key]
  <2>1. Take(c, k) /\ k.pc = "write" /\ k.kind = "key" /\ k.new.key = key
    BY <1>0, <1>3 DEF AskKey, Requested, Rows
  <2> HIDE DEF k
  <2>2. /\ clerk'[c] = k /\ DownIsEmpty' /\ Owed \subseteq Owed' /\ Owes(c)' \subseteq Owed'
        /\ \A d \in Clerks \ {c} : UpToDate(clerk[d])'
    BY <1>3, <2>1, TakesInOrder DEF AskKey
  <2>3. UpToDate(clerk[c])'
    BY <1>3, <2>1, <2>2 DEF UpToDate, ToldByRow, AskKey
  <2>4. "key" \in Owed'
    BY <2>1, <2>2 DEF Owes
  <2>5. \A f \in Facets \ {"key"} : InLine(f) => InLine(f)'
    BY <1>3 DEF AskKey, InLine, Facets
  <2>6. FollowsTheRow'
    BY <1>0, <1>3, <2>2, <2>4, <2>5, FacetByFacet DEF AskKey
  <2> QED
    BY <2>2, <2>3, <2>6 DEF FollowInv
<1>4. ASSUME NEW r \in Routers, AskRouter(c, r) PROVE FollowInv'
  <2>0. UNCHANGED <<row, settingsFile, portCache, routerPort, filedPort, iconOnDisk, storedKey, serving, askew>>
    BY <1>4 DEF AskRouter
  <2>1. PICK k : /\ Take(c, k) /\ k.kind = "router"
                 /\ \/ k.pc = "look"
                    \/ /\ k.pc = "insert" /\ k.new.port = portCache /\ portCache # None
                       /\ k.behind = ("cache" \in askew \cup Owed)
    <3> DEFINE i == [Resting EXCEPT !.pc = "insert", !.kind = "router", !.router = r,
                                    !.new.port = portCache,
                                    !.behind = "cache" \in askew \cup Owed]
               l == [Resting EXCEPT !.pc = "look", !.kind = "router", !.router = r]
    <3>1. /\ i.pc = "insert" /\ i.kind = "router" /\ i.behind = ("cache" \in askew \cup Owed)
          /\ i.new.port = portCache
      BY <1>0 DEF Requested, Rows
    <3>2. l.pc = "look" /\ l.kind = "router"
      BY <1>0 DEF Requested
    <3>3. Take(c, IF portCache # None THEN i ELSE l)
      BY <1>4 DEF AskRouter
    <3> HIDE DEF i, l
    <3> QED
      BY <3>1, <3>2, <3>3
  <2>2. /\ clerk'[c] = k /\ DownIsEmpty' /\ Owed \subseteq Owed'
        /\ \A d \in Clerks \ {c} : UpToDate(clerk[d])'
    BY <2>0, <2>1, TakesInOrder
  <2>3. UpToDate(clerk[c])'
    <3>1. ASSUME "cache" \notin askew \cup Owed PROVE portCache \in {row.port, None}
      BY <1>0, <3>1 DEF FollowsTheRow, Facets, InLine
    <3> QED
      BY <2>0, <2>1, <2>2, <3>1 DEF UpToDate, ToldByRow
  <2>4. FollowsTheRow'
    BY <1>0, <2>0, <2>2, LinesStay
  <2> QED
    BY <2>2, <2>3, <2>4 DEF FollowInv
<1>5. ASSUME NEW form \in Forms, OtherPut(c, form) PROVE FollowInv'
  BY <1>1, <1>5 DEF OtherPut, served
<1> QED
  BY <1>1, <1>2, <1>3, <1>4, <1>5

(* A request that goes on by a step of its own; the row, the disk and the key   *)
(* are left alone, and the others with them.                                    *)
LEMMA StepsInOrder ==
  ASSUME SavedInv, FollowInv, NEW c \in Clerks, NEW k, Step(c, k), clerk[c].pc # "idle",
         UNCHANGED <<row, routerPort, iconOnDisk, storedKey, serving>>
  PROVE  /\ clerk'[c] = k /\ serving /\ DownIsEmpty'
         /\ Owed \subseteq Owed' \cup Owes(c) /\ Owes(c)' \subseteq Owed'
         /\ \A d \in Clerks \ {c} : UpToDate(clerk[d])'
<1>1. clerk'[c] = k /\ \A d \in Clerks \ {c} : clerk'[d] = clerk[d]
  BY DEF Step, SavedInv, ClerkTypes
<1>2. serving
  BY DEF FollowInv, DownIsEmpty, Resting, SavedInv, ServerTypes
<1>3. ASSUME NEW d \in Clerks \ {c} PROVE UpToDate(clerk[d])'
  <2>1. UpToDate(clerk[d])
    BY DEF FollowInv
  <2> QED
    BY <1>1, <2>1 DEF UpToDate, ToldByRow
<1> QED
  BY <1>1, <1>2, <1>3, OwedByOthers DEF DownIsEmpty

(* A step of its own that gives routers ports: who is about to file them knows. *)
LEMMA PortsInOrder ==
  ASSUME SavedInv, FollowInv, NEW c \in Clerks, NEW k, NEW ports, SetPorts(c, k, ports),
         clerk[c].pc # "idle", UNCHANGED <<row, iconOnDisk, storedKey, serving>>
  PROVE  /\ clerk'[c] = k /\ serving /\ DownIsEmpty'
         /\ Owed \subseteq Owed' \cup Owes(c) /\ Owes(c)' \subseteq Owed'
         /\ \A d \in Clerks \ {c} : UpToDate(clerk[d])'
<1>1. clerk'[c] = k /\ routerPort' = ports
  BY DEF SetPorts, SavedInv, ClerkTypes
<1>2. ASSUME NEW d \in Clerks \ {c}
      PROVE  /\ clerk'[d].pc = clerk[d].pc /\ clerk'[d].kind = clerk[d].kind
             /\ clerk'[d].new = clerk[d].new /\ clerk'[d].seen = clerk[d].seen
             /\ clerk'[d].listed = clerk[d].listed /\ clerk'[d].behind = clerk[d].behind
             /\ clerk'[d].old = (clerk[d].old \/ (clerk[d].pc = "backup" /\ ports # routerPort))
  <2>1. clerk[d] \in Requested
    BY DEF SavedInv, ClerkTypes
  <2>2. clerk'[d] = [clerk[d] EXCEPT !.old = @ \/ (clerk[d].pc = "backup" /\ ports # routerPort)]
    BY DEF SetPorts
  <2> QED
    BY <2>1, <2>2 DEF Requested
<1>3. serving
  BY DEF FollowInv, DownIsEmpty, Resting, SavedInv, ServerTypes
<1>4. ASSUME NEW d \in Clerks \ {c} PROVE UpToDate(clerk[d])'
  <2>1. UpToDate(clerk[d])
    BY DEF FollowInv
  <2> QED
    BY <1>1, <1>2, <2>1 DEF UpToDate, ToldByRow
<1> QED
  BY <1>1, <1>2, <1>3, <1>4, OwedByOthers DEF DownIsEmpty

(* A step by which the request owes nothing less.                               *)
LEMMA StepsOwing ==
  ASSUME SavedInv, FollowInv, NEW c \in Clerks, NEW k, Step(c, k), clerk[c].pc # "idle",
         UNCHANGED <<row, settingsFile, portCache, routerPort, filedPort, iconOnDisk, storedKey, serving>>,
         askew \subseteq askew', Owes(c) \subseteq askew' \cup Owes(c)', UpToDate(clerk[c])'
  PROVE  FollowInv'
<1>1. /\ DownIsEmpty' /\ Owed \subseteq Owed' \cup Owes(c) /\ Owes(c)' \subseteq Owed'
      /\ \A d \in Clerks \ {c} : UpToDate(clerk[d])'
  BY StepsInOrder
<1>2. FollowsTheRow'
  BY <1>1, LinesStay DEF FollowInv
<1> QED
  BY <1>1, <1>2 DEF FollowInv

(* The step by which the request pays what it owed of one facet, which is then  *)
(* in line or marked.                                                           *)
LEMMA StepsPaying ==
  ASSUME SavedInv, FollowInv, NEW c \in Clerks, NEW k, Step(c, k), clerk[c].pc # "idle",
         UNCHANGED <<row, routerPort, iconOnDisk, storedKey, serving>>,
         NEW g \in Facets, NEW wrong, Mark(g, wrong), ~ wrong => InLine(g)',
         \A f \in Facets \ {g} : InLine(f) => InLine(f)',
         Owes(c) \subseteq Owes(c)' \cup {g}, UpToDate(clerk[c])'
  PROVE  FollowInv'
<1>1. /\ DownIsEmpty' /\ Owed \subseteq Owed' \cup Owes(c) /\ Owes(c)' \subseteq Owed'
      /\ \A d \in Clerks \ {c} : UpToDate(clerk[d])'
  BY StepsInOrder
<1>3. \A f \in Facets \ {g} : (f \in askew => f \in askew') /\ (f \in Owed => f \in Owed')
  BY <1>1 DEF Mark
<1>4. g \in askew' \/ InLine(g)'
  BY DEF Mark
<1>5. FollowsTheRow'
  BY <1>3, <1>4, FacetByFacet DEF FollowInv
<1> QED
  BY <1>1, <1>5 DEF FollowInv

(* Reading: the row or the routers for their file, the port for a new router;   *)
(* and the answers.                                                            *)
LEMMA ReadFollows ==
  ASSUME SavedInv, FollowInv, NEW c \in Clerks,
         ReadRow(c) \/ ListRouters(c) \/ LookUpPort(c) \/ AnswerOther(c)
  PROVE  FollowInv'
<1>0. clerk[c] \in Requested /\ Resting.pc = "idle" /\ row \in Rows /\ UpToDate(clerk[c])
  BY DEF SavedInv, ClerkTypes, ServerTypes, Resting, FollowInv
<1>1. CASE ReadRow(c)
  <2> DEFINE k == [clerk[c] EXCEPT !.pc = "copy", !.seen = row, !.old = FALSE]
  <2>1. /\ Step(c, k) /\ clerk[c].pc = "read"
        /\ UNCHANGED <<row, settingsFile, portCache, routerPort, filedPort, iconOnDisk, storedKey, serving, askew>>
    BY <1>1 DEF ReadRow
  <2>2. /\ k.pc = "copy" /\ k.seen = row /\ k.kind = clerk[c].kind /\ k.new = clerk[c].new
        /\ k.behind = clerk[c].behind
    BY <1>0 DEF Requested
  <2> HIDE DEF k
  <2>3. clerk'[c] = k
    BY <2>1, StepsInOrder
  <2>4. Owes(c) \subseteq Owes(c)'
    BY <2>1, <2>2, <2>3 DEF Owes
  <2>5. UpToDate(clerk[c])'
    BY <1>0, <2>1, <2>2, <2>3 DEF UpToDate, ToldByRow
  <2> QED
    BY <2>1, <2>4, <2>5, StepsOwing
<1>2. CASE LookUpPort(c)
  <2> DEFINE k == [clerk[c] EXCEPT !.pc = "fill", !.new.port = row.port, !.behind = FALSE]
  <2>1. /\ Step(c, k) /\ clerk[c].pc = "look"
        /\ UNCHANGED <<row, settingsFile, portCache, routerPort, filedPort, iconOnDisk, storedKey, serving, askew>>
    BY <1>2 DEF LookUpPort
  <2>2. k.pc = "fill" /\ k.new.port = row.port /\ k.kind = "router"
    BY <1>0, <2>1 DEF Requested, Rows, UpToDate
  <2> HIDE DEF k
  <2>3. clerk'[c] = k
    BY <2>1, StepsInOrder
  <2>4. Owes(c) = {}
    BY <2>1 DEF Owes
  <2>5. UpToDate(clerk[c])'
    BY <2>1, <2>2, <2>3 DEF UpToDate, ToldByRow
  <2> QED
    BY <2>1, <2>4, <2>5, StepsOwing
<1>3. CASE AnswerOther(c)
  <2>1. /\ Step(c, Resting) /\ clerk[c].pc = "answer"
        /\ UNCHANGED <<row, settingsFile, portCache, routerPort, filedPort, iconOnDisk, storedKey, serving, askew>>
    BY <1>3 DEF AnswerOther
  <2>2. Owes(c) = {}
    BY <2>1 DEF Owes
  <2>3. UpToDate(clerk[c])'
    BY <1>0, <2>1, StepsInOrder DEF UpToDate, ToldByRow
  <2> QED
    BY <2>1, <2>2, <2>3, StepsOwing
<1>4. CASE ListRouters(c)
  <2> DEFINE k == [clerk[c] EXCEPT !.pc = "backup", !.listed = routerPort]
  <2>1. /\ Step(c, k) /\ clerk[c].pc = "list"
        /\ UNCHANGED <<row, settingsFile, portCache, routerPort, filedPort, iconOnDisk, storedKey, serving, askew>>
    BY <1>4 DEF ListRouters
  <2>2. /\ k.pc = "backup" /\ k.listed = routerPort /\ k.kind = clerk[c].kind
        /\ k.new = clerk[c].new /\ k.behind = clerk[c].behind
    BY <1>0 DEF Requested
  <2> HIDE DEF k
  <2>3. clerk'[c] = k
    BY <2>1, StepsInOrder
  <2>4. Owes(c) \subseteq Owes(c)'
    BY <2>1, <2>2, <2>3 DEF Owes
  <2>5. UpToDate(clerk[c])'
    BY <1>0, <2>1, <2>2, <2>3 DEF UpToDate, ToldByRow
  <2> QED
    BY <2>1, <2>4, <2>5, StepsOwing
<1> QED
  BY <1>1, <1>2, <1>3, <1>4

(* The file is written with the row as it was read, which is still the row      *)
(* unless somebody has written it since; or the write fails.                    *)
LEMMA CopyFollows ==
  ASSUME SavedInv, FollowInv, NEW c \in Clerks, CopyRow(c)
  PROVE  FollowInv'
<1> DEFINE k == [clerk[c] EXCEPT !.pc = "list", !.seen = Bare, !.old = FALSE]
<1>0. clerk[c] \in Requested /\ UpToDate(clerk[c])
  BY DEF SavedInv, ClerkTypes, FollowInv
<1>1. /\ Step(c, k) /\ clerk[c].pc = "copy"
      /\ UNCHANGED <<row, portCache, routerPort, filedPort, iconOnDisk, storedKey, serving>>
  BY DEF CopyRow
<1>2. /\ k.pc = "list" /\ k.kind = clerk[c].kind /\ k.new = clerk[c].new
      /\ k.behind = clerk[c].behind
  BY <1>0 DEF Requested
<1> HIDE DEF k
<1>3. clerk'[c] = k
  BY <1>1, StepsInOrder
<1>4. Owes(c) \subseteq Owes(c)' \cup {"file"}
  BY <1>1, <1>2, <1>3 DEF Owes
<1>5. UpToDate(clerk[c])'
  BY <1>0, <1>1, <1>2, <1>3 DEF UpToDate, ToldByRow
<1>6. \A f \in Facets \ {"file"} : InLine(f) => InLine(f)'
  BY <1>1 DEF InLine, Facets
<1>7. PICK wrong \in BOOLEAN : Mark("file", wrong) /\ (~ wrong => InLine("file")')
  <2>1. CASE settingsFile' = clerk[c].seen /\ Mark("file", clerk[c].old)
    <3>1. clerk[c].old \in BOOLEAN
      BY <1>0 DEF Requested
    <3> QED
      BY <1>0, <1>1, <2>1, <3>1 DEF UpToDate, InLine
  <2> QED
    BY <2>1 DEF CopyRow
<1> QED
  BY <1>1, <1>4, <1>5, <1>6, <1>7, StepsPaying DEF Facets

(* So are the routers, with the ports that they had when they were read.        *)
LEMMA FileFollows ==
  ASSUME SavedInv, FollowInv, NEW c \in Clerks, FileRouters(c)
  PROVE  FollowInv'
<1>0. clerk[c] \in Requested /\ UpToDate(clerk[c])
  BY DEF SavedInv, ClerkTypes, FollowInv
<1>1. /\ clerk[c].pc = "backup"
      /\ UNCHANGED <<row, settingsFile, portCache, routerPort, iconOnDisk, storedKey, serving>>
  BY DEF FileRouters
<1>2. PICK k \in Requested :
         /\ Step(c, k)
         /\ \/ clerk[c].kind = "router" /\ k = Resting
            \/ /\ clerk[c].kind # "router"
               /\ k.pc = IF clerk[c].kind = "put" THEN "drop" ELSE "answer"
               /\ k.kind = clerk[c].kind /\ k.new = clerk[c].new /\ k.behind = clerk[c].behind
  BY <1>0, Filed
<1>3. clerk'[c] = k
  BY <1>1, <1>2, StepsInOrder
<1>4. Owes(c) \subseteq Owes(c)' \cup {"backup"}
  BY <1>1, <1>2, <1>3 DEF Owes
<1>5. UpToDate(clerk[c])'
  BY <1>0, <1>1, <1>2, <1>3 DEF UpToDate, ToldByRow, Resting
<1>6. \A f \in Facets \ {"backup"} : InLine(f) => InLine(f)'
  BY <1>1 DEF InLine, Facets
<1>7. PICK wrong \in BOOLEAN : Mark("backup", wrong) /\ (~ wrong => InLine("backup")')
  <2>1. CASE filedPort' = clerk[c].listed /\ Mark("backup", clerk[c].old)
    <3>1. clerk[c].old \in BOOLEAN
      BY <1>0 DEF Requested
    <3> QED
      BY <1>0, <1>1, <2>1, <3>1 DEF UpToDate, InLine
  <2> QED
    BY <2>1 DEF FileRouters
<1> QED
  BY <1>1, <1>2, <1>4, <1>5, <1>6, <1>7, StepsPaying DEF Facets

(* The cache is dropped and the routers get the port, which is that of the row  *)
(* unless a later request has written another.                                  *)
LEMMA PortFollows ==
  ASSUME SavedInv, FollowInv, NEW c \in Clerks, DropPorts(c) \/ SpreadPort(c)
  PROVE  FollowInv'
<1>0. clerk[c] \in Requested /\ UpToDate(clerk[c]) /\ row \in Rows
  BY DEF SavedInv, ClerkTypes, ServerTypes, FollowInv
<1>1. CASE DropPorts(c)
  <2> DEFINE k == [clerk[c] EXCEPT !.pc = "spread"]
  <2>1. /\ Step(c, k) /\ clerk[c].pc = "drop" /\ portCache' = None /\ Mark("cache", FALSE)
        /\ UNCHANGED <<row, settingsFile, routerPort, filedPort, iconOnDisk, storedKey, serving>>
    BY <1>1 DEF DropPorts
  <2>2. /\ k.pc = "spread" /\ k.kind = clerk[c].kind /\ k.new = clerk[c].new
        /\ k.behind = clerk[c].behind
    BY <1>0 DEF Requested
  <2> HIDE DEF k
  <2>3. clerk'[c] = k
    BY <2>1, StepsInOrder
  <2>4. Owes(c) \subseteq Owes(c)' \cup {"cache"}
    BY <2>1, <2>2, <2>3 DEF Owes
  <2>5. UpToDate(clerk[c])'
    BY <1>0, <2>1, <2>2, <2>3 DEF UpToDate, ToldByRow
  <2>6. InLine("cache")' /\ \A f \in Facets \ {"cache"} : InLine(f) => InLine(f)'
    BY <2>1 DEF InLine, Facets
  <2> QED
    BY <2>1, <2>4, <2>5, <2>6, StepsPaying DEF Facets
<1>2. CASE SpreadPort(c)
  <2> DEFINE k == [clerk[c] EXCEPT !.pc = "answer"]
             ports == [r \in Routers |->
                         IF routerPort[r] = None THEN None ELSE clerk[c].new.port]
  <2>1. /\ SetPorts(c, k, ports) /\ clerk[c].pc = "spread"
        /\ askew' = (IF clerk[c].behind THEN askew \cup {"ports"} ELSE askew \ {"ports"}) \cup
                    (IF ports # routerPort THEN {"backup"} ELSE {})
        /\ UNCHANGED <<row, settingsFile, portCache, filedPort, iconOnDisk, storedKey, serving>>
    BY <1>2 DEF SpreadPort
  <2>2. /\ k.pc = "answer" /\ k.kind = clerk[c].kind /\ k.new = clerk[c].new
        /\ k.behind = clerk[c].behind
    BY <1>0 DEF Requested
  <2>3. routerPort' = ports
    BY <2>1 DEF SetPorts
  <2>4. ~ clerk[c].behind => clerk[c].new.port = row.port
    BY <1>0, <2>1 DEF UpToDate, ToldByRow, FormOf
  <2>5. ~ clerk[c].behind => InLine("ports")'
    BY <2>1, <2>3, <2>4 DEF InLine
  <2> HIDE DEF k, ports
  <2>6. /\ clerk'[c] = k /\ DownIsEmpty' /\ Owed \subseteq Owed' \cup Owes(c)
        /\ \A d \in Clerks \ {c} : UpToDate(clerk[d])'
    BY <2>1, PortsInOrder
  <2>7. Owes(c) = {"ports"}
    BY <2>1 DEF Owes
  <2>8. UpToDate(clerk[c])'
    BY <1>0, <2>1, <2>2, <2>6 DEF UpToDate, ToldByRow
  <2>9. /\ "ports" \in askew' \/ InLine("ports")'
        /\ "backup" \in askew' \/ (InLine("backup") => InLine("backup")')
        /\ \A f \in Facets \ {"ports", "backup"} : InLine(f) => InLine(f)'
    BY <2>1, <2>3, <2>5 DEF InLine, Facets
  <2>10. FollowsTheRow'
    BY <2>1, <2>6, <2>7, <2>9, FacetByFacet DEF FollowInv
  <2> QED
    BY <2>6, <2>8, <2>10 DEF FollowInv
<1> QED
  BY <1>1, <1>2

(* A new router: its port comes from the cache or the row, or is marked.        *)
LEMMA RouterFollows ==
  ASSUME SavedInv, FollowInv, NEW c \in Clerks, FillPort(c) \/ InsertRouter(c)
  PROVE  FollowInv'
<1>0. /\ clerk[c] \in Requested /\ UpToDate(clerk[c]) /\ row \in Rows /\ Resting.pc = "idle"
      /\ routerPort \in [Routers -> Ports \cup {None}]
  BY DEF SavedInv, ClerkTypes, ServerTypes, FollowInv, Resting
<1>1. CASE FillPort(c)
  <2> DEFINE k == [clerk[c] EXCEPT !.pc = "insert"]
  <2>1. /\ Step(c, k) /\ clerk[c].pc = "fill" /\ Mark("cache", clerk[c].behind)
        /\ portCache' = clerk[c].new.port
        /\ UNCHANGED <<row, settingsFile, routerPort, filedPort, iconOnDisk, storedKey, serving>>
    BY <1>1 DEF FillPort
  <2>2. /\ k.pc = "insert" /\ k.new = clerk[c].new /\ k.behind = clerk[c].behind
        /\ k.kind = clerk[c].kind
    BY <1>0 DEF Requested
  <2> HIDE DEF k
  <2>3. clerk'[c] = k /\ serving
    BY <2>1, StepsInOrder
  <2>4. Owes(c) = {}
    BY <2>1 DEF Owes
  <2>5. UpToDate(clerk[c])'
    BY <1>0, <2>1, <2>2, <2>3 DEF UpToDate, ToldByRow
  <2>6. \A f \in Facets \ {"cache"} : InLine(f) => InLine(f)'
    BY <2>1 DEF InLine, Facets
  <2>7. ~ clerk[c].behind => InLine("cache")'
    BY <1>0, <2>1 DEF UpToDate, InLine
  <2> QED
    BY <2>1, <2>4, <2>5, <2>6, <2>7, StepsPaying DEF Facets
<1>2. CASE InsertRouter(c)
  <2> DEFINE k == [clerk[c] EXCEPT !.pc = "list"]
             ports == [routerPort EXCEPT ![clerk[c].router] = clerk[c].new.port]
  <2>1. /\ SetPorts(c, k, ports) /\ clerk[c].pc = "insert"
        /\ askew' = IF clerk[c].behind THEN askew \cup {"ports"} ELSE askew
        /\ UNCHANGED <<row, settingsFile, portCache, filedPort, iconOnDisk, storedKey, serving>>
    BY <1>2 DEF InsertRouter
  <2>2. k.pc = "list" /\ k.kind = "router"
    BY <1>0, <2>1 DEF Requested, UpToDate
  <2>3. routerPort' = ports
    BY <2>1 DEF SetPorts
  <2>4. ~ clerk[c].behind => clerk[c].new.port = row.port
    BY <1>0, <2>1 DEF UpToDate
  <2>5. "ports" \in askew' \/ (InLine("ports") => InLine("ports")')
    BY <1>0, <2>1, <2>3, <2>4 DEF InLine
  <2> HIDE DEF k, ports
  <2>6. /\ clerk'[c] = k /\ DownIsEmpty' /\ Owed \subseteq Owed' \cup Owes(c)
        /\ Owes(c)' \subseteq Owed' /\ \A d \in Clerks \ {c} : UpToDate(clerk[d])'
    BY <2>1, PortsInOrder
  <2>7. Owes(c) = {} /\ "backup" \in Owed'
    BY <2>1, <2>2, <2>6 DEF Owes
  <2>8. UpToDate(clerk[c])'
    BY <2>2, <2>6 DEF UpToDate, ToldByRow
  <2>9. \A f \in Facets \ {"ports", "backup"} : InLine(f) => InLine(f)'
    BY <2>1 DEF InLine, Facets
  <2>10. FollowsTheRow'
    BY <2>1, <2>5, <2>6, <2>7, <2>9, FacetByFacet DEF FollowInv
  <2> QED
    BY <2>6, <2>8, <2>10 DEF FollowInv
<1> QED
  BY <1>1, <1>2

(* A request that fails leaves marked what it owed.                             *)
LEMMA FailureFollows ==
  ASSUME SavedInv, FollowInv, NEW c \in Clerks, RequestFails(c)
  PROVE  FollowInv'
<1>1. /\ Step(c, Resting) /\ clerk[c].pc # "idle" /\ askew' = askew \cup Owes(c)
      /\ UNCHANGED <<row, settingsFile, portCache, routerPort, filedPort, iconOnDisk, storedKey, serving>>
  BY DEF RequestFails
<1>2. UpToDate(clerk[c])'
  BY <1>1, StepsInOrder DEF UpToDate, ToldByRow, Resting
<1> QED
  BY <1>1, <1>2, StepsOwing

(* The row is written: whoever has read or written it before is overtaken, and  *)
(* the request owes from now on what follows from its change.                   *)
LEMMA WriteFollows ==
  ASSUME SavedInv, FollowInv, NEW c \in Clerks, WriteRow(c)
  PROVE  FollowInv'
<1> DEFINE k == clerk[c]
<1>0. /\ \A d \in Clerks : clerk[d] \in Requested /\ UpToDate(clerk[d])
      /\ row \in Rows /\ FollowsTheRow /\ k.new \in Rows /\ k.behind \in BOOLEAN
  BY DEF SavedInv, ClerkTypes, ServerTypes, FollowInv, Requested
<1>1. /\ k.pc = "write" /\ k.kind \in {"put", "icon", "key"} /\ row' = Wrote(k)
      /\ UNCHANGED <<settingsFile, portCache, routerPort, filedPort, iconOnDisk, storedKey, serving>>
      /\ IF k.kind = "put" THEN askew' = askew ELSE Mark(k.kind, k.behind)
  BY DEF WriteRow, SavedInv, ReadForFile, AllHeld, ClerkTypes, Requested
<1>2. /\ k.kind = "put" => row'.icon = row.icon /\ row'.key = row.key
      /\ k.kind = "icon" => /\ row'.icon = k.new.icon /\ row'.key = row.key
                            /\ row'.port = row.port /\ row'.text = row.text
      /\ k.kind = "key" => /\ row'.key = k.new.key /\ row'.icon = row.icon
                           /\ row'.port = row.port /\ row'.text = row.text
  BY <1>0, <1>1 DEF Wrote, Rows
<1>3. /\ clerk'[c].pc = "read" /\ clerk'[c].kind = k.kind /\ clerk'[c].new = row'
      /\ clerk'[c].behind = k.behind
  <2>1. clerk'[c] = [k EXCEPT !.pc = "read", !.new = row']
    BY DEF WriteRow
  <2> QED
    BY <1>0, <2>1 DEF Requested
<1>4. ASSUME NEW d \in Clerks \ {c}
      PROVE  /\ clerk'[d].pc = clerk[d].pc /\ clerk'[d].kind = clerk[d].kind
             /\ clerk'[d].new = clerk[d].new /\ clerk'[d].seen = clerk[d].seen
             /\ clerk'[d].listed = clerk[d].listed
             /\ clerk'[d].behind = (clerk[d].behind \/ OutOfDate(clerk[d], k.kind = "put"))
             /\ clerk'[d].old = (clerk[d].old \/ clerk[d].pc = "copy")
  <2>1. clerk'[d] = Overtaken(clerk[d], k.kind = "put")
    BY DEF WriteRow
  <2> QED
    BY <1>0, <2>1 DEF Overtaken, Requested
<1>5. ASSUME NEW d \in Clerks PROVE UpToDate(clerk[d])'
  <2>1. CASE d = c
    BY <1>3, <2>1 DEF UpToDate, ToldByRow
  <2>2. CASE d # c
    <3>1. UpToDate(clerk[d]) /\ (k.kind # "put" => row'.port = row.port /\ row'.text = row.text)
      BY <1>0, <1>1, <1>2
    <3> QED
      BY <1>1, <1>4, <2>2, <3>1 DEF UpToDate, ToldByRow, OutOfDate, FormOf
  <2> QED
    BY <2>1, <2>2
<1>6. Owed \subseteq Owed' \cup Owes(c) /\ Owes(c)' \subseteq Owed'
  BY <1>4, OwedByOthers
<1>7. DownIsEmpty'
  BY <1>1 DEF FollowInv, DownIsEmpty, Resting
<1>8. CASE k.kind = "put"
  <2>1. {"file", "cache", "ports"} \subseteq Owed' /\ Owes(c) = {}
    BY <1>1, <1>3, <1>6, <1>8 DEF Owes
  <2>2. \A f \in {"backup", "icon", "key"} : InLine(f) => InLine(f)'
    BY <1>1, <1>2, <1>8 DEF InLine
  <2>3. FollowsTheRow'
    BY <1>0, <1>1, <1>6, <1>8, <2>1, <2>2, FacetByFacet DEF Facets
  <2> QED
    BY <1>5, <1>7, <2>3 DEF FollowInv
<1>9. CASE k.kind \in {"icon", "key"}
  <2>0. PICK kind \in {"icon", "key"} : kind = k.kind
    BY <1>9
  <2>1. "file" \in Owed' /\ Owes(c) = {kind}
    BY <1>1, <1>3, <1>6, <2>0 DEF Owes
  <2>2. \A f \in {"icon", "key"} \ {kind} : InLine(f) => InLine(f)'
    BY <1>1, <1>2, <2>0 DEF InLine
  <2>3. \A f \in {"backup", "cache", "ports"} : InLine(f) => InLine(f)'
    BY <1>1, <1>2, <2>0 DEF InLine
  <2>4. kind \in askew' \/ InLine(kind)'
    <3>1. UpToDate(k)
      BY <1>0
    <3>2. CASE kind = "icon"
      BY <1>1, <1>2, <2>0, <3>1, <3>2 DEF Mark, UpToDate, InLine
    <3>3. CASE kind = "key"
      BY <1>1, <1>2, <2>0, <3>1, <3>3 DEF Mark, UpToDate, InLine
    <3> QED
      BY <3>2, <3>3
  <2>5. \A f \in Facets \ {kind} : f \in askew => f \in askew'
    BY <1>1, <2>0 DEF Mark
  <2>6. FollowsTheRow'
    BY <1>0, <1>6, <2>1, <2>2, <2>3, <2>4, <2>5, FacetByFacet DEF Facets
  <2> QED
    BY <1>5, <1>7, <2>6 DEF FollowInv
<1> QED
  BY <1>1, <1>8, <1>9

(* The process: the cache ages, the server stops and starts again.              *)
LEMMA ServerFollows ==
  ASSUME SavedInv, FollowInv, CacheAges \/ StopServer \/ RestoreSettings
  PROVE  FollowInv'
<1>0. FollowsTheRow /\ \A c \in Clerks : UpToDate(clerk[c])
  BY DEF FollowInv
<1>1. ASSUME ~ serving
      PROVE  Owed = {} /\ portCache = None /\ \A c \in Clerks : clerk[c] = Resting
  <2>1. portCache = None /\ \A c \in Clerks : clerk[c] = Resting
    BY <1>1 DEF FollowInv, DownIsEmpty
  <2>2. \A c \in Clerks : Owes(c) = {}
    BY <2>1 DEF Owes, Resting
  <2> QED
    BY <2>1, <2>2 DEF Owed
<1>2. CASE CacheAges
  <2>1. /\ portCache' = None /\ askew' = askew \ {"cache"}
        /\ UNCHANGED <<row, settingsFile, routerPort, filedPort, iconOnDisk, storedKey, serving, clerk>>
    BY <1>2 DEF CacheAges, Mark
  <2>2. Owed' = Owed
    BY <2>1 DEF Owed, Owes
  <2>3. InLine("cache")' /\ \A f \in Facets \ {"cache"} : InLine(f) => InLine(f)'
    BY <2>1 DEF InLine, Facets
  <2>4. FollowsTheRow'
    BY <1>0, <2>1, <2>2, <2>3, FacetByFacet
  <2>5. \A c \in Clerks : UpToDate(clerk[c])'
    BY <1>0, <2>1 DEF UpToDate, ToldByRow
  <2>6. DownIsEmpty'
    BY <2>1 DEF FollowInv, DownIsEmpty
  <2> QED
    BY <2>4, <2>5, <2>6 DEF FollowInv
<1>3. CASE StopServer
  <2>1. /\ ~ serving' /\ portCache' = None /\ askew' = askew \cup Owed
        /\ clerk' = [c \in Clerks |-> Resting] /\ UNCHANGED <<row, routerPort, iconOnDisk>>
        /\ settingsFile' = settingsFile \/ \E c \in Clerks : clerk[c].pc = "copy"
        /\ filedPort' = filedPort \/ \E c \in Clerks : clerk[c].pc = "backup"
    BY <1>3 DEF StopServer
  <2>2. \A c \in Clerks : UpToDate(clerk[c])'
    BY <2>1 DEF UpToDate, ToldByRow, Resting
  <2>3. /\ settingsFile' = settingsFile \/ "file" \in Owed
        /\ filedPort' = filedPort \/ "backup" \in Owed
    <3>1. \A c \in Clerks : /\ clerk[c].pc = "copy" => "file" \in Owes(c)
                            /\ clerk[c].pc = "backup" => "backup" \in Owes(c)
      BY DEF Owes
    <3> QED
      BY <2>1, <3>1 DEF Owed
  <2>4. InLine("cache")' /\ InLine("key")'
    BY <2>1 DEF InLine
  <2>5. (InLine("ports") => InLine("ports")') /\ (InLine("icon") => InLine("icon")')
    BY <2>1 DEF InLine
  <2>6. \A f \in {"file", "backup"} : f \in askew' \/ (InLine(f) => InLine(f)')
    BY <2>1, <2>3 DEF InLine
  <2>7. FollowsTheRow'
    BY <1>0, <2>1, <2>4, <2>5, <2>6, FacetByFacet DEF Facets
  <2>8. DownIsEmpty'
    BY <2>1 DEF DownIsEmpty
  <2> QED
    BY <2>2, <2>7, <2>8 DEF FollowInv
<1>4. CASE RestoreSettings
  <2>1. /\ ~ serving /\ serving' /\ storedKey' = row'.key
        /\ UNCHANGED <<portCache, routerPort, iconOnDisk, clerk>>
        /\ settingsFile' = row'
        /\ "backup" \in askew' \/ filedPort' = routerPort
        /\ askew \ {"file", "backup", "cache", "key"} \subseteq askew'
        /\ settingsFile # None /\ "file" \in askew => {"ports", "icon"} \subseteq askew'
        /\ row' # row => settingsFile # None /\ row' = settingsFile
    BY <1>4 DEF RestoreSettings, FileAgain
  <2>2. Owed = {} /\ portCache = None /\ \A c \in Clerks : clerk[c] = Resting
    BY <1>1, <2>1
  <2>3. {"ports", "icon"} \subseteq askew' \/ row' = row
    BY <1>0, <2>1, <2>2 DEF FollowsTheRow, Facets, InLine
  <2>4. /\ InLine("file")' /\ InLine("cache")' /\ InLine("key")'
        /\ "backup" \in askew' \/ InLine("backup")'
    BY <2>1, <2>2 DEF InLine
  <2>5. \/ {"ports", "icon"} \subseteq askew'
        \/ (InLine("ports") => InLine("ports")') /\ (InLine("icon") => InLine("icon")')
    BY <2>1, <2>3 DEF InLine
  <2>6. FollowsTheRow'
    BY <1>0, <2>1, <2>2, <2>4, <2>5, FacetByFacet DEF Facets
  <2>7. \A c \in Clerks : UpToDate(clerk[c])'
    BY <2>1, <2>2 DEF UpToDate, ToldByRow, Resting
  <2>8. DownIsEmpty'
    BY <2>1 DEF DownIsEmpty
  <2> QED
    BY <2>6, <2>7, <2>8 DEF FollowInv
<1> QED
  BY <1>2, <1>3, <1>4

(* Nothing of it moves.                                                         *)
LEMMA RestFollows ==
  ASSUME FollowInv, UNCHANGED <<row, settingsFile, portCache, routerPort, filedPort, iconOnDisk,
                                storedKey, serving, askew, clerk>>
  PROVE  FollowInv'
<1>1. Owed' = Owed
  BY DEF Owed, Owes
<1>2. FollowsTheRow'
  BY <1>1, LinesStay DEF FollowInv
<1>3. \A c \in Clerks : UpToDate(clerk[c])'
  BY DEF FollowInv, UpToDate, ToldByRow
<1> QED
  BY <1>2, <1>3 DEF FollowInv, DownIsEmpty

(* The page changes what follows the row only by the requests it sends, and by  *)
(* taking their answers.                                                        *)
LEMMA PageFollows ==
  ASSUME SavedInv, FollowInv,
         \/ LoadRead \/ LoadShown \/ LoadFails \/ Discard \/ LoseAnswer \/ SaveFails
         \/ \E form \in Forms : EditForm(form)
         \/ \E c \in Clerks : Save(c) \/ SaveAgain(c) \/ Saved(c)
  PROVE  FollowInv'
<1>0. companyPage \in PageStates
  BY DEF SavedInv, PageTypes
<1>1. CASE UNCHANGED <<served, clerk>>
  BY <1>1, RestFollows DEF served
<1>2. ASSUME NEW c \in Clerks, NEW form \in Forms, AskPut(c, form), UNCHANGED served
      PROVE  FollowInv'
  BY <1>2, AskFollows
<1>3. ASSUME NEW c \in Clerks, Save(c) PROVE FollowInv'
  <2>1. companyPage.form \in Forms
    BY <1>0 DEF PageStates
  <2> QED
    BY <1>2, <1>3, <2>1 DEF Save, Send
<1>4. ASSUME NEW c \in Clerks, SaveAgain(c) PROVE FollowInv'
  <2>1. [companyPage.asked EXCEPT !.port = DefaultPort] \in Forms
    BY <1>0, SettingsAssumption DEF PageStates, Forms
  <2> QED
    BY <1>2, <1>4, <2>1 DEF SaveAgain, Send
<1>5. ASSUME NEW c \in Clerks, Saved(c) PROVE FollowInv'
  <2>1. Step(c, Resting) /\ clerk[c].pc = "answer" /\ UNCHANGED served
    BY <1>5 DEF Saved
  <2>2. Owes(c) = {}
    BY <2>1 DEF Owes
  <2>3. UpToDate(clerk[c])'
    BY <2>1, StepsInOrder DEF UpToDate, ToldByRow, Resting, served
  <2> QED
    BY <2>1, <2>2, <2>3, StepsOwing DEF served
<1>6. CASE \/ LoadRead \/ LoadShown \/ LoadFails \/ Discard \/ LoseAnswer \/ SaveFails
           \/ \E form \in Forms : EditForm(form)
  BY <1>1, <1>6 DEF LoadRead, LoadShown, LoadFails, Discard, LoseAnswer, SaveFails, EditForm
<1> QED
  BY <1>3, <1>4, <1>5, <1>6

(* It holds at first, and every step keeps it.                                  *)
LEMMA FollowsInit == SettingsInit => FollowInv
<1> SUFFICES ASSUME SettingsInit PROVE FollowInv
  OBVIOUS
<1>1. \A c \in Clerks : clerk[c] = Resting
  BY DEF SettingsInit
<1>2. \A r \in Routers : routerPort[r] \in {row.port, None}
  <2>1. PICK rp \in [Routers -> {row.port, None}] : routerPort = rp
    BY DEF SettingsInit
  <2> QED
    BY <2>1
<1>3. row.icon = None /\ row.key = None
  BY DEF SettingsInit, Bare
<1>4. FollowsTheRow
  BY <1>2, <1>3 DEF SettingsInit, FollowsTheRow, Facets, InLine
<1> QED
  BY <1>1, <1>4 DEF SettingsInit, FollowInv, DownIsEmpty, UpToDate, ToldByRow, Resting

LEMMA FollowsStep == SavedInv /\ FollowInv /\ [SettingsNext]_settingsVars => FollowInv'
<1> SUFFICES ASSUME SavedInv, FollowInv, [SettingsNext]_settingsVars PROVE FollowInv'
  OBVIOUS
<1>1. ASSUME NEW c \in Clerks,
             \/ \E form \in Forms : OtherPut(c, form)
             \/ \E icon \in Icons \cup {None} : AskIcon(c, icon)
             \/ \E key \in Keys \cup {None} : AskKey(c, key)
             \/ \E r \in Routers : AskRouter(c, r)
      PROVE  FollowInv'
  BY <1>1, AskFollows
<1>2. ASSUME NEW c \in Clerks,
             \/ WriteRow(c) \/ ReadRow(c) \/ CopyRow(c) \/ ListRouters(c) \/ FileRouters(c)
             \/ DropPorts(c) \/ SpreadPort(c)
             \/ LookUpPort(c) \/ FillPort(c) \/ InsertRouter(c) \/ AnswerOther(c) \/ RequestFails(c)
      PROVE  FollowInv'
  BY <1>2, ReadFollows, CopyFollows, FileFollows, PortFollows, RouterFollows, FailureFollows, WriteFollows
<1>3. CASE UNCHANGED settingsVars
  BY <1>3, RestFollows DEF settingsVars
<1> QED
  BY <1>1, <1>2, <1>3, ServerFollows, PageFollows DEF SettingsNext

(* FollowsTheRow: whatever requests overlap, fail or are cut off, the file, the *)
(* cached port, the ports of the routers and their file, the favicon and the    *)
(* key are in line with the row once nobody owes them a change, unless a write of them is known *)
(* to have come late, failed or been cut off (CompanyController, LicenseService,*)
(* the restore of WebConfigService at start).                                   *)
THEOREM AllFollows == SettingsSpec => []FollowsTheRow
<1>1. SavedInv /\ FollowInv /\ [SettingsNext]_settingsVars => FollowInv'
  BY FollowsStep
<1>2. FollowInv => FollowsTheRow
  BY DEF FollowInv
<1> QED
  BY FollowsInit, <1>1, <1>2, SettingsSafe, PTL DEF SettingsSpec

-----------------------------------------------------------------------------
(* What the page shows.                                                         *)

(* The page stays as it is: nobody's request that it waits for ends, and the    *)
(* row it knows of is not written.                                              *)
LEMMA PageWaits ==
  ASSUME SavedInv, ShownInv, companyPage' = companyPage,
         companyPage.by # None => /\ clerk'[companyPage.by].kind = "put"
                                  /\ clerk'[companyPage.by].pc \in Waited,
         aware' /\ companyPage.by = None => aware /\ FormOf(row)' = FormOf(row)
  PROVE  ShownInv'
<1>1. companyPage.by # None => companyPage.pc \in {"first", "second"}
  BY DEF ShownInv
<1> QED
  BY <1>1 DEF ShownInv, ShownIsStored

(* Requests that come in or go on.                                              *)
LEMMA RequestsShown ==
  ASSUME SavedInv, FollowInv, ShownInv, NEW c \in Clerks,
         \/ \E form \in Forms : OtherPut(c, form)
         \/ \E icon \in Icons \cup {None} : AskIcon(c, icon)
         \/ \E key \in Keys \cup {None} : AskKey(c, key)
         \/ \E r \in Routers : AskRouter(c, r)
         \/ WriteRow(c) \/ ReadRow(c) \/ CopyRow(c) \/ ListRouters(c) \/ FileRouters(c)
         \/ DropPorts(c) \/ SpreadPort(c)
         \/ LookUpPort(c) \/ FillPort(c) \/ InsertRouter(c) \/ AnswerOther(c) \/ RequestFails(c)
  PROVE  ShownInv'
<1> DEFINE by == companyPage.by
<1>0. /\ companyPage \in PageStates /\ clerk \in [Clerks -> Requested] /\ by \in Clerks \cup {None}
      /\ by # None => clerk[by].kind = "put" /\ clerk[by].pc \in Waited
      /\ None \notin Clerks
  BY SettingsAssumption DEF SavedInv, ClerkTypes, PageTypes, PageStates, ShownInv
<1>1. ASSUME NEW k, Take(c, k), UNCHANGED <<row, aware, companyPage>> PROVE ShownInv'
  <2>1. clerk[c].pc = "idle" /\ \A d \in Clerks \ {c} : /\ clerk'[d].pc = clerk[d].pc
                                                        /\ clerk'[d].kind = clerk[d].kind
    BY <1>0, <1>1 DEF Take, Requested
  <2> QED
    BY <1>0, <1>1, <2>1, PageWaits DEF Waited
<1>2. CASE \/ \E form \in Forms : OtherPut(c, form)
           \/ \E icon \in Icons \cup {None} : AskIcon(c, icon)
           \/ \E key \in Keys \cup {None} : AskKey(c, key)
           \/ \E r \in Routers : AskRouter(c, r)
  BY <1>1, <1>2 DEF OtherPut, AskPut, AskIcon, AskKey, AskRouter
<1>3. ASSUME NEW k, Step(c, k), UNCHANGED <<row, aware, companyPage>>,
             by = c => k.kind = "put" /\ k.pc \in Waited
      PROVE  ShownInv'
  <2>1. \A d \in Clerks : clerk'[d] = IF d = c THEN k ELSE clerk[d]
    BY <1>0, <1>3 DEF Step
  <2> QED
    BY <1>0, <1>3, <2>1, PageWaits
<1>4. ASSUME NEW pc \in Waited, NEW k, Step(c, k), UNCHANGED <<row, aware, companyPage>>,
             k.pc = pc, k.kind = clerk[c].kind
      PROVE  ShownInv'
  BY <1>0, <1>3, <1>4
<1>5. CASE ReadRow(c)
  <2> DEFINE k == [clerk[c] EXCEPT !.pc = "copy", !.seen = row, !.old = FALSE]
  <2>1. k.pc = "copy" /\ k.kind = clerk[c].kind
    BY <1>0 DEF Requested
  <2>2. Step(c, k) /\ UNCHANGED <<row, aware, companyPage>>
    BY <1>5 DEF ReadRow
  <2> HIDE DEF k
  <2> QED
    BY <1>4, <2>1, <2>2 DEF Waited
<1>6. CASE DropPorts(c)
  <2> DEFINE k == [clerk[c] EXCEPT !.pc = "spread"]
  <2>1. k.pc = "spread" /\ k.kind = clerk[c].kind
    BY <1>0 DEF Requested
  <2>2. Step(c, k) /\ UNCHANGED <<row, aware, companyPage>>
    BY <1>6 DEF DropPorts
  <2> HIDE DEF k
  <2> QED
    BY <1>4, <2>1, <2>2 DEF Waited
<1>7. CASE CopyRow(c)
  <2> DEFINE k == [clerk[c] EXCEPT !.pc = "list", !.seen = Bare, !.old = FALSE]
  <2>1. k.pc = "list" /\ k.kind = clerk[c].kind
    BY <1>0 DEF Requested
  <2>2. Step(c, k) /\ UNCHANGED <<row, aware, companyPage>>
    BY <1>7 DEF CopyRow
  <2> HIDE DEF k
  <2> QED
    BY <1>4, <2>1, <2>2 DEF Waited
<1>8. CASE RequestFails(c)
  <2>1. /\ clerk' = [clerk EXCEPT ![c] = Resting] /\ UNCHANGED <<row, aware>>
        /\ companyPage' = IF by = c THEN [companyPage EXCEPT !.by = None] ELSE companyPage
    BY <1>8 DEF RequestFails, Step
  <2>2. CASE by = c
    <3>1. companyPage.pc \in {"first", "second"}
      BY <1>0, <2>2, SettingsAssumption DEF ShownInv
    <3>2. companyPage'.by = None /\ companyPage'.pc = companyPage.pc
      BY <1>0, <2>1, <2>2 DEF PageStates
    <3> QED
      BY <3>1, <3>2 DEF ShownInv, ShownIsStored
  <2>3. CASE by # c
    BY <1>0, <2>1, <2>3, PageWaits
  <2> QED
    BY <2>2, <2>3
<1>9. CASE WriteRow(c)
  <2>1. /\ clerk[c].pc = "write" /\ row' = Wrote(clerk[c]) /\ companyPage' = companyPage
        /\ aware' = (aware /\ (clerk[c].kind = "put" => by = c))
    BY <1>9 DEF WriteRow
  <2>2. clerk[c].kind \in {"put", "icon", "key"} /\ row \in Rows
    BY <1>0, <2>1 DEF SavedInv, ServerTypes, AllHeld, ReadForFile, Requested
  <2>3. clerk[c].kind # "put" => FormOf(row)' = FormOf(row)
    BY <2>1, <2>2 DEF Wrote, FormOf, Rows
  <2>4. \A d \in Clerks : /\ clerk'[d].kind = clerk[d].kind
                          /\ clerk'[d].pc = IF d = c THEN "read" ELSE clerk[d].pc
    <3>1. clerk' = [d \in Clerks |->
                      IF d = c THEN [clerk[c] EXCEPT !.pc = "read", !.new = row']
                      ELSE Overtaken(clerk[d], clerk[c].kind = "put")]
      BY <1>9 DEF WriteRow
    <3>2. ASSUME NEW d \in Clerks
          PROVE  /\ clerk'[d].kind = clerk[d].kind
                 /\ clerk'[d].pc = IF d = c THEN "read" ELSE clerk[d].pc
      <4>1. clerk[d] \in Requested /\ clerk[c] \in Requested
        BY <1>0
      <4>2. CASE d = c
        BY <2>1, <3>1, <4>1, <4>2 DEF Requested
      <4>3. CASE d # c
        BY <3>1, <4>1, <4>3 DEF Overtaken, Requested
      <4> QED
        BY <4>2, <4>3
    <3> QED
      BY <3>2
  <2> QED
    BY <1>0, <2>1, <2>3, <2>4, PageWaits, SettingsAssumption DEF Waited
<1>10. CASE ListRouters(c)
  <2> DEFINE k == [clerk[c] EXCEPT !.pc = "backup", !.listed = routerPort]
  <2>1. k.pc = "backup" /\ k.kind = clerk[c].kind
    BY <1>0 DEF Requested
  <2>2. Step(c, k) /\ UNCHANGED <<row, aware, companyPage>>
    BY <1>10 DEF ListRouters
  <2> HIDE DEF k
  <2> QED
    BY <1>4, <2>1, <2>2 DEF Waited
<1>11. CASE FileRouters(c)
  <2>1. PICK k \in Requested :
           /\ Step(c, k)
           /\ \/ clerk[c].kind = "router" /\ k = Resting
              \/ /\ clerk[c].kind # "router"
                 /\ k.pc = IF clerk[c].kind = "put" THEN "drop" ELSE "answer"
                 /\ k.kind = clerk[c].kind /\ k.new = clerk[c].new /\ k.behind = clerk[c].behind
    BY <1>0, <1>11, Filed
  <2>2. UNCHANGED <<row, aware, companyPage>>
    BY <1>11 DEF FileRouters
  <2> QED
    BY <1>0, <1>3, <2>1, <2>2 DEF Waited
<1>12. CASE SpreadPort(c) \/ InsertRouter(c)
  <2>1. PICK pc \in {"answer", "list"} : \E ports : SetPorts(c, [clerk[c] EXCEPT !.pc = pc], ports)
    BY <1>12 DEF SpreadPort, InsertRouter
  <2>2. PICK ports : SetPorts(c, [clerk[c] EXCEPT !.pc = pc], ports)
    BY <2>1
  <2>3. UNCHANGED <<row, aware, companyPage>>
    BY <1>12 DEF SpreadPort, InsertRouter
  <2>4. ASSUME NEW d \in Clerks
        PROVE  /\ clerk'[d].kind = clerk[d].kind
               /\ clerk'[d].pc = IF d = c THEN pc ELSE clerk[d].pc
    <3>1. clerk[d] \in Requested
      BY <1>0
    <3>2. clerk'[d] = IF d = c THEN [clerk[c] EXCEPT !.pc = pc]
                      ELSE [clerk[d] EXCEPT
                              !.old = @ \/ (clerk[d].pc = "backup" /\ ports # routerPort)]
      BY <2>2 DEF SetPorts
    <3> QED
      BY <3>1, <3>2 DEF Requested
  <2> QED
    BY <1>0, <2>3, <2>4, PageWaits DEF Waited
<1>13. CASE LookUpPort(c) \/ FillPort(c) \/ AnswerOther(c)
  <2>1. by # c
    BY <1>0, <1>13 DEF LookUpPort, FillPort, AnswerOther, Waited
  <2> QED
    BY <1>3, <1>13, <2>1 DEF LookUpPort, FillPort, AnswerOther
<1> QED
  BY <1>2, <1>5, <1>6, <1>7, <1>8, <1>9, <1>10, <1>11, <1>12, <1>13

(* The server, which takes no request that the page waits for across a crash;   *)
(* a restart that brings back another row is one nobody knows of.               *)
LEMMA ServerShown ==
  ASSUME SavedInv, FollowInv, ShownInv, CacheAges \/ StopServer \/ RestoreSettings
  PROVE  ShownInv'
<1>0. companyPage \in PageStates /\ FollowsTheRow
  BY DEF SavedInv, PageTypes, FollowInv
<1>1. CASE CacheAges
  BY <1>1, PageWaits DEF CacheAges, ShownInv
<1>2. CASE StopServer
  <2>1. UNCHANGED <<row, aware>> /\ companyPage' = [companyPage EXCEPT !.by = None]
    BY <1>2 DEF StopServer
  <2>2. /\ companyPage'.by = None /\ companyPage'.pc = companyPage.pc
        /\ companyPage'.asked = companyPage.asked /\ companyPage'.saved = companyPage.saved
    BY <1>0, <2>1 DEF PageStates
  <2> QED
    BY <2>1, <2>2 DEF ShownInv, ShownIsStored
<1>3. CASE RestoreSettings
  <2>1. /\ ~ serving /\ UNCHANGED <<clerk, companyPage>>
        /\ \/ UNCHANGED <<row, aware>>
           \/ row' = settingsFile /\ aware' = (aware /\ "file" \notin askew)
    BY <1>3 DEF RestoreSettings
  <2>2. \A c \in Clerks : Owes(c) = {}
    BY <2>1 DEF FollowInv, DownIsEmpty, Owes, Resting
  <2>3. Owed = {}
    BY <2>2 DEF Owed
  <2>4. "file" \in askew \/ settingsFile = row
    BY <1>0, <2>3 DEF FollowsTheRow, Facets, InLine
  <2>5. aware' => aware /\ row' = row
    BY <2>1, <2>4
  <2> QED
    BY <2>1, <2>5, PageWaits DEF ShownInv
<1> QED
  BY <1>1, <1>2, <1>3

(* The page itself.                                                             *)
LEMMA PageShown ==
  ASSUME SavedInv, FollowInv, ShownInv,
         \/ LoadRead \/ LoadShown \/ LoadFails \/ Discard \/ LoseAnswer \/ SaveFails
         \/ \E form \in Forms : EditForm(form)
         \/ \E c \in Clerks : Save(c) \/ SaveAgain(c) \/ Saved(c)
  PROVE  ShownInv'
<1>0. companyPage \in PageStates /\ clerk \in [Clerks -> Requested] /\ None \notin Clerks
  BY SettingsAssumption DEF SavedInv, PageTypes, ClerkTypes
<1>1. CASE LoadRead
  <2>1. /\ companyPage' = [companyPage EXCEPT !.pc = "loaded", !.asked = FormOf(row)]
        /\ companyPage.pc = "loading" /\ UNCHANGED row
    BY <1>1 DEF LoadRead, served
  <2>2. companyPage'.pc = "loaded" /\ companyPage'.asked = FormOf(row) /\ companyPage'.by = None
    BY <1>0, <2>1 DEF PageStates, ShownInv
  <2> QED
    BY <2>1, <2>2 DEF ShownInv, ShownIsStored, FormOf
<1>2. ASSUME NEW form, NEW notice, companyPage' = Shows(form, notice), row' = row,
             aware' => form = FormOf(row)
      PROVE  ShownInv'
  <2>1. companyPage'.pc = "ready" /\ companyPage'.saved = form /\ companyPage'.by = None
    BY <1>0, <1>2 DEF Shows, PageStates
  <2> QED
    BY <1>2, <2>1 DEF ShownInv, ShownIsStored, FormOf
<1>3. CASE LoadShown
  BY <1>2, <1>3 DEF LoadShown, served, ShownInv
<1>4. CASE LoadFails
  BY <1>2, <1>4 DEF LoadFails, served
<1>5. CASE Discard \/ \E form \in Forms : EditForm(form)
  <2>1. PICK form : companyPage' = [companyPage EXCEPT !.form = form, !.notice = ""]
    BY <1>5 DEF Discard, EditForm
  <2>2. /\ companyPage'.by = companyPage.by /\ companyPage'.pc = companyPage.pc
        /\ companyPage'.asked = companyPage.asked /\ companyPage'.saved = companyPage.saved
    BY <1>0, <2>1 DEF PageStates
  <2>3. UNCHANGED <<row, clerk, aware>>
    BY <1>5 DEF Discard, EditForm, served
  <2> QED
    BY <2>2, <2>3 DEF ShownInv, ShownIsStored, FormOf
<1>6. CASE LoseAnswer
  <2>1. companyPage.pc \in {"first", "second"} /\ companyPage' = [companyPage EXCEPT !.by = None]
    BY <1>6 DEF LoseAnswer
  <2>2. companyPage'.by = None /\ companyPage'.pc = companyPage.pc
    BY <1>0, <2>1 DEF PageStates
  <2> QED
    BY <2>1, <2>2 DEF ShownInv, ShownIsStored
<1>7. CASE SaveFails
  <2>1. /\ companyPage.by = None /\ ~ aware'
        /\ companyPage' = [companyPage EXCEPT !.pc = "ready", !.notice = "error"]
    BY <1>7 DEF SaveFails
  <2>2. companyPage'.by = None
    BY <1>0, <2>1 DEF PageStates
  <2> QED
    BY <2>1, <2>2 DEF ShownInv, ShownIsStored
<1>8. ASSUME NEW c \in Clerks, NEW attempt \in {"first", "second"}, NEW entered, NEW form,
             Send(c, attempt, entered, form)
      PROVE  ShownInv'
  <2>1. companyPage' = [companyPage EXCEPT !.pc = attempt, !.by = c, !.asked = entered, !.notice = ""]
    BY <1>8 DEF Send
  <2>2. companyPage'.by = c /\ companyPage'.pc = attempt
    BY <1>0, <2>1 DEF PageStates
  <2>3. clerk'[c].pc = "write" /\ clerk'[c].kind = "put"
    BY <1>8 DEF Send, AskPut, Take, Resting
  <2> QED
    BY <2>2, <2>3 DEF ShownInv, ShownIsStored, Waited
<1>9. ASSUME NEW c \in Clerks, Save(c) \/ SaveAgain(c) PROVE ShownInv'
  BY <1>8, <1>9 DEF Save, SaveAgain
<1>10. ASSUME NEW c \in Clerks, Saved(c) PROVE ShownInv'
  <2>1. /\ clerk[c].pc = "answer" /\ companyPage.by = c /\ aware' = ~ clerk[c].behind
        /\ companyPage' = Shows(FormOf(clerk[c].new), "saved") /\ row' = row
    BY <1>10 DEF Saved, served
  <2>2. clerk[c].kind = "put"
    BY <1>0, <2>1 DEF ShownInv
  <2>3. ~ clerk[c].behind => FormOf(clerk[c].new) = FormOf(row)
    BY <2>1, <2>2 DEF FollowInv, UpToDate, ToldByRow
  <2> QED
    BY <1>2, <2>1, <2>3
<1> QED
  BY <1>1, <1>3, <1>4, <1>5, <1>6, <1>7, <1>9, <1>10

LEMMA ShownStep == SavedInv /\ FollowInv /\ ShownInv /\ [SettingsNext]_settingsVars => ShownInv'
<1> SUFFICES ASSUME SavedInv, FollowInv, ShownInv, [SettingsNext]_settingsVars PROVE ShownInv'
  OBVIOUS
<1>1. ASSUME NEW c \in Clerks,
             \/ \E form \in Forms : OtherPut(c, form)
             \/ \E icon \in Icons \cup {None} : AskIcon(c, icon)
             \/ \E key \in Keys \cup {None} : AskKey(c, key)
             \/ \E r \in Routers : AskRouter(c, r)
             \/ WriteRow(c) \/ ReadRow(c) \/ CopyRow(c) \/ ListRouters(c) \/ FileRouters(c)
             \/ DropPorts(c) \/ SpreadPort(c)
             \/ LookUpPort(c) \/ FillPort(c) \/ InsertRouter(c) \/ AnswerOther(c) \/ RequestFails(c)
      PROVE  ShownInv'
  BY <1>1, RequestsShown
<1>2. CASE UNCHANGED settingsVars
  BY <1>2, PageWaits DEF settingsVars, ShownInv
<1> QED
  BY <1>1, <1>2, ServerShown, PageShown DEF SettingsNext

(* ShownIsStored: what the page shows as saved is what the database holds, also *)
(* after a failed save and its second attempt, unless somebody else has saved   *)
(* since (onSave and apply of company-settings/page.tsx).  It needs the answer  *)
(* of a save that nobody has overtaken to be the row, which is UpToDate.        *)
THEOREM SavedIsShown == SettingsSpec => []ShownIsStored
<1>1. SettingsInit => ShownInv
  <2> SUFFICES ASSUME SettingsInit PROVE ShownInv
    OBVIOUS
  <2>1. companyPage = [pc |-> "loading", form |-> Blank, saved |-> Blank, asked |-> Blank,
                       by |-> None, notice |-> ""]
    BY DEF SettingsInit
  <2>2. companyPage.by = None /\ companyPage.pc = "loading"
    BY <2>1
  <2> QED
    BY <2>2 DEF ShownInv, ShownIsStored
<1>2. ShownInv => ShownIsStored
  BY DEF ShownInv
<1>3. SavedInv /\ FollowInv /\ [SettingsNext]_settingsVars => FollowInv'
  BY FollowsStep
<1> QED
  BY <1>1, <1>2, <1>3, ShownStep, FollowsInit, SettingsSafe, PTL DEF SettingsSpec

-----------------------------------------------------------------------------
(* Part 2.  The paged lists.                                                    *)
(* The lists.                                                                 *)
LoadType == [pc : {"idle", "count", "rows"}, page : Nat \ {0}, filter : Tags \cup {AnyTag},
             first : BOOLEAN, count : Nat, torn : BOOLEAN]
WalkType == [filter : Tags \cup {AnyTag}, due : SUBSET Nat, seen : SUBSET Nat, one : BOOLEAN]
ListTypes ==
    /\ view \in {"search", "activity"} /\ logged \in Seq(Row) /\ filter \in Tags \cup {AnyTag}
    /\ label \in Nat \ {0} /\ total \in Nat /\ loading \in BOOLEAN
    /\ load \in [Loads -> LoadType] /\ walk \in WalkType /\ walk.due \subseteq DOMAIN logged

UnderWay == {q \in Loads : load[q].pc # "idle"}

(* Search Log loads one page at a time, for its buttons wait.                  *)
OneSearch ==
    view = "search" =>
        /\ \A q \in UnderWay : loading /\ UnderWay = {q} /\ load[q].pc = "rows"
        /\ \A q \in UnderWay : load[q].first => label = 1

(* A search begins with the first page; a count is not behind its rows, unless   *)
(* rows came in between.                                                       *)
CountHolds ==
    \A q \in UnderWay :
        /\ load[q].first => load[q].page = 1
        /\ view = "activity" /\ load[q].pc = "rows" /\ ~load[q].torn =>
               Cardinality(Match(load[q].filter)) <= load[q].count

(* The rows of the first p pages that the walk must show have been shown: those  *)
(* not shown have enough newer ones before them.                                *)
Ahead(i) == {j \in Match(walk.filter) : logged[j].at > logged[i].at}
Covered(p) ==
    \A i \in walk.due \cap Kept :
        Tied(i) \/ i \in walk.seen \/ Cardinality(Ahead(i)) >= p * PageLength
WalkCovers ==
    walk.one =>
        /\ walk.due \cap Kept \subseteq Match(walk.filter)
        /\ \A q \in UnderWay :
              /\ UnderWay = {q}
              /\ ~load[q].first =>
                     /\ load[q].filter = walk.filter
                     /\ view = "search" => label = load[q].page
                     /\ Covered(Clamped(load[q].page) - 1)
        /\ UnderWay = {} => Covered(Clamped(label)) /\ WalkSkipsNothing

PagedInv == ListTypes /\ OneSearch /\ CountHolds /\ WalkCovers

-----------------------------------------------------------------------------
LEMMA WholePages == PageLength \in Nat \ {0} /\ LastPage \in Nat \ {0} /\ AnyTag \notin Tags
BY PagedAssumption

LEMMA Dividing ==
  ASSUME NEW n \in Nat, NEW b \in Nat \ {0}
  PROVE  n \div b \in Nat /\ n < b * (n \div b) + b
OBVIOUS

LEMMA Times ==
  ASSUME NEW a \in Nat, NEW b \in Nat, NEW c \in Nat, a <= b
  PROVE  a * c <= b * c /\ a * c \in Nat /\ b * c \in Nat
OBVIOUS

(* A list of n rows ends on its last page.                                     *)
LEMMA EndsThere ==
  ASSUME NEW n \in Nat, NEW p \in Nat \ {0}, PageCount(n) <= p
  PROVE  n <= p * PageLength
<1>1. PageLength \in Nat \ {0}
  BY WholePages
<1>2. CASE n = 0
  BY <1>1, <1>2, Times
<1>3. CASE n # 0
  <2> DEFINE m == n + PageLength - 1
             k == m \div PageLength
  <2>1. m \in Nat /\ k <= p
    BY <1>1, <1>3 DEF PageCount
  <2>2. k \in Nat /\ m < PageLength * k + PageLength
    BY <1>1, <2>1, Dividing
  <2>3. k * PageLength <= p * PageLength
    BY <1>1, <2>1, <2>2, Times
  <2> QED
    BY <1>1, <2>2, <2>3
<1> QED
  BY <1>2, <1>3

LEMMA MatchIsFinite ==
  ASSUME logged \in Seq(Row), NEW f
  PROVE  /\ Match(f) \subseteq Kept /\ Kept \subseteq DOMAIN logged
         /\ DOMAIN logged \subseteq Nat /\ IsFiniteSet(DOMAIN logged)
         /\ \A S \in SUBSET Match(f) : /\ IsFiniteSet(S) /\ Cardinality(S) \in Nat
                                       /\ Cardinality(S) <= Cardinality(Match(f))
<1>1. DOMAIN logged = 1..Len(logged) /\ Len(logged) \in Nat
  OBVIOUS
<1>2. IsFiniteSet(DOMAIN logged)
  BY <1>1, FS_Interval
<1>3. Match(f) \subseteq Kept /\ Kept \subseteq DOMAIN logged
  BY DEF Match, Kept
<1>4. IsFiniteSet(Match(f))
  BY <1>2, <1>3, FS_Subset
<1> QED
  BY <1>1, <1>2, <1>3, <1>4, FS_Subset, FS_CardinalityType

(* A row whose time is its own comes where the newer ones leave it.             *)
LEMMA Position ==
  ASSUME logged \in Seq(Row), NEW S, S \subseteq DOMAIN logged, IsFiniteSet(S),
         NEW s \in NewestFirst(S), NEW i \in S, ~Tied(i),
         NEW newer, newer = {j \in S : logged[j].at > logged[i].at}
  PROVE  /\ DOMAIN s = 1..Cardinality(S) /\ Cardinality(newer) \in Nat
         /\ Cardinality(newer) + 1 \in DOMAIN s /\ s[Cardinality(newer) + 1] = i
<1> DEFINE n == Cardinality(S)
<1>1. n \in Nat
  BY FS_CardinalityType
<1>2. s \in [1..n -> S] /\ \A j, k \in 1..n : j < k => s[j] # s[k] /\ logged[s[j]].at >= logged[s[k]].at
  BY DEF NewestFirst
<1>3. \A j \in S : logged[j].at \in Int
  <2>1. \A j \in DOMAIN logged : logged[j] \in Row
    OBVIOUS
  <2> QED
    BY <2>1 DEF Row
<1> HIDE DEF n
<1>4. s \in Surjection(1..n, S)
  <2>1. \A j, k \in 1..n : s[j] = s[k] => j = k
    <3> SUFFICES ASSUME NEW j \in 1..n, NEW k \in 1..n, s[j] = s[k], j # k
                 PROVE  FALSE
      OBVIOUS
    <3>1. j < k \/ k < j
      BY <1>1
    <3> QED
      BY <3>1, <1>2
  <2>2. s \in Injection(1..n, S)
    BY <1>2, <2>1 DEF Injection, IsInjective
  <2>3. Cardinality(1..n) = Cardinality(S)
    BY <1>1, FS_Interval DEF n
  <2> QED
    BY <2>2, <2>3, FS_Injection
<1>5. PICK k \in 1..n : s[k] = i
  BY <1>4 DEF Surjection
<1>6. \A j \in 1..n : s[j] \in newer <=> j < k
  <2> SUFFICES ASSUME NEW j \in 1..n
               PROVE  s[j] \in newer <=> j < k
    OBVIOUS
  <2>1. s[j] \in S /\ logged[s[j]].at \in Int /\ logged[i].at \in Int
    BY <1>2, <1>3
  <2>2. CASE j < k
    <3>1. s[j] # i /\ logged[s[j]].at >= logged[i].at
      BY <1>2, <1>5, <2>2
    <3>2. logged[s[j]].at # logged[i].at
      BY <3>1, <2>1 DEF Tied
    <3> QED
      BY <2>1, <2>2, <3>1, <3>2
  <2>3. CASE j >= k
    <3>1. logged[i].at >= logged[s[j]].at
      <4>1. CASE j = k
        BY <4>1, <1>5, <2>1
      <4>2. CASE j > k
        BY <4>2, <1>2, <1>5
      <4> QED
        BY <4>1, <4>2, <2>3, <1>1
    <3> QED
      BY <2>1, <2>3, <3>1, <1>1
  <2> QED
    BY <2>2, <2>3, <1>1
<1>7. Cardinality(newer) = k - 1
  <2> DEFINE t == [j \in 1..(k - 1) |-> s[j]]
  <2>1. 1..(k - 1) \subseteq 1..n /\ \A j \in 1..(k - 1) : j < k
    BY <1>1
  <2>2. t \in [1..(k - 1) -> newer]
    BY <2>1, <1>6
  <2>3. \A a, b \in 1..(k - 1) : t[a] = t[b] => a = b
    <3> SUFFICES ASSUME NEW a \in 1..(k - 1), NEW b \in 1..(k - 1), t[a] = t[b], a # b
                 PROVE  FALSE
      OBVIOUS
    <3>1. (a < b \/ b < a) /\ a \in 1..n /\ b \in 1..n /\ s[a] = s[b]
      BY <2>1
    <3> QED
      BY <3>1, <1>2
  <2>4. \A x \in newer : \E a \in 1..(k - 1) : t[a] = x
    <3> SUFFICES ASSUME NEW x \in newer
                 PROVE  \E a \in 1..(k - 1) : t[a] = x
      OBVIOUS
    <3>1. PICK a \in 1..n : s[a] = x
      BY <1>4 DEF Surjection
    <3>2. a < k
      BY <3>1, <1>6
    <3> QED
      BY <3>1, <3>2
  <2>5. t \in Bijection(1..(k - 1), newer)
    BY <2>2, <2>3, <2>4 DEF Bijection, Injection, IsInjective, Surjection
  <2> HIDE DEF t
  <2>6. ExistsBijection(1..(k - 1), newer)
    BY <2>5 DEF ExistsBijection
  <2>7. k - 1 \in Nat
    BY <1>1
  <2> QED
    BY <2>6, <2>7, FS_CountingElements
<1> QED
  BY <1>1, <1>2, <1>5, <1>7 DEF n

LEMMA ListsInit == PagedInit => PagedInv
<1> SUFFICES ASSUME PagedInit PROVE PagedInv
  OBVIOUS
<1>1. Unasked \in LoadType /\ NoWalk \in WalkType /\ Unasked.pc = "idle" /\ ~NoWalk.one
  BY DEF Unasked, NoWalk, LoadType, WalkType
<1>2. UnderWay = {}
  BY <1>1 DEF PagedInit, UnderWay
<1>3. <<>> \in Seq(Row) /\ NoWalk.due = {} /\ AnyTag \in Tags \cup {AnyTag}
  BY DEF NoWalk
<1>4. ListTypes
  <2>1. load \in [Loads -> LoadType] /\ walk \in WalkType /\ walk.due \subseteq DOMAIN logged
    BY <1>1, <1>3 DEF PagedInit
  <2>2. logged \in Seq(Row) /\ filter \in Tags \cup {AnyTag}
    BY <1>3 DEF PagedInit
  <2>3. label \in Nat \ {0} /\ total \in Nat
    BY DEF PagedInit
  <2>4. view \in {"search", "activity"} /\ loading \in BOOLEAN
    BY DEF PagedInit
  <2> QED
    BY <2>1, <2>2, <2>3, <2>4 DEF ListTypes
<1> QED
  BY <1>1, <1>2, <1>4 DEF PagedInv, OneSearch, CountHolds, WalkCovers, PagedInit

(* What is due and kept stays due or goes, and the rows before it only grow: so   *)
(* what a walk covers it goes on to cover.                                     *)
LEMMA StaysCovered ==
  ASSUME PagedInv, logged' \in Seq(Row), walk' = walk, walk.one,
         DOMAIN logged \subseteq DOMAIN logged', Kept' \cap DOMAIN logged \subseteq Kept,
         \A i \in DOMAIN logged : logged'[i].at = logged[i].at /\ logged'[i].tag = logged[i].tag,
         \A i, j \in DOMAIN logged :
             i \in Kept' /\ j \in Kept /\ logged[j].at > logged[i].at => j \in Kept'
  PROVE  /\ (walk.due \cap Kept)' \subseteq walk.due \cap Kept
         /\ (walk.due \cap Kept)' \subseteq Match(walk.filter)'
         /\ \A i \in DOMAIN logged : Tied(i) => Tied(i)'
         /\ \A p : p \in Nat /\ Covered(p) => Covered(p)'
<1>1. walk.due \cap Kept \subseteq Match(walk.filter) /\ walk.due \subseteq DOMAIN logged
      /\ logged \in Seq(Row)
  BY DEF PagedInv, WalkCovers, ListTypes
<1>2. (walk.due \cap Kept)' \subseteq walk.due \cap Kept
  BY <1>1
<1>3. (walk.due \cap Kept)' \subseteq Match(walk.filter)'
  BY <1>1, <1>2 DEF Match
<1>4. \A i \in DOMAIN logged : Tied(i) => Tied(i)'
  BY DEF Tied
<1>5. ASSUME NEW i \in (walk.due \cap Kept)'
      PROVE  Cardinality(Ahead(i)) \in Nat /\ Cardinality(Ahead(i)') \in Nat
             /\ Cardinality(Ahead(i)) <= Cardinality(Ahead(i)')
  <2>1. i \in DOMAIN logged
    BY <1>1, <1>2
  <2>2. Ahead(i) \subseteq Ahead(i)'
    <3> SUFFICES ASSUME NEW j \in Match(walk.filter), logged[j].at > logged[i].at
                 PROVE  j \in Ahead(i)'
      BY DEF Ahead
    <3>1. j \in Kept /\ j \in DOMAIN logged
      BY DEF Match, Kept
    <3>2. j \in Kept'
      BY <2>1, <3>1
    <3> QED
      BY <2>1, <3>1, <3>2 DEF Ahead, Match
  <2>3. Ahead(i) \subseteq Match(walk.filter)
    BY DEF Ahead
  <2>4. Ahead(i)' \subseteq Match(walk.filter)'
    BY DEF Ahead
  <2>5. IsFiniteSet(Ahead(i)') /\ Cardinality(Ahead(i)') \in Nat
    <3>1. Ahead(i)' \subseteq DOMAIN logged'
      BY <2>4 DEF Match, Kept
    <3>2. DOMAIN logged' = 1..Len(logged') /\ Len(logged') \in Nat
      OBVIOUS
    <3>3. IsFiniteSet(DOMAIN logged')
      BY <3>2, FS_Interval
    <3>4. IsFiniteSet(Ahead(i)')
      BY <3>1, <3>3, FS_Subset
    <3> QED
      BY <3>4, FS_CardinalityType
  <2>6. Cardinality(Ahead(i)) \in Nat
    BY <1>1, <2>3, MatchIsFinite
  <2> QED
    BY <2>2, <2>5, <2>6, FS_Subset
<1>6. ASSUME NEW p \in Nat, Covered(p)
      PROVE  Covered(p)'
  <2> SUFFICES ASSUME NEW i \in (walk.due \cap Kept)', ~Tied(i)', i \notin walk.seen
               PROVE  Cardinality(Ahead(i)') >= p * PageLength
    BY DEF Covered
  <2>1. i \in walk.due \cap Kept /\ i \in DOMAIN logged /\ ~Tied(i)
    BY <1>1, <1>2, <1>4
  <2>2. Cardinality(Ahead(i)) >= p * PageLength
    BY <1>6, <2>1 DEF Covered
  <2>3. p * PageLength \in Nat
    BY WholePages, Times
  <2> QED
    BY <1>5, <2>2, <2>3
<1> QED
  BY <1>2, <1>3, <1>4, <1>6

(* Rows that come or go leave a walk what it is.                               *)
LEMMA RowsMove ==
  ASSUME PagedInv, logged' \in Seq(Row),
         DOMAIN logged \subseteq DOMAIN logged', Kept' \cap DOMAIN logged \subseteq Kept,
         \A i \in DOMAIN logged : logged'[i].at = logged[i].at /\ logged'[i].tag = logged[i].tag,
         \A i, j \in DOMAIN logged :
             i \in Kept' /\ j \in Kept /\ logged[j].at > logged[i].at => j \in Kept',
         load' \in [Loads -> LoadType],
         \A q \in Loads : /\ load'[q].pc = load[q].pc /\ load'[q].page = load[q].page
                          /\ load'[q].filter = load[q].filter /\ load'[q].first = load[q].first,
         UNCHANGED <<view, filter, label, total, loading, walk>>
  PROVE  ListTypes' /\ OneSearch' /\ WalkCovers' /\ UnderWay' = UnderWay
<1>1. UnderWay' = UnderWay
  BY DEF UnderWay
<1>2. ListTypes'
  BY DEF PagedInv, ListTypes
<1>3. OneSearch'
  BY <1>1 DEF PagedInv, OneSearch, UnderWay
<1>4. ASSUME walk.one
      PROVE  WalkCovers'
  <2>1. /\ (walk.due \cap Kept)' \subseteq walk.due \cap Kept
        /\ (walk.due \cap Kept)' \subseteq Match(walk.filter)'
        /\ \A i \in DOMAIN logged : Tied(i) => Tied(i)'
        /\ \A p : p \in Nat /\ Covered(p) => Covered(p)'
    BY <1>4, StaysCovered
  <2>2. WalkSkipsNothing => WalkSkipsNothing'
    <3>1. walk.due \cap Kept \subseteq DOMAIN logged
      BY DEF PagedInv, ListTypes
    <3> QED
      BY <2>1, <3>1, <1>1 DEF WalkSkipsNothing, UnderWay, PageCount
  <2>3. \A p \in Nat \ {0} : Clamped(p) \in Nat \ {0}
    BY WholePages DEF Clamped
  <2>4. label \in Nat \ {0} /\ \A q \in UnderWay : load[q].page \in Nat \ {0}
    BY DEF PagedInv, ListTypes, LoadType, UnderWay
  <2>5. UnderWay = {} => Covered(Clamped(label))' /\ WalkSkipsNothing'
    BY <1>4, <2>1, <2>2, <2>3, <2>4 DEF PagedInv, WalkCovers
  <2>6. ASSUME NEW q \in UnderWay, ~load[q].first
        PROVE  Covered(Clamped(load[q].page) - 1)'
    <3>1. Covered(Clamped(load[q].page) - 1)
      BY <1>4, <2>6 DEF PagedInv, WalkCovers
    <3>2. Clamped(load[q].page) - 1 \in Nat
      BY <2>3, <2>4
    <3>3. load'[q].page = load[q].page
      BY DEF UnderWay
    <3> DEFINE p == Clamped(load[q].page) - 1
    <3>4. p' = p
      BY <3>3 DEF Clamped
    <3>5. Covered(p)'
      BY <3>1, <3>2, <3>4, <2>1
    <3> QED
      BY <3>5
  <2> QED
    BY <1>1, <1>4, <2>1, <2>5, <2>6 DEF PagedInv, WalkCovers, UnderWay, Clamped
<1>5. ~walk.one => WalkCovers'
  BY DEF WalkCovers
<1> QED
  BY <1>1, <1>2, <1>3, <1>4, <1>5

LEMMA AppearsKeeps ==
  ASSUME PagedInv, NEW tag \in Tags, NEW at \in 1..MaxLogged, Appears(tag, at)
  PROVE  PagedInv'
<1> DEFINE r == [at |-> at, tag |-> tag, kept |-> TRUE]
<1>1. logged \in Seq(Row) /\ r \in Row
  BY DEF PagedInv, ListTypes, Row
<1>2. logged' = Append(logged, r)
  BY DEF Appears
<1> HIDE DEF r
<1>3. /\ logged' \in Seq(Row) /\ DOMAIN logged \subseteq DOMAIN logged'
      /\ \A i \in DOMAIN logged : logged'[i] = logged[i]
  BY <1>1, <1>2
<1>4. Kept' \cap DOMAIN logged = Kept
  BY <1>3 DEF Kept
<1>5. load' = [q \in Loads |-> [load[q] EXCEPT !.torn = @ \/ (load[q].pc = "rows" /\ view = "activity")]]
      /\ UNCHANGED <<view, filter, label, total, loading, walk>>
  BY DEF Appears
<1>6. load \in [Loads -> LoadType]
  BY DEF PagedInv, ListTypes
<1>7. \A q \in Loads :
         /\ load'[q] \in LoadType
         /\ load'[q].pc = load[q].pc /\ load'[q].page = load[q].page /\ load'[q].count = load[q].count
         /\ load'[q].filter = load[q].filter /\ load'[q].first = load[q].first
         /\ view = "activity" /\ load[q].pc = "rows" => load'[q].torn
  BY <1>5, <1>6 DEF LoadType
<1>8. load' \in [Loads -> LoadType]
  BY <1>5, <1>7
<1>9. ListTypes' /\ OneSearch' /\ WalkCovers' /\ UnderWay' = UnderWay
  BY <1>3, <1>4, <1>5, <1>7, <1>8, RowsMove
<1>10. CountHolds'
  <2> SUFFICES ASSUME NEW q \in UnderWay
               PROVE  /\ load'[q].first => load'[q].page = 1
                      /\ view' = "activity" /\ load'[q].pc = "rows" => load'[q].torn
    BY <1>9 DEF CountHolds
  <2>1. q \in Loads
    BY DEF UnderWay
  <2> QED
    BY <1>5, <1>7, <2>1 DEF PagedInv, CountHolds
<1> QED
  BY <1>9, <1>10 DEF PagedInv

LEMMA PurgeKeeps ==
  ASSUME PagedInv, NEW at \in 1..MaxLogged, PurgeOld(at)
  PROVE  PagedInv'
<1>1. /\ logged' = [i \in DOMAIN logged |-> [logged[i] EXCEPT !.kept = @ /\ logged[i].at > at]]
      /\ UNCHANGED <<view, filter, label, total, loading, load, walk>>
  BY DEF PurgeOld
<1>2. logged \in Seq(Row) /\ load \in [Loads -> LoadType]
  BY DEF PagedInv, ListTypes
<1>3. \A i \in DOMAIN logged : logged[i] \in Row
  BY <1>2
<1>4. ASSUME NEW i \in DOMAIN logged
      PROVE  /\ logged'[i] \in Row /\ logged'[i].at = logged[i].at /\ logged'[i].tag = logged[i].tag
             /\ logged'[i].kept <=> logged[i].kept /\ logged[i].at > at
             /\ logged[i].at \in Int
  <2>1. logged[i] \in Row /\ logged[i].at \in Int
    BY <1>3 DEF Row
  <2>2. logged'[i] = [logged[i] EXCEPT !.kept = @ /\ logged[i].at > at]
    BY <1>1
  <2> QED
    BY <2>1, <2>2 DEF Row
<1>5. DOMAIN logged' = DOMAIN logged /\ DOMAIN logged = 1..Len(logged) /\ Len(logged) \in Nat
  BY <1>1, <1>2
<1>6. logged' \in Seq(Row)
  <2>1. logged' \in [1..Len(logged) -> Row]
    BY <1>1, <1>4, <1>5
  <2> QED
    BY <1>5, <2>1
<1>7. Kept' \subseteq Kept /\ \A i, j \in DOMAIN logged :
             i \in Kept' /\ j \in Kept /\ logged[j].at > logged[i].at => j \in Kept'
  <2>1. Kept' = {i \in Kept : logged[i].at > at}
    BY <1>4, <1>5 DEF Kept
  <2> QED
    BY <1>4, <2>1 DEF Kept
<1>8. ListTypes' /\ OneSearch' /\ WalkCovers' /\ UnderWay' = UnderWay
  BY <1>1, <1>2, <1>4, <1>5, <1>6, <1>7, RowsMove
<1>9. \A f : Match(f)' \subseteq Match(f)
  BY <1>4, <1>7 DEF Match, Kept
<1>10. ASSUME NEW q \in UnderWay
       PROVE  /\ Cardinality(Match(load[q].filter)') <= Cardinality(Match(load[q].filter))
              /\ Cardinality(Match(load[q].filter)') \in Nat
              /\ Cardinality(Match(load[q].filter)) \in Nat /\ load[q].count \in Nat
  <2>1. Match(load[q].filter)' \in SUBSET Match(load[q].filter)
    BY <1>1, <1>9
  <2>2. load[q].count \in Nat
    BY <1>2 DEF UnderWay, LoadType
  <2> QED
    BY <1>2, <2>1, <2>2, MatchIsFinite
<1>11. CountHolds'
  <2> SUFFICES ASSUME NEW q \in UnderWay
               PROVE  /\ load[q].first => load[q].page = 1
                      /\ view = "activity" /\ load[q].pc = "rows" /\ ~load[q].torn =>
                             Cardinality(Match(load[q].filter)') <= load[q].count
    BY <1>1, <1>8 DEF CountHolds
  <2> QED
    BY <1>10 DEF PagedInv, CountHolds
<1> QED
  BY <1>8, <1>11 DEF PagedInv

LEMMA AskKeeps ==
  ASSUME PagedInv, NEW q \in Loads, NEW p \in Nat \ {0}, NEW f \in Tags \cup {AnyTag},
         NEW first \in BOOLEAN, AskPage(q, p, f, first), filter' \in Tags \cup {AnyTag},
         first => p = 1, ~first => p = label + 1 \/ p = label - 1,
         view = "search" => ~loading
  PROVE  PagedInv'
<1> DEFINE r == [Unasked EXCEPT !.pc = IF view = "search" THEN "rows" ELSE "count",
                                !.page = p, !.filter = f, !.first = first]
<1>1. /\ r.page = p /\ r.filter = f /\ r.first = first /\ r \in LoadType
      /\ r.pc = IF view = "search" THEN "rows" ELSE "count"
  BY DEF Unasked, LoadType
<1>2. /\ load' = [load EXCEPT ![q] = r] /\ load[q].pc = "idle" /\ loading' = TRUE
      /\ label' = IF view = "search" THEN p ELSE label
      /\ UNCHANGED <<view, logged, total>>
  BY DEF AskPage
<1> HIDE DEF r
<1>3. walk' = [walk EXCEPT !.one = @ /\ f = walk.filter /\ \A x \in Loads : load[x].pc = "idle"]
  BY DEF AskPage
<1>4. ListTypes
  BY DEF PagedInv
<1>5. /\ walk' \in WalkType /\ walk'.filter = walk.filter /\ walk'.due = walk.due
      /\ walk'.seen = walk.seen
      /\ walk'.one <=> walk.one /\ f = walk.filter /\ UnderWay = {}
  BY <1>3, <1>4 DEF WalkType, ListTypes, UnderWay
<1>6. load'[q] = r /\ \A x \in Loads : x # q => load'[x] = load[x]
  BY <1>2, <1>4 DEF ListTypes
<1>7. UnderWay' = UnderWay \cup {q}
  BY <1>1, <1>6 DEF UnderWay
<1>8. ListTypes'
  BY <1>1, <1>2, <1>4, <1>5 DEF ListTypes
<1>9. OneSearch'
  <2> SUFFICES ASSUME view = "search"
               PROVE  OneSearch'
    BY <1>2 DEF OneSearch
  <2>1. UnderWay = {}
    BY DEF PagedInv, OneSearch
  <2> QED
    BY <2>1, <1>1, <1>2, <1>6, <1>7 DEF OneSearch
<1>10. CountHolds'
  <2> SUFFICES ASSUME NEW x \in UnderWay'
               PROVE  /\ load'[x].first => load'[x].page = 1
                      /\ view = "activity" /\ load'[x].pc = "rows" /\ ~load'[x].torn =>
                             Cardinality(Match(load'[x].filter)) <= load'[x].count
    BY <1>2 DEF CountHolds, Match, Kept
  <2>1. CASE x = q
    BY <2>1, <1>1, <1>6
  <2>2. CASE x # q
    BY <2>2, <1>6, <1>7 DEF PagedInv, CountHolds, UnderWay
  <2> QED
    BY <2>1, <2>2
<1>11. WalkCovers'
  <2> SUFFICES ASSUME walk'.one
               PROVE  WalkCovers'
    BY DEF WalkCovers
  <2>1. UnderWay = {} /\ UnderWay' = {q} /\ f = walk.filter /\ walk.one
    BY <1>5, <1>7
  <2>2. (walk.due \cap Kept)' = walk.due \cap Kept /\ Match(walk.filter)' = Match(walk.filter)
    BY <1>2, <1>5 DEF Kept, Match
  <2>3. Covered(Clamped(label)) /\ walk.due \cap Kept \subseteq Match(walk.filter)
    BY <2>1 DEF PagedInv, WalkCovers
  <2>4. ASSUME ~first
        PROVE  Covered(Clamped(p) - 1)'
    <3>1. Clamped(p) - 1 <= Clamped(label) /\ Clamped(label) \in Nat /\ Clamped(p) - 1 \in Nat
      BY <1>4, <2>4, WholePages DEF Clamped, ListTypes
    <3>2. (Clamped(p) - 1) * PageLength <= Clamped(label) * PageLength
          /\ (Clamped(p) - 1) * PageLength \in Nat /\ Clamped(label) * PageLength \in Nat
      BY <3>1, WholePages, Times
    <3> SUFFICES ASSUME NEW i \in walk.due \cap Kept, ~Tied(i), i \notin walk.seen
                 PROVE  Cardinality(Ahead(i)) >= (Clamped(p) - 1) * PageLength
      BY <1>2, <1>5, <2>2 DEF Covered, Ahead, Tied
    <3>3. Cardinality(Ahead(i)) >= Clamped(label) * PageLength
      BY <2>3 DEF Covered
    <3>4. Cardinality(Ahead(i)) \in Nat
      <4>1. Ahead(i) \in SUBSET Match(walk.filter)
        BY DEF Ahead
      <4> QED
        BY <4>1, <1>4, MatchIsFinite DEF ListTypes
    <3> QED
      BY <3>2, <3>3, <3>4
  <2>5. Clamped(load'[q].page) - 1 = Clamped(p) - 1
    BY <1>1, <1>6
  <2>6. ~load'[q].first => Covered(Clamped(load[q].page) - 1)'
    <3>1. ASSUME ~first
          PROVE  Covered(Clamped(load[q].page) - 1)'
      BY <2>4, <2>5, <3>1 DEF Covered, Clamped
    <3> QED
      BY <3>1, <1>1, <1>6
  <2>7. load'[q].filter = walk'.filter /\ (view' = "search" => label' = load'[q].page)
    BY <2>1, <1>1, <1>2, <1>5, <1>6
  <2>8. walk'.due \cap Kept' \subseteq Match(walk.filter)'
    BY <2>2, <2>3
  <2>9. UnderWay' # {}
    BY <2>1
  <2>10. \A x \in UnderWay' : x = q
    BY <2>1
  <2> QED
    BY <2>1, <2>6, <2>7, <2>8, <2>9, <2>10 DEF WalkCovers
<1> QED
  BY <1>8, <1>9, <1>10, <1>11 DEF PagedInv

LEMMA AsksKeep ==
  ASSUME PagedInv, NEW q \in Loads
  PROVE  /\ Submit(q) \/ NextPage(q) \/ PreviousPage(q) => PagedInv'
         /\ \A f \in Tags \cup {AnyTag} : SelectType(q, f) => PagedInv'
<1>1. label \in Nat \ {0} /\ filter \in Tags \cup {AnyTag} /\ view \in {"search", "activity"}
  BY DEF PagedInv, ListTypes
<1>2. Submit(q) => PagedInv'
  <2>1. Submit(q) => /\ AskPage(q, 1, filter, TRUE) /\ filter' = filter
                     /\ view = "search" => ~loading
    BY DEF Submit
  <2>2. 1 \in Nat \ {0}
    OBVIOUS
  <2> QED
    BY <1>1, <2>1, <2>2, AskKeeps
<1>3. NextPage(q) => PagedInv'
  <2>1. label + 1 \in Nat \ {0}
    BY <1>1
  <2> QED
    BY <1>1, <2>1, AskKeeps DEF NextPage
<1>4. PreviousPage(q) => PagedInv'
  <2>1. label > 1 => label - 1 \in Nat \ {0}
    BY <1>1
  <2> QED
    BY <1>1, <2>1, AskKeeps DEF PreviousPage
<1>5. ASSUME NEW f \in Tags \cup {AnyTag}, SelectType(q, f)
      PROVE  PagedInv'
  <2>1. AskPage(q, 1, f, TRUE) /\ filter' = f /\ view # "search"
    BY <1>5 DEF SelectType
  <2>2. 1 \in Nat \ {0}
    OBVIOUS
  <2> QED
    BY <2>1, <2>2, AskKeeps
<1> QED
  BY <1>2, <1>3, <1>4, <1>5

LEMMA EditKeeps ==
  ASSUME PagedInv, NEW f \in Tags \cup {AnyTag}, EditFilter(f)
  PROVE  PagedInv'
<1>1. filter' = f /\ UNCHANGED <<view, logged, label, total, loading, load, walk>>
  BY DEF EditFilter
<1> QED
  BY <1>1 DEF PagedInv, ListTypes, OneSearch, CountHolds, WalkCovers, UnderWay, Match, Kept,
              Covered, Ahead, Tied, WalkSkipsNothing, PageCount, Clamped

LEMMA ClearFiltersKeeps ==
  ASSUME PagedInv, ClearFilters
  PROVE  PagedInv'
<1>1. /\ view = "search" /\ filter' = AnyTag /\ label' = 1 /\ total' = 0 /\ walk' = NoWalk
      /\ UNCHANGED <<view, logged, loading, load>>
  BY DEF ClearFilters
<1>2. NoWalk \in WalkType /\ ~NoWalk.one /\ NoWalk.due = {} /\ 1 \in Nat \ {0} /\ 0 \in Nat
  BY DEF NoWalk, WalkType
<1>3. ListTypes'
  BY <1>1, <1>2 DEF PagedInv, ListTypes
<1>4. OneSearch' /\ CountHolds'
  BY <1>1 DEF PagedInv, OneSearch, CountHolds, UnderWay, Match, Kept
<1> QED
  BY <1>1, <1>2, <1>3, <1>4 DEF PagedInv, WalkCovers

LEMMA CountKeeps ==
  ASSUME PagedInv, NEW q \in Loads, CountRows(q)
  PROVE  PagedInv'
<1> DEFINE n == Cardinality(Match(load[q].filter))
<1>1. /\ load[q].pc = "count" /\ load' = [load EXCEPT ![q].pc = "rows", ![q].count = n]
      /\ UNCHANGED <<view, logged, filter, label, total, loading, walk>>
  BY DEF CountRows
<1>2. ListTypes /\ load \in [Loads -> LoadType] /\ logged \in Seq(Row)
  BY DEF PagedInv, ListTypes
<1>3. n \in Nat
  BY <1>2, MatchIsFinite
<1> HIDE DEF n
<1>4. /\ load'[q] = [load[q] EXCEPT !.pc = "rows", !.count = n] /\ load'[q] \in LoadType
      /\ \A x \in Loads : x # q => load'[x] = load[x]
  BY <1>1, <1>2, <1>3 DEF LoadType
<1>5. load' \in [Loads -> LoadType]
  BY <1>1, <1>2, <1>4
<1>6. \A x \in Loads : /\ load'[x].page = load[x].page /\ load'[x].first = load[x].first
                       /\ load'[x].filter = load[x].filter
  BY <1>2, <1>4 DEF LoadType
<1>7. UnderWay' = UnderWay /\ q \in UnderWay
  BY <1>1, <1>2, <1>4 DEF UnderWay, LoadType
<1>8. load'[q].count = n /\ load'[q].pc = "rows"
  BY <1>2, <1>4 DEF LoadType
<1>9. ListTypes'
  BY <1>1, <1>2, <1>5 DEF ListTypes
<1>10. OneSearch'
  BY <1>1, <1>7 DEF PagedInv, OneSearch
<1>11. CountHolds'
  <2> SUFFICES ASSUME NEW x \in UnderWay
               PROVE  /\ load'[x].first => load'[x].page = 1
                      /\ view = "activity" /\ load'[x].pc = "rows" /\ ~load'[x].torn =>
                             Cardinality(Match(load'[x].filter)) <= load'[x].count
    BY <1>1, <1>7 DEF CountHolds, Match, Kept
  <2>1. x \in Loads
    BY DEF UnderWay
  <2>2. CASE x = q
    <3>1. load[q].first => load[q].page = 1
      BY <1>7 DEF PagedInv, CountHolds
    <3>2. Cardinality(Match(load'[q].filter)) = n
      BY <1>6 DEF n
    <3> QED
      BY <2>2, <3>1, <3>2, <1>3, <1>6, <1>8
  <2>3. CASE x # q
    BY <2>1, <2>3, <1>4 DEF PagedInv, CountHolds
  <2> QED
    BY <2>2, <2>3
<1>12. WalkCovers'
  <2> SUFFICES ASSUME walk.one
               PROVE  WalkCovers'
    BY <1>1 DEF WalkCovers
  <2>1. UnderWay = {q} /\ UnderWay' = {q}
    BY <1>7 DEF PagedInv, WalkCovers
  <2>2. walk'.due \cap Kept' \subseteq Match(walk.filter)'
    BY <1>1 DEF PagedInv, WalkCovers, Match, Kept
  <2>3. ASSUME ~load'[q].first
        PROVE  /\ load'[q].filter = walk'.filter
               /\ view' = "search" => label' = load'[q].page
               /\ Covered(Clamped(load[q].page) - 1)'
    <3>1. /\ load[q].filter = walk.filter /\ (view = "search" => label = load[q].page)
          /\ Covered(Clamped(load[q].page) - 1)
      BY <1>6, <1>7, <2>3 DEF PagedInv, WalkCovers
    <3>2. load'[q].page = load[q].page /\ load'[q].filter = load[q].filter
      BY <1>6
    <3>3. (Clamped(load[q].page) - 1)' = Clamped(load[q].page) - 1
      BY <3>2 DEF Clamped
    <3>4. (walk.due \cap Kept)' = walk.due \cap Kept /\ walk' = walk /\ logged' = logged
          /\ Match(walk.filter)' = Match(walk.filter)
      BY <1>1 DEF Match, Kept
    <3>5. Covered(Clamped(load[q].page) - 1)'
      BY <3>1, <3>3, <3>4 DEF Covered, Ahead, Tied
    <3> QED
      BY <3>1, <3>2, <3>5, <1>1
  <2> QED
    BY <1>1, <2>1, <2>2, <2>3 DEF WalkCovers
<1> QED
  BY <1>9, <1>10, <1>11, <1>12 DEF PagedInv

(* A load ends: the others are left as they are.                               *)
LEMMA Ends ==
  ASSUME PagedInv, NEW q \in Loads, load[q].pc # "idle", load' = [load EXCEPT ![q] = Unasked],
         UNCHANGED <<view, logged, filter>>, loading' = FALSE,
         walk' \in WalkType, walk'.due \subseteq DOMAIN logged,
         total' \in Nat, label' \in Nat \ {0}
  PROVE  ListTypes' /\ OneSearch' /\ CountHolds' /\ UnderWay' = UnderWay \ {q}
<1>1. Unasked \in LoadType /\ Unasked.pc = "idle"
  BY DEF Unasked, LoadType
<1>2. ListTypes
  BY DEF PagedInv
<1>3. load'[q] = Unasked /\ \A x \in Loads : x # q => load'[x] = load[x]
  BY <1>2 DEF ListTypes
<1>4. UnderWay' = UnderWay \ {q}
  BY <1>1, <1>3 DEF UnderWay
<1>5. ListTypes'
  BY <1>1, <1>2 DEF ListTypes
<1>6. OneSearch'
  <2>1. view = "search" => UnderWay' = {}
    BY <1>4 DEF PagedInv, OneSearch, UnderWay
  <2> QED
    BY <2>1 DEF OneSearch
<1>7. CountHolds'
  <2> SUFFICES ASSUME NEW x \in UnderWay, x # q
               PROVE  /\ load'[x].first => load'[x].page = 1
                      /\ view = "activity" /\ load'[x].pc = "rows" /\ ~load'[x].torn =>
                             Cardinality(Match(load'[x].filter)) <= load'[x].count
    BY <1>4 DEF CountHolds, Match, Kept
  <2> QED
    BY <1>3 DEF PagedInv, CountHolds, UnderWay
<1> QED
  BY <1>4, <1>5, <1>6, <1>7

LEMMA FailsKeeps ==
  ASSUME PagedInv, NEW q \in Loads, PageFails(q)
  PROVE  PagedInv'
<1>1. NoWalk \in WalkType /\ ~NoWalk.one /\ NoWalk.due = {} /\ 0 \in Nat
  BY DEF NoWalk, WalkType
<1>2. total' \in Nat /\ label' \in Nat \ {0} /\ walk' = NoWalk
  BY DEF PageFails, PagedInv, ListTypes
<1>3. ListTypes' /\ OneSearch' /\ CountHolds'
  BY <1>1, <1>2, Ends DEF PageFails
<1> QED
  BY <1>1, <1>2, <1>3 DEF PagedInv, WalkCovers

(* What a page shows, and what it tells when it is the last.                   *)
LEMMA PageShows ==
  ASSUME PagedInv, NEW q \in UnderWay, NEW M, M = Match(load[q].filter),
         NEW s \in NewestFirst(M), NEW p, p = Clamped(load[q].page)
  PROVE  /\ p \in Nat \ {0} /\ Skipped(q) = (p - 1) * PageLength
         /\ Skipped(q) \in Nat /\ Skipped(q) + PageLength = p * PageLength
         /\ IsFiniteSet(M) /\ Len(s) = Cardinality(M) /\ Cardinality(M) \in Nat
         /\ DOMAIN s = 1..Len(s) /\ PageRows(q, s) \subseteq M /\ IsFiniteSet(PageRows(q, s))
         /\ Cardinality(PageRows(q, s)) \in Nat
         /\ HasMore(q, s) => Cardinality(PageRows(q, s)) >= PageLength
<1>1. PageLength \in Nat \ {0} /\ LastPage \in Nat \ {0}
  BY WholePages
<1>2. logged \in Seq(Row) /\ load[q].page \in Nat \ {0}
  BY DEF PagedInv, ListTypes, LoadType, UnderWay
<1>3. p \in Nat \ {0} /\ Skipped(q) = (p - 1) * PageLength
  BY <1>1, <1>2 DEF Clamped, Skipped
<1>4. Skipped(q) \in Nat /\ Skipped(q) + PageLength = p * PageLength
  BY <1>1, <1>3
<1>5. IsFiniteSet(M) /\ Cardinality(M) \in Nat
  BY <1>2, MatchIsFinite
<1>6. /\ s \in [1..Cardinality(M) -> M]
      /\ \A j, k \in 1..Cardinality(M) : j < k => s[j] # s[k]
  BY DEF NewestFirst
<1>7. Len(s) = Cardinality(M) /\ DOMAIN s = 1..Len(s)
  BY <1>5, <1>6
<1>8. PageRows(q, s) \subseteq M
  BY <1>6 DEF PageRows
<1>9. IsFiniteSet(PageRows(q, s)) /\ Cardinality(PageRows(q, s)) \in Nat
  BY <1>5, <1>8, FS_Subset, FS_CardinalityType
<1>10. ASSUME HasMore(q, s)
       PROVE  Cardinality(PageRows(q, s)) >= PageLength
  <2> DEFINE k == Skipped(q)
             t == [i \in 1..PageLength |-> s[k + i]]
  <2>1. \A i \in 1..PageLength : k + i \in 1..Cardinality(M) /\ k < k + i /\ k + i <= k + PageLength
    BY <1>1, <1>4, <1>5, <1>7, <1>10 DEF HasMore
  <2>2. \A i \in 1..PageLength : s[k + i] \in PageRows(q, s)
    BY <2>1, <1>7 DEF PageRows
  <2>3. \A i, j \in 1..PageLength : t[i] = t[j] => i = j
    <3> SUFFICES ASSUME NEW i \in 1..PageLength, NEW j \in 1..PageLength, i < j
                 PROVE  s[k + i] # s[k + j]
      <4>1. \A i, j \in 1..PageLength : i # j => i < j \/ j < i
        BY <1>1
      <4> QED
        BY <4>1
    <3>1. k + i < k + j
      BY <1>1, <1>4
    <3> QED
      BY <3>1, <2>1, <1>6
  <2>4. t \in Injection(1..PageLength, PageRows(q, s))
    BY <2>2, <2>3 DEF Injection, IsInjective
  <2>5. Cardinality(1..PageLength) = PageLength
    BY <1>1, FS_Interval
  <2> HIDE DEF t
  <2> QED
    BY <2>4, <2>5, <1>1, <1>9, FS_Injection
<1> QED
  BY <1>3, <1>4, <1>5, <1>7, <1>8, <1>9, <1>10

LEMMA ShowKeeps ==
  ASSUME PagedInv, NEW q \in Loads, ShowPage(q)
  PROVE  PagedInv'
<1> DEFINE F == load[q].filter
           M == Match(F)
           p == Clamped(load[q].page)
<1>1. /\ load[q].pc = "rows" /\ q \in UnderWay
      /\ label' = IF view = "activity" THEN p ELSE label
      /\ load' = [load EXCEPT ![q] = Unasked] /\ loading' = FALSE
      /\ UNCHANGED <<view, logged, filter>>
  BY DEF ShowPage, UnderWay
<1>2. PICK s \in NewestFirst(M) : total' = Told(q, s) /\ walk' = Walked(q, PageRows(q, s))
  BY DEF ShowPage
<1> DEFINE rows == PageRows(q, s)
           k == Skipped(q)
           C == Cardinality(M)
<1>3. ListTypes
  BY DEF PagedInv
<1>4. /\ logged \in Seq(Row) /\ load[q] \in LoadType /\ walk \in WalkType
      /\ load[q].first \in BOOLEAN /\ load[q].torn \in BOOLEAN /\ load[q].count \in Nat
      /\ F \in Tags \cup {AnyTag} /\ load[q].page \in Nat \ {0}
      /\ PageLength \in Nat \ {0} /\ LastPage \in Nat \ {0}
  BY <1>3, WholePages DEF ListTypes, LoadType
<1>5. /\ p \in Nat \ {0} /\ k = (p - 1) * PageLength /\ k \in Nat /\ k + PageLength = p * PageLength
      /\ IsFiniteSet(M) /\ Len(s) = C /\ C \in Nat /\ DOMAIN s = 1..Len(s)
      /\ rows \subseteq M /\ Cardinality(rows) \in Nat
      /\ HasMore(q, s) => Cardinality(rows) >= PageLength
  BY <1>1, PageShows
<1>6. M \subseteq Kept /\ M \subseteq DOMAIN logged /\ DOMAIN logged \subseteq Nat
  BY <1>4, MatchIsFinite
<1> HIDE DEF M, p, rows, k, C
<1>7. /\ walk' \in WalkType /\ walk'.due \subseteq DOMAIN logged
      /\ load[q].first => /\ walk'.filter = F /\ walk'.due = M /\ walk'.seen = rows
                          /\ walk'.one => ~load[q].torn /\ UnderWay = {q}
      /\ ~load[q].first => /\ walk'.filter = walk.filter /\ walk'.due = walk.due
                           /\ walk'.seen = walk.seen \cup rows
                           /\ walk'.one => walk.one /\ ~load[q].torn
  <2>1. rows \in SUBSET Nat /\ M \in SUBSET Nat
    BY <1>5, <1>6
  <2>2. CASE load[q].first
    <3>1. walk' = [filter |-> F, due |-> M, seen |-> rows,
                   one |-> ~load[q].torn /\ \A x \in Loads \ {q} : load[x].pc = "idle"]
      BY <1>2, <2>2 DEF Walked, M, rows
    <3>2. /\ walk'.filter = F /\ walk'.due = M /\ walk'.seen = rows /\ walk' \in WalkType
          /\ walk'.one <=> ~load[q].torn /\ \A x \in Loads \ {q} : load[x].pc = "idle"
      BY <3>1, <2>1, <1>4 DEF WalkType
    <3>3. (\A x \in Loads \ {q} : load[x].pc = "idle") => UnderWay = {q}
      BY <1>1 DEF UnderWay
    <3> QED
      BY <3>2, <3>3, <2>2, <1>6
  <2>3. CASE ~load[q].first
    <3>1. walk' = [walk EXCEPT !.seen = @ \cup rows, !.one = @ /\ ~load[q].torn]
      BY <1>2, <2>3 DEF Walked, rows
    <3> QED
      BY <3>1, <2>1, <2>3, <1>3, <1>4 DEF WalkType, ListTypes
  <2> QED
    BY <2>2, <2>3
<1>8. total' \in Nat /\ label' \in Nat \ {0}
  BY <1>1, <1>2, <1>3, <1>4, <1>5 DEF Told, ListTypes, rows, k
<1>9. ListTypes' /\ OneSearch' /\ CountHolds' /\ UnderWay' = UnderWay \ {q}
  BY <1>1, <1>7, <1>8, Ends
<1>10. ASSUME walk'.one
       PROVE  WalkCovers'
  <2>1. /\ UnderWay = {q} /\ ~load[q].torn /\ walk'.filter = F
        /\ walk'.due \cap Kept \subseteq M
        /\ view = "search" => label = load[q].page
        /\ ~load[q].first => Covered(p - 1)
    <3>1. CASE load[q].first
      <4>1. load[q].page = 1 /\ (view = "search" => label = 1)
        BY <3>1, <1>1 DEF PagedInv, CountHolds, OneSearch
      <4> QED
        BY <3>1, <4>1, <1>7, <1>10
    <3>2. CASE ~load[q].first
      <4>1. walk.one /\ ~load[q].torn
        BY <3>2, <1>7, <1>10
      <4>2. /\ UnderWay = {q} /\ F = walk.filter /\ (view = "search" => label = load[q].page)
            /\ Covered(p - 1) /\ walk.due \cap Kept \subseteq Match(walk.filter)
        BY <3>2, <4>1, <1>1 DEF PagedInv, WalkCovers, p
      <4>3. walk'.filter = F /\ walk'.due = walk.due
        BY <3>2, <4>2, <1>7
      <4>4. walk'.due \cap Kept \subseteq M
        BY <4>2, <4>3 DEF M
      <4> QED
        BY <3>2, <4>1, <4>2, <4>3, <4>4
    <3> QED
      BY <3>1, <3>2
  <2>2. Clamped(label') = p /\ (label' <= LastPage => label' = p)
    <3>1. view \in {"search", "activity"}
      BY <1>3 DEF ListTypes
    <3> QED
      BY <2>1, <3>1, <1>1, <1>4 DEF Clamped, p
  <2>3. ASSUME NEW i \in walk'.due \cap Kept, ~Tied(i), i \notin walk'.seen
        PROVE  /\ Cardinality({j \in M : logged[j].at > logged[i].at}) >= p * PageLength
               /\ Cardinality({j \in M : logged[j].at > logged[i].at}) < C
    <3> DEFINE newer == {j \in M : logged[j].at > logged[i].at}
               c == Cardinality(newer)
    <3>1. i \in M
      BY <2>1
    <3>2. c \in Nat /\ c + 1 \in 1..C /\ s[c + 1] = i /\ DOMAIN s = 1..C
      <4> HIDE DEF newer
      <4>1. newer = {j \in M : logged[j].at > logged[i].at}
        BY DEF newer
      <4>2. /\ logged \in Seq(Row) /\ M \subseteq DOMAIN logged /\ IsFiniteSet(M)
            /\ s \in NewestFirst(M) /\ i \in M /\ ~Tied(i)
        BY <3>1, <2>3, <1>4, <1>5, <1>6
      <4>3. /\ DOMAIN s = 1..Cardinality(M) /\ c \in Nat
            /\ c + 1 \in DOMAIN s /\ s[c + 1] = i
        BY <4>1, <4>2, Position
      <4> QED
        BY <4>3 DEF C
    <3>3. c >= k
      <4>1. CASE load[q].first
        <5>1. load[q].page = 1
          BY <4>1, <1>1 DEF PagedInv, CountHolds
        <5>2. p = 1 /\ (p - 1) * PageLength = 0
          BY <5>1, <1>4 DEF Clamped, p
        <5> QED
          BY <5>2, <3>2, <1>5
      <4>2. CASE ~load[q].first
        <5>1. i \in walk.due \cap Kept /\ i \notin walk.seen /\ walk.filter = F
          BY <4>2, <2>1, <2>3, <1>7
        <5>2. Cardinality(Ahead(i)) >= (p - 1) * PageLength
          BY <4>2, <5>1, <2>1, <2>3 DEF Covered
        <5>3. Ahead(i) = newer
          BY <5>1 DEF Ahead, M
        <5> QED
          BY <5>2, <5>3, <1>5
      <4> QED
        BY <4>1, <4>2
    <3>4. i \notin rows
      BY <2>3, <1>7
    <3>5. ~(k < c + 1 /\ c + 1 <= k + PageLength)
      BY <3>2, <3>4 DEF PageRows, rows, k
    <3> HIDE DEF c, newer
    <3>6. c >= k + PageLength /\ c < C
      BY <3>2, <3>3, <3>5, <1>4, <1>5
    <3> QED
      BY <3>6, <1>5 DEF c, newer
  <2>4. Match(walk.filter)' = M /\ Kept' = Kept
    BY <1>1, <2>1 DEF M, Match, Kept
  <2>5. \A i : Tied(i)' <=> Tied(i)
    BY <1>1 DEF Tied
  <2>6. \A i : Ahead(i)' = {j \in M : logged[j].at > logged[i].at}
    BY <1>1, <2>4 DEF Ahead
  <2>7. Covered(Clamped(label))'
    <3>1. Clamped(label)' = p
      BY <2>2 DEF Clamped
    <3> QED
      BY <2>3, <2>4, <2>5, <2>6, <3>1 DEF Covered
  <2>8. WalkSkipsNothing'
    <3> SUFFICES ASSUME label' <= LastPage, PageCount(total') <= label',
                        NEW i \in walk'.due \cap Kept, ~Tied(i), i \notin walk'.seen
                 PROVE  FALSE
      BY <1>8, <2>4, <2>5 DEF WalkSkipsNothing, PageCount
    <3>1. label' = p
      BY <2>2
    <3>2. total' <= p * PageLength
      BY <1>8, <3>1, EndsThere
    <3>3. p * PageLength \in Nat
      BY <1>4, <1>5
    <3>4. C <= p * PageLength
      <4>1. CASE view = "activity"
        <5>1. total' = load[q].count
          BY <4>1, <1>2 DEF Told
        <5>2. C <= load[q].count
          BY <4>1, <2>1, <1>1 DEF PagedInv, CountHolds, C, M
        <5> QED
          BY <5>1, <5>2, <3>2, <3>3, <1>4, <1>5
      <4>2. CASE view # "activity" /\ HasMore(q, s)
        <5>1. total' = k + Cardinality(rows) + 1
          BY <4>2, <1>2 DEF Told, k, rows
        <5> QED
          BY <4>2, <5>1, <3>2, <3>3, <1>4, <1>5
      <4>3. CASE ~HasMore(q, s)
        BY <4>3, <1>4, <1>5 DEF HasMore, k
      <4> QED
        BY <4>1, <4>2, <4>3
    <3>5. {j \in M : logged[j].at > logged[i].at} \in SUBSET M
      OBVIOUS
    <3>6. Cardinality({j \in M : logged[j].at > logged[i].at}) \in Nat
      BY <3>5, <1>4, MatchIsFinite DEF M
    <3> QED
      BY <2>3, <3>3, <3>4, <3>6, <1>5
  <2>9. walk'.due \cap Kept' \subseteq Match(walk.filter)' /\ UnderWay' = {}
    BY <2>1, <2>4, <1>9
  <2> QED
    BY <2>7, <2>8, <2>9 DEF WalkCovers
<1>11. ~walk'.one => WalkCovers'
  BY DEF WalkCovers
<1> QED
  BY <1>9, <1>10, <1>11 DEF PagedInv

LEMMA PagedStep == PagedInv /\ [PagedNext]_pagedVars => PagedInv'
<1> SUFFICES ASSUME PagedInv, [PagedNext]_pagedVars
             PROVE  PagedInv'
  OBVIOUS
<1>1. CASE UNCHANGED pagedVars
  BY <1>1 DEF pagedVars, PagedInv, ListTypes, OneSearch, CountHolds, WalkCovers, UnderWay, Match, Kept,
              Covered, Ahead, Tied, WalkSkipsNothing, PageCount, Clamped
<1>2. CASE \E t \in Tags, at \in 1..MaxLogged : Appears(t, at)
  BY <1>2, AppearsKeeps
<1>3. CASE \E at \in 1..MaxLogged : PurgeOld(at)
  BY <1>3, PurgeKeeps
<1>4. CASE ClearFilters
  BY <1>4, ClearFiltersKeeps
<1>5. CASE \E f \in Tags \cup {AnyTag} : EditFilter(f)
  BY <1>5, EditKeeps
<1>6. ASSUME NEW q \in Loads,
             \/ Submit(q) \/ NextPage(q) \/ PreviousPage(q)
             \/ \E f \in Tags \cup {AnyTag} : SelectType(q, f)
      PROVE  PagedInv'
  BY <1>6, AsksKeep
<1>7. ASSUME NEW q \in Loads, CountRows(q) \/ ShowPage(q) \/ PageFails(q)
      PROVE  PagedInv'
  BY <1>7, CountKeeps, ShowKeeps, FailsKeeps
<1> QED
  BY <1>1, <1>2, <1>3, <1>4, <1>5, <1>6, <1>7 DEF PagedNext

(* Who walks one search to its last page has been shown every row that was due,  *)
(* kept and has its time for itself, for any number of rows, pages and loads      *)
(* that overlap (runSearch, logs.service.ts search, the audit list).            *)
THEOREM WalksSkipNothing == PagedSpec => []WalkSkipsNothing
<1>1. PagedInv => WalkSkipsNothing
  BY DEF PagedInv, WalkCovers, WalkSkipsNothing, UnderWay
<1> QED
  BY <1>1, ListsInit, PagedStep, PTL DEF PagedSpec

-----------------------------------------------------------------------------
(* Part 3.  The log stream.                                                     *)
(* The stream.                                                                *)
LEMMA LengthIsDomain ==
  ASSUME NEW X, NEW ids \in Seq(X)
  PROVE  DOMAIN ids = 1..Len(ids) /\ Len(ids) \in Nat /\ \A i \in 1..Len(ids) : ids[i] \in X
OBVIOUS

AmongBy(f, ids, K) ==
    /\ f[0] = <<>> /\ f[Len(ids)] = Among(ids, K)
    /\ \A i \in 1..Len(ids) :
          f[i] = IF ids[i] \in K THEN Append(f[i - 1], ids[i]) ELSE f[i - 1]

LEMMA AmongSteps ==
  ASSUME NEW X, NEW ids \in Seq(X), NEW K
  PROVE  \E f \in [0..Len(ids) -> Seq(X)] : AmongBy(f, ids, K)
<1> DEFINE n == Len(ids)
           S == Seq(X)
           base == <<>>
           next(q, x) == IF x \in K THEN Append(q, x) ELSE q
           step == [i \in 1..n |-> [q \in S |-> next(q, ids[i])]]
           body(g) == [T \in SUBSET (1..n) |->
                         IF T = {} THEN base ELSE next(g[T \ {Max(T)}], ids[Max(T)])]
           iter == CHOOSE g : g = body(g)
<1>1. n \in Nat /\ base \in S /\ DOMAIN ids = 1..n /\ \A i \in 1..n : ids[i] \in X
  BY LengthIsDomain
<1>2. \A x \in X, q \in S : next(q, x) \in S
  OBVIOUS
<1>3. Among(ids, K) = iter[1..n]
  BY <1>1 DEF Among, FoldLeft, MapThenFoldSet
<1> HIDE DEF n, S, base, next
<1>4. step \in [1..n -> [S -> S]] /\ \A i \in 1..n, q \in S : step[i][q] = next(q, ids[i])
  BY <1>1, <1>2
<1> HIDE DEF step, body, iter
<1>5. PICK g \in [SUBSET (1..n) -> S] : FoldsBy(g, base, n, step)
  BY <1>1, <1>4, FoldsExist, Zenon
<1>6. \A T \in SUBSET (1..n) : T # {} => Max(T) \in 1..n /\ T \ {Max(T)} \in SUBSET (1..n)
  BY <1>1, LastIndex
<1>7. g = body(g)
  <2>1. \A T \in SUBSET (1..n) :
            g[T] = IF T = {} THEN base ELSE next(g[T \ {Max(T)}], ids[Max(T)])
    BY <1>4, <1>5, <1>6 DEF FoldsBy
  <2>2. g = [T \in SUBSET (1..n) |-> g[T]]
    OBVIOUS
  <2> QED
    BY <2>1, <2>2 DEF body
<1>8. iter = body(iter)
  BY <1>7 DEF iter
<1> DEFINE f == [i \in 0..n |-> iter[1..i]]
<1>9. f[0] = base
  <2>1. 1..0 = {} /\ {} \in SUBSET (1..n) /\ 0 \in 0..n
    BY <1>1
  <2> QED
    BY <1>8, <2>1 DEF body
<1>10. ASSUME NEW i \in 1..n PROVE f[i] = next(f[i - 1], ids[i])
  <2>1. /\ 1..i \in SUBSET (1..n) /\ 1..i # {} /\ Max(1..i) = i
        /\ i \in 0..n /\ i - 1 \in 0..n /\ (1..i) \ {i} = 1..(i - 1)
    BY <1>1, Prefix
  <2> QED
    BY <1>8, <2>1 DEF body
<1> HIDE DEF f
<1>11. \A i \in 0..n : f[i] \in S
  <2>1. f[0] \in S
    BY <1>1, <1>9
  <2>2. \A i \in 1..n : f[i - 1] \in S => f[i] \in S
    BY <1>1, <1>2, <1>10
  <2> QED
    BY <1>1, <2>1, <2>2, IterationStays
<1>12. f \in [0..n -> S] /\ f[n] = Among(ids, K)
  <2>1. f = [i \in 0..n |-> f[i]]
    BY DEF f
  <2>2. n \in 0..n
    BY <1>1
  <2> QED
    BY <1>3, <1>11, <2>1, <2>2 DEF f
<1>13. AmongBy(f, ids, K)
  BY <1>9, <1>10, <1>12 DEF AmongBy, n, base, next
<1> QED
  BY <1>12, <1>13 DEF n, S

(* filter keeps the ids asked for, in their order, and all of them when there is  *)
(* no other.                                                                  *)
LEMMA AmongKeeps ==
  ASSUME NEW X, NEW ids \in Seq(X), NEW K
  PROVE  /\ Among(ids, K) \in Seq(X) /\ Len(Among(ids, K)) <= Len(ids)
         /\ ToSet(Among(ids, K)) = ToSet(ids) \cap K
         /\ ToSet(ids) \subseteq K => Among(ids, K) = ids
<1> DEFINE n == Len(ids)
           Good(i, q) == /\ q \in Seq(X) /\ Len(q) <= i
                         /\ \A x : (\E j \in 1..Len(q) : q[j] = x) <=>
                                    x \in K /\ \E j \in 1..i : ids[j] = x
                         /\ ToSet(ids) \subseteq K => q = SubSeq(ids, 1, i)
<1> HIDE DEF Good
<1>1. DOMAIN ids = 1..n /\ n \in Nat /\ \A i \in 1..n : ids[i] \in X
  BY LengthIsDomain
<1>2. PICK f \in [0..n -> Seq(X)] : AmongBy(f, ids, K)
  BY AmongSteps
<1> HIDE DEF n
<1> DEFINE G == {i \in Nat : i <= n => Good(i, f[i])}
<1>3. 0 \in G
  <2>1. SubSeq(ids, 1, 0) = <<>> /\ <<>> \in Seq(X) /\ Len(<<>>) = 0 /\ 1..0 = {}
    OBVIOUS
  <2>2. Good(0, <<>>)
    BY <2>1 DEF Good
  <2> QED
    BY <1>2, <2>2 DEF AmongBy
<1>4. ASSUME NEW i \in Nat, i \in G PROVE i + 1 \in G
  <2> SUFFICES ASSUME i + 1 <= n PROVE Good(i + 1, f[i + 1])
    OBVIOUS
  <2>1. Good(i, f[i])
    BY <1>1, <1>4
  <2>2. i + 1 \in 1..n /\ (i + 1) - 1 = i /\ ids[i + 1] \in X
    BY <1>1
  <2> DEFINE q == f[i]
             x == ids[i + 1]
  <2>3. f[i + 1] = IF x \in K THEN Append(q, x) ELSE q
    BY <1>2, <2>2 DEF AmongBy, n
  <2>4. \A y : (\E j \in 1..(i + 1) : ids[j] = y) <=> y = x \/ \E j \in 1..i : ids[j] = y
    <3>1. 1..(i + 1) = 1..i \cup {i + 1}
      OBVIOUS
    <3> QED
      BY <3>1
  <2>5. q \in Seq(X) /\ Len(q) \in Nat /\ Len(q) <= i /\ i \in Int
    BY <2>1 DEF Good
  <2>6. \A y : (\E j \in 1..Len(q) : q[j] = y) <=> y \in K /\ \E j \in 1..i : ids[j] = y
    BY <2>1 DEF Good
  <2>7. x \in X
    BY <2>2
  <2>8. CASE x \in K
    <3> DEFINE r == Append(q, x)
    <3>1. r \in Seq(X) /\ Len(r) = Len(q) + 1
      BY <2>5, <2>7
    <3>2. \A y : (\E j \in 1..Len(r) : r[j] = y) <=> y = x \/ \E j \in 1..Len(q) : q[j] = y
      <4>1. 1..(Len(q) + 1) = 1..Len(q) \cup {Len(q) + 1}
        BY <2>5
      <4>2. r[Len(q) + 1] = x /\ \A j \in 1..Len(q) : r[j] = q[j]
        BY <2>5
      <4> HIDE DEF r
      <4> QED
        BY <3>1, <4>1, <4>2
    <3>3. ToSet(ids) \subseteq K => r = SubSeq(ids, 1, i + 1)
      <4>1. i + 1 \in 1..Len(ids)
        BY <2>2 DEF n
      <4>2. Append(SubSeq(ids, 1, i), ids[i + 1]) = SubSeq(ids, 1, i + 1)
        BY <4>1
      <4> QED
        BY <2>1, <4>2 DEF Good
    <3> HIDE DEF r, q, x
    <3>4. \A y : (\E j \in 1..Len(r) : r[j] = y) <=> y \in K /\ \E j \in 1..(i + 1) : ids[j] = y
      BY <2>4, <2>6, <2>8, <3>2
    <3>5. Len(r) <= i + 1
      BY <2>5, <3>1
    <3>6. Good(i + 1, r)
      BY <3>1, <3>3, <3>4, <3>5 DEF Good
    <3> QED
      BY <2>3, <2>8, <3>6 DEF r
  <2>9. CASE x \notin K
    <3>1. x \in ToSet(ids)
      BY <1>1, <2>2 DEF ToSet
    <3> HIDE DEF q, x
    <3>2. \A y : (\E j \in 1..Len(q) : q[j] = y) <=> y \in K /\ \E j \in 1..(i + 1) : ids[j] = y
      BY <2>4, <2>6, <2>9
    <3>3. Len(q) <= i + 1
      BY <2>5
    <3>4. Good(i + 1, q)
      BY <2>5, <2>9, <3>1, <3>2, <3>3 DEF Good
    <3> QED
      BY <2>3, <2>9, <3>4
  <2> QED
    BY <2>8, <2>9
<1>5. Nat \subseteq G
  <2> HIDE DEF G
  <2> QED
    BY <1>3, <1>4, SetInduction
<1>6. Good(n, Among(ids, K))
  <2>1. Good(n, f[n])
    BY <1>1, <1>5
  <2> QED
    BY <1>2, <2>1 DEF AmongBy, n
<1>7. SubSeq(ids, 1, n) = ids
  BY <1>1 DEF n
<1> DEFINE a == Among(ids, K)
<1> HIDE DEF a
<1>8. /\ a \in Seq(X) /\ Len(a) <= n
      /\ \A x : (\E j \in 1..Len(a) : a[j] = x) <=> x \in K /\ \E j \in 1..n : ids[j] = x
      /\ ToSet(ids) \subseteq K => a = ids
  BY <1>6, <1>7 DEF Good, a
<1>9. ToSet(a) = {a[j] : j \in 1..Len(a)} /\ ToSet(ids) = {ids[j] : j \in 1..n}
  BY <1>1, <1>8, LengthIsDomain DEF ToSet
<1>10. ToSet(a) = ToSet(ids) \cap K
  BY <1>8, <1>9
<1> QED
  BY <1>8, <1>10 DEF a, n

(* A Set keeps its ids in their order and takes the new ones behind them.        *)
LearnBy(f, known, rows) ==
    /\ f[0] = known /\ f[Len(rows)] = Learn(known, rows)
    /\ \A i \in 1..Len(rows) :
          f[i] = IF Contains(f[i - 1], rows[i]) THEN f[i - 1] ELSE Append(f[i - 1], rows[i])

LEMMA LearnSteps ==
  ASSUME NEW X, NEW known \in Seq(X), NEW rows \in Seq(X)
  PROVE  \E f \in [0..Len(rows) -> Seq(X)] : LearnBy(f, known, rows)
<1> DEFINE n == Len(rows)
           S == Seq(X)
           next(q, x) == IF Contains(q, x) THEN q ELSE Append(q, x)
           step == [i \in 1..n |-> [q \in S |-> next(q, rows[i])]]
           body(g) == [T \in SUBSET (1..n) |->
                         IF T = {} THEN known ELSE next(g[T \ {Max(T)}], rows[Max(T)])]
           iter == CHOOSE g : g = body(g)
<1>1. n \in Nat /\ known \in S /\ DOMAIN rows = 1..n /\ \A i \in 1..n : rows[i] \in X
  BY LengthIsDomain
<1>2. \A x \in X, q \in S : next(q, x) \in S
  OBVIOUS
<1>3. Learn(known, rows) = iter[1..n]
  BY <1>1 DEF Learn, FoldLeft, MapThenFoldSet
<1> HIDE DEF n, S, next
<1>4. step \in [1..n -> [S -> S]] /\ \A i \in 1..n, q \in S : step[i][q] = next(q, rows[i])
  BY <1>1, <1>2
<1> HIDE DEF step, body, iter
<1>5. PICK g \in [SUBSET (1..n) -> S] : FoldsBy(g, known, n, step)
  BY <1>1, <1>4, FoldsExist, Zenon
<1>6. \A T \in SUBSET (1..n) : T # {} => Max(T) \in 1..n /\ T \ {Max(T)} \in SUBSET (1..n)
  BY <1>1, LastIndex
<1>7. g = body(g)
  <2>1. \A T \in SUBSET (1..n) :
            g[T] = IF T = {} THEN known ELSE next(g[T \ {Max(T)}], rows[Max(T)])
    BY <1>4, <1>5, <1>6 DEF FoldsBy
  <2>2. g = [T \in SUBSET (1..n) |-> g[T]]
    OBVIOUS
  <2> QED
    BY <2>1, <2>2 DEF body
<1>8. iter = body(iter)
  BY <1>7 DEF iter
<1> DEFINE f == [i \in 0..n |-> iter[1..i]]
<1>9. f[0] = known
  <2>1. 1..0 = {} /\ {} \in SUBSET (1..n) /\ 0 \in 0..n
    BY <1>1
  <2> QED
    BY <1>8, <2>1 DEF body
<1>10. ASSUME NEW i \in 1..n PROVE f[i] = next(f[i - 1], rows[i])
  <2>1. /\ 1..i \in SUBSET (1..n) /\ 1..i # {} /\ Max(1..i) = i
        /\ i \in 0..n /\ i - 1 \in 0..n /\ (1..i) \ {i} = 1..(i - 1)
    BY <1>1, Prefix
  <2> QED
    BY <1>8, <2>1 DEF body
<1> HIDE DEF f
<1>11. \A i \in 0..n : f[i] \in S
  <2>1. f[0] \in S
    BY <1>1, <1>9
  <2>2. \A i \in 1..n : f[i - 1] \in S => f[i] \in S
    BY <1>1, <1>2, <1>10
  <2> QED
    BY <1>1, <2>1, <2>2, IterationStays
<1>12. f \in [0..n -> S] /\ f[n] = Learn(known, rows)
  <2>1. f = [i \in 0..n |-> f[i]]
    BY DEF f
  <2>2. n \in 0..n
    BY <1>1
  <2> QED
    BY <1>3, <1>11, <2>1, <2>2 DEF f
<1>13. LearnBy(f, known, rows)
  BY <1>9, <1>10, <1>12 DEF LearnBy, n, next
<1> QED
  BY <1>12, <1>13 DEF n, S

TakesUp(ids, first, more) ==
    /\ Len(ids) \in Len(first)..(Len(first) + Len(more))
    /\ \A j \in 1..Len(first) : ids[j] = first[j]
    /\ \A i \in 1..Len(more) : \E k \in 1..Len(ids) : ids[k] = more[i]

LEMMA LearnAppends ==
  ASSUME NEW X, NEW known \in Seq(X), NEW rows \in Seq(X)
  PROVE  Learn(known, rows) \in Seq(X) /\ TakesUp(Learn(known, rows), known, rows)
<1> DEFINE n == Len(rows)
           Good(i, q) == /\ q \in Seq(X) /\ Len(q) \in Len(known)..(Len(known) + i)
                         /\ \A j \in 1..Len(known) : q[j] = known[j]
                         /\ \A m \in 1..i : \E j \in 1..Len(q) : q[j] = rows[m]
<1> HIDE DEF Good
<1>1. DOMAIN rows = 1..n /\ n \in Nat /\ (\A i \in 1..n : rows[i] \in X) /\ Len(known) \in Nat
  BY LengthIsDomain
<1>2. PICK f \in [0..n -> Seq(X)] : LearnBy(f, known, rows)
  BY LearnSteps
<1> HIDE DEF n
<1> DEFINE G == {i \in Nat : i <= n => Good(i, f[i])}
<1>3. 0 \in G
  <2>1. Good(0, known)
    BY <1>1 DEF Good
  <2> QED
    BY <1>2, <2>1 DEF LearnBy
<1>4. ASSUME NEW i \in Nat, i \in G PROVE i + 1 \in G
  <2> SUFFICES ASSUME i + 1 <= n PROVE Good(i + 1, f[i + 1])
    OBVIOUS
  <2> DEFINE q == f[i]
             x == rows[i + 1]
  <2>1. Good(i, q)
    BY <1>1, <1>4
  <2>2. i + 1 \in 1..n /\ (i + 1) - 1 = i /\ x \in X
    BY <1>1
  <2>3. f[i + 1] = IF Contains(q, x) THEN q ELSE Append(q, x)
    BY <1>2, <2>2 DEF LearnBy, n
  <2>4. 1..(i + 1) = 1..i \cup {i + 1}
    OBVIOUS
  <2>5. q \in Seq(X) /\ Len(q) \in Nat /\ Len(q) \in Len(known)..(Len(known) + i)
        /\ (\A j \in 1..Len(known) : q[j] = known[j])
        /\ \A m \in 1..i : \E j \in 1..Len(q) : q[j] = rows[m]
    BY <2>1 DEF Good
  <2>6. CASE Contains(q, x)
    <3>1. \E j \in 1..Len(q) : q[j] = x
      BY <2>6 DEF Contains
    <3> HIDE DEF q
    <3>2. \A m \in 1..(i + 1) : \E j \in 1..Len(q) : q[j] = rows[m]
      BY <2>4, <2>5, <3>1
    <3>3. Len(q) \in Len(known)..(Len(known) + (i + 1))
      BY <1>1, <2>5
    <3>4. Good(i + 1, q)
      BY <2>5, <3>2, <3>3 DEF Good
    <3> QED
      BY <2>3, <2>6, <3>4
  <2>7. CASE ~Contains(q, x)
    <3> DEFINE r == Append(q, x)
    <3> HIDE DEF q
    <3>1. r \in Seq(X) /\ Len(r) = Len(q) + 1 /\ r[Len(q) + 1] = x /\ \A j \in 1..Len(q) : r[j] = q[j]
      BY <2>2, <2>5
    <3> HIDE DEF r
    <3>2. \A m \in 1..(i + 1) : \E j \in 1..Len(r) : r[j] = rows[m]
      <4>1. Len(q) + 1 \in 1..Len(r) /\ \A j \in 1..Len(q) : j \in 1..Len(r)
        BY <2>5, <3>1
      <4>2. \A m \in 1..i : \E j \in 1..Len(r) : r[j] = rows[m]
        BY <2>5, <3>1, <4>1
      <4>3. \E j \in 1..Len(r) : r[j] = rows[i + 1]
        BY <3>1, <4>1
      <4> QED
        BY <2>4, <4>2, <4>3
    <3>3. Len(r) \in Len(known)..(Len(known) + (i + 1))
      BY <1>1, <2>5, <3>1
    <3>4. \A j \in 1..Len(known) : r[j] = known[j]
      BY <1>1, <2>5, <3>1
    <3>5. Good(i + 1, r)
      BY <3>1, <3>2, <3>3, <3>4 DEF Good
    <3> QED
      BY <2>3, <2>7, <3>5 DEF r
  <2> QED
    BY <2>6, <2>7
<1>5. Nat \subseteq G
  <2> HIDE DEF G
  <2> QED
    BY <1>3, <1>4, SetInduction
<1>6. Good(n, f[n])
  BY <1>1, <1>5
<1>7. f[n] = Learn(known, rows)
  BY <1>2 DEF LearnBy, n
<1>8. f[n] \in Seq(X) /\ TakesUp(f[n], known, rows)
  BY <1>6 DEF Good, TakesUp, n
<1> QED
  BY <1>7, <1>8

(* The buffer of a router after a row is pushed, or rows of the database.        *)
Buffers(X) == {q \in Seq(X) : Len(q) <= BufferMax}

LEMMA CapKeeps ==
  ASSUME NEW X, NEW q \in Seq(X)
  PROVE  Capped(q) \in Buffers(X)
BY BufferMaxAssumption DEF Capped, Buffers

LEMMA PushKeeps ==
  ASSUME NEW X, NEW q \in Buffers(X), NEW x \in X
  PROVE  Pushed(q, x) \in Buffers(X)
<1>1. q \in Seq(X)
  BY DEF Buffers
<1>2. <<x>> \o q \in Seq(X)
  BY <1>1
<1> QED
  BY <1>2, CapKeeps DEF Pushed

LEMMA SeedKeeps ==
  ASSUME NEW X, NEW q \in Buffers(X), NEW rows \in Seq(X)
  PROVE  Seeded(q, rows) \in Buffers(X)
BY CapKeeps DEF Seeded

LEMMA PushesKeep ==
  ASSUME NEW X, NEW cur \in Buffers(X), NEW rows \in Seq(X)
  PROVE  FoldLeft(Pushed, cur, rows) \in Buffers(X)
<1> DEFINE n == Len(rows)
           S == Buffers(X)
           step == [i \in 1..n |-> [q \in S |-> Pushed(q, rows[i])]]
           body(g) == [T \in SUBSET (1..n) |->
                         IF T = {} THEN cur ELSE Pushed(g[T \ {Max(T)}], rows[Max(T)])]
           iter == CHOOSE g : g = body(g)
<1>1. n \in Nat /\ cur \in S /\ DOMAIN rows = 1..n /\ \A i \in 1..n : rows[i] \in X
  BY LengthIsDomain
<1>2. \A x \in X, q \in S : Pushed(q, x) \in S
  BY PushKeeps
<1>3. FoldLeft(Pushed, cur, rows) = iter[1..n]
  BY <1>1 DEF FoldLeft, MapThenFoldSet
<1> HIDE DEF n, S
<1>4. step \in [1..n -> [S -> S]] /\ \A i \in 1..n, q \in S : step[i][q] = Pushed(q, rows[i])
  BY <1>1, <1>2
<1> HIDE DEF step, body, iter
<1>5. PICK g \in [SUBSET (1..n) -> S] : FoldsBy(g, cur, n, step)
  BY <1>1, <1>4, FoldsExist, Zenon
<1>6. \A T \in SUBSET (1..n) : T # {} => Max(T) \in 1..n /\ T \ {Max(T)} \in SUBSET (1..n)
  BY <1>1, LastIndex
<1>7. g = body(g)
  <2>1. \A T \in SUBSET (1..n) :
            g[T] = IF T = {} THEN cur ELSE Pushed(g[T \ {Max(T)}], rows[Max(T)])
    BY <1>4, <1>5, <1>6 DEF FoldsBy
  <2>2. g = [T \in SUBSET (1..n) |-> g[T]]
    OBVIOUS
  <2> QED
    BY <2>1, <2>2 DEF body
<1>8. iter = body(iter)
  BY <1>7 DEF iter
<1> DEFINE f == [i \in 0..n |-> iter[1..i]]
<1>9. f[0] = cur
  <2>1. 1..0 = {} /\ {} \in SUBSET (1..n) /\ 0 \in 0..n
    BY <1>1
  <2> QED
    BY <1>8, <2>1 DEF body
<1>10. ASSUME NEW i \in 1..n PROVE f[i] = Pushed(f[i - 1], rows[i])
  <2>1. /\ 1..i \in SUBSET (1..n) /\ 1..i # {} /\ Max(1..i) = i
        /\ i \in 0..n /\ i - 1 \in 0..n /\ (1..i) \ {i} = 1..(i - 1)
    BY <1>1, Prefix
  <2> QED
    BY <1>8, <2>1 DEF body
<1>11. n \in 0..n /\ f[n] = iter[1..n]
  BY <1>1
<1> HIDE DEF f
<1>12. \A i \in 0..n : f[i] \in S
  <2>1. f[0] \in S
    BY <1>1, <1>9
  <2>2. \A i \in 1..n : f[i - 1] \in S => f[i] \in S
    BY <1>1, <1>2, <1>10
  <2> QED
    BY <1>1, <2>1, <2>2, IterationStays
<1> QED
  BY <1>3, <1>11, <1>12 DEF S

(* The id a page polls from: a natural number, and no id of the answer is above it. *)
LEMMA TopRow ==
  ASSUME NEW rows \in Seq(Nat), rows # <<>>
  PROVE  \E m \in 1..Len(rows) : \A j \in 1..Len(rows) : rows[j] <= rows[m]
<1> DEFINE n == Len(rows)
           Top(i) == \E m \in 1..i : \A j \in 1..i : rows[j] <= rows[m]
           G == {i \in Nat : i + 1 <= n => Top(i + 1)}
<1>1. n \in Nat \ {0} /\ \A i \in 1..n : rows[i] \in Nat
  BY LengthIsDomain
<1> HIDE DEF n
<1>2. 0 \in G
  <2>1. 1..1 = {1} /\ 0 + 1 = 1 /\ rows[1] \in Nat
    BY <1>1
  <2> QED
    BY <2>1
<1>3. ASSUME NEW i \in Nat, i \in G PROVE i + 1 \in G
  <2> SUFFICES ASSUME (i + 1) + 1 <= n PROVE Top((i + 1) + 1)
    OBVIOUS
  <2>1. Top(i + 1)
    BY <1>1, <1>3
  <2>2. PICK m \in 1..(i + 1) : \A j \in 1..(i + 1) : rows[j] <= rows[m]
    BY <2>1
  <2>3. 1..((i + 1) + 1) = 1..(i + 1) \cup {(i + 1) + 1}
    OBVIOUS
  <2>4. rows[m] \in Nat /\ rows[(i + 1) + 1] \in Nat /\ \A j \in 1..(i + 1) : rows[j] \in Nat
    BY <1>1
  <2>5. CASE rows[(i + 1) + 1] <= rows[m]
    BY <2>2, <2>3, <2>5
  <2>6. CASE rows[m] < rows[(i + 1) + 1]
    <3>1. \A j \in 1..(i + 1) : rows[j] <= rows[(i + 1) + 1]
      BY <2>2, <2>4, <2>6
    <3> QED
      BY <2>3, <2>4, <3>1
  <2>7. rows[(i + 1) + 1] <= rows[m] \/ rows[m] < rows[(i + 1) + 1]
    BY <2>4
  <2> QED
    BY <2>5, <2>6, <2>7
<1>4. Nat \subseteq G
  <2> HIDE DEF G
  <2> QED
    BY <1>2, <1>3, SetInduction
<1>5. n - 1 \in Nat /\ (n - 1) + 1 = n
  BY <1>1
<1>6. Top(n)
  <2> HIDE DEF Top
  <2> QED
    BY <1>1, <1>4, <1>5
<1> QED
  BY <1>6 DEF n

LEMMA LargestIsAbove ==
  ASSUME NEW a \in Nat, NEW rows \in Seq(Nat)
  PROVE  /\ Largest(a, ToSet(rows)) \in Nat /\ a <= Largest(a, ToSet(rows))
         /\ \A j \in 1..Len(rows) : rows[j] <= Largest(a, ToSet(rows))
<1> DEFINE S == ToSet(rows)
<1>1. DOMAIN rows = 1..Len(rows) /\ \A j \in 1..Len(rows) : rows[j] \in Nat /\ rows[j] \in S
  BY LengthIsDomain DEF ToSet
<1>2. CASE S = {}
  <2>1. 1..Len(rows) = {}
    BY <1>1, <1>2
  <2> QED
    BY <1>2, <2>1 DEF Largest
<1>3. CASE S # {}
  <2>1. rows # <<>>
    BY <1>3 DEF ToSet
  <2>2. PICK m \in 1..Len(rows) : \A j \in 1..Len(rows) : rows[j] <= rows[m]
    BY <2>1, TopRow
  <2>3. \A x \in S : x <= rows[m]
    BY <1>1, <2>2 DEF ToSet
  <2> DEFINE top == CHOOSE t \in S : \A x \in S : x <= t
  <2>4. top \in S /\ \A x \in S : x <= top
    BY <1>1, <2>2, <2>3
  <2>5. \A x \in S : x \in Nat
    BY <1>1 DEF ToSet
  <2>6. Largest(a, S) = IF top > a THEN top ELSE a
    BY <1>3 DEF Largest
  <2> HIDE DEF top, S
  <2> QED
    BY <1>1, <2>4, <2>5, <2>6 DEF S
<1> QED
  BY <1>2, <1>3

(* An answer has at most PageSize rows, of those read.                          *)
LEMMA AnswerIsOfRows ==
  ASSUME NEW X, NEW rows \in Seq(X)
  PROVE  FirstRows(rows) \in Seq(X) /\ Len(FirstRows(rows)) <= PageSize
BY StreamAssumption DEF FirstRows

(* A page that knows too much forgets what it learnt first.                     *)
LEMMA TrimKeepsTheLast ==
  ASSUME NEW X, NEW known \in Seq(X)
  PROVE  /\ Trimmed(known) \in Seq(X) /\ Len(Trimmed(known)) \in 0..Len(known)
         /\ \A k \in 1..Len(known) :
               k > Len(known) - KnownKeep =>
                   \E i \in 1..Len(Trimmed(known)) :
                       /\ Trimmed(known)[i] = known[k]
                       /\ Len(Trimmed(known)) - i = Len(known) - k
<1>1. Len(known) \in Nat /\ KnownKeep \in Nat \ {0} /\ KnownMax \in Nat \ {0}
  BY StreamAssumption
<1> DEFINE kept == Trimmed(known)
           L == Len(known)
           d == IF L > KnownKeep THEN L - KnownKeep ELSE 0
<1> DEFINE KeepsLast == /\ kept \in Seq(X) /\ Len(kept) \in 0..L
                   /\ \A k \in 1..L : k > L - KnownKeep =>
                         \E i \in 1..Len(kept) : kept[i] = known[k] /\ Len(kept) - i = L - k
<1> HIDE DEF kept
<1>2. ASSUME kept = known PROVE KeepsLast
  <2>1. \A k \in 1..L : k \in 1..Len(kept) /\ kept[k] = known[k]
    BY <1>2
  <2> QED
    BY <1>1, <1>2, <2>1
<1>3. ASSUME kept = SubSeq(known, d + 1, L), L > 0 PROVE KeepsLast
  <2>1. d \in Nat /\ d < L /\ (L > KnownKeep => d = L - KnownKeep) /\ (~ (L > KnownKeep) => d = 0)
    BY <1>1, <1>3
  <2> HIDE DEF d
  <2>2. /\ kept \in Seq(X) /\ Len(kept) = L - d
        /\ \A i \in 1..(L - d) : kept[i] = known[d + i]
    BY <1>1, <1>3, <2>1
  <2> HIDE DEF L
  <2>3. ASSUME NEW k \in 1..L, k > L - KnownKeep
        PROVE  \E i \in 1..Len(kept) : kept[i] = known[k] /\ Len(kept) - i = L - k
    <3>1. k - d \in 1..(L - d) /\ d + (k - d) = k /\ (L - d) - (k - d) = L - k
      BY <1>1, <2>1, <2>3 DEF L
    <3> QED
      BY <2>2, <3>1
  <2>4. Len(kept) \in 0..L
    BY <1>1, <2>1, <2>2 DEF L
  <2> QED
    BY <2>2, <2>3, <2>4 DEF L
<1>4. kept = known \/ (kept = SubSeq(known, d + 1, L) /\ L > 0)
  <2>1. L > KnownMax => kept = SubSeq(known, IF L > KnownKeep THEN L - KnownKeep + 1 ELSE 1, L)
    BY DEF Trimmed, kept
  <2>2. d + 1 = IF L > KnownKeep THEN L - KnownKeep + 1 ELSE 1
    BY <1>1
  <2>3. ~ (L > KnownMax) => kept = known
    BY DEF Trimmed, kept
  <2>4. L > KnownMax => L > 0
    BY <1>1
  <2> HIDE DEF d, L
  <2> QED
    BY <2>1, <2>2, <2>3, <2>4
<1> QED
  BY <1>2, <1>3, <1>4 DEF kept

(* The rows a page shows are among the ids it learnt last, the newest row among   *)
(* the last PageSize: that is why forgetting the first ids forgets no row shown.  *)
Recognises(rows, known) ==
    \A j \in 1..Len(rows) : \E k \in 1..Len(known) :
        known[k] = rows[j] /\ k + j + PageSize > Len(known) + 1

LEMMA AllLearntAreRecognised ==
  ASSUME NEW none \in Seq(Nat), Len(none) = 0, NEW rows \in Seq(Nat), Len(rows) <= PageSize,
         NEW known \in Seq(Nat), TakesUp(known, none, rows)
  PROVE  Recognises(rows, known)
<1>1. /\ Len(known) \in Len(none)..(Len(none) + Len(rows))
      /\ \A j \in 1..Len(rows) : \E k \in 1..Len(known) : known[k] = rows[j]
  BY DEF TakesUp
<1>2. PageSize \in Nat /\ Len(rows) \in Nat /\ Len(known) \in Nat
  BY StreamAssumption
<1>3. Len(known) <= PageSize
  BY <1>1, <1>2
<1>4. \A j \in 1..Len(rows), k \in 1..Len(known) : k + j + PageSize > Len(known) + 1
  BY <1>2, <1>3
<1> QED
  BY <1>1, <1>4 DEF Recognises

LEMMA ReplacedIsRecognised ==
  ASSUME NEW rows \in Seq(Nat), Len(rows) <= PageSize
  PROVE  Learn(<<>>, rows) \in Seq(Nat) /\ Recognises(rows, Learn(<<>>, rows))
<1> DEFINE none == <<>>
           known == Learn(none, rows)
<1>1. none \in Seq(Nat) /\ Len(none) = 0
  OBVIOUS
<1> HIDE DEF none
<1>2. known \in Seq(Nat) /\ TakesUp(known, none, rows)
  BY <1>1, LearnAppends
<1> HIDE DEF known
<1>3. Recognises(rows, known)
  BY <1>1, <1>2, AllLearntAreRecognised
<1> QED
  BY <1>2, <1>3 DEF known, none

AreNew(fresh, known) == \A i \in 1..Len(fresh), k \in 1..Len(known) : fresh[i] # known[k]
InFront(shown, fresh, rows) ==
    /\ Len(shown) <= Len(fresh) + Len(rows)
    /\ \A j \in 1..Len(shown) :
          shown[j] = IF j <= Len(fresh) THEN fresh[j] ELSE rows[j - Len(fresh)]

LEMMA NewRowsLeaveRoom ==
  ASSUME NEW rows \in Seq(Nat), NEW known \in Seq(Nat), NEW fresh \in Seq(Nat),
         NEW shown \in Seq(Nat), NEW learnt \in Seq(Nat),
         Len(fresh) <= PageSize, Recognises(rows, known), TakesUp(learnt, known, fresh),
         AreNew(fresh, known), InFront(shown, fresh, rows)
  PROVE  Recognises(shown, learnt)
<1> DEFINE F == Len(fresh)
           K == Len(known)
           R == Len(rows)
           L == Len(learnt)
<1>1. PageSize \in Nat
  BY StreamAssumption
<1>2. F \in Nat /\ K \in Nat /\ R \in Nat /\ L \in Nat /\ Len(shown) \in Nat
  OBVIOUS
<1>3. F <= PageSize /\ K <= L /\ L <= K + F /\ Len(shown) <= F + R
  BY <1>2 DEF TakesUp, InFront
<1> SUFFICES ASSUME NEW j \in 1..Len(shown)
             PROVE  \E k \in 1..L : learnt[k] = shown[j] /\ k + j + PageSize > L + 1
  BY DEF Recognises
<1>4. j \in Nat /\ j >= 1 /\ j <= F + R
  BY <1>2, <1>3
<1>5. CASE j <= F
  <2>1. j \in 1..F /\ shown[j] = fresh[j]
    BY <1>2, <1>4, <1>5 DEF InFront
  <2>2. PICK k \in 1..L : learnt[k] = fresh[j]
    BY <2>1 DEF TakesUp
  <2>3. k \in Nat /\ k >= 1 /\ ~ (k <= K)
    <3>1. k \in Nat /\ k >= 1
      BY <1>2
    <3>2. k <= K => k \in 1..K
      BY <1>2, <3>1
    <3> QED
      BY <2>1, <2>2, <3>1, <3>2 DEF AreNew, TakesUp
  <2> HIDE DEF F, K, L
  <2>4. k + j + PageSize > L + 1
    BY <1>1, <1>2, <1>3, <1>4, <2>3
  <2> QED
    BY <2>1, <2>2, <2>4
<1>6. CASE ~ (j <= F)
  <2>1. j - F \in 1..R /\ shown[j] = rows[j - F]
    BY <1>2, <1>4, <1>6 DEF InFront
  <2>2. PICK k \in 1..K : known[k] = rows[j - F] /\ k + (j - F) + PageSize > K + 1
    BY <2>1 DEF Recognises
  <2>3. k \in 1..L /\ learnt[k] = known[k] /\ k \in Nat
    BY <1>2, <1>3 DEF TakesUp
  <2> HIDE DEF F, K, L
  <2>4. k + j + PageSize > L + 1
    BY <1>1, <1>2, <1>3, <1>4, <2>2, <2>3
  <2> QED
    BY <2>1, <2>2, <2>3, <2>4
<1> QED
  BY <1>5, <1>6

LEMMA TrimmingForgetsNoRow ==
  ASSUME NEW shown \in Seq(Nat), Len(shown) <= ShownMax,
         NEW learnt \in Seq(Nat), Recognises(shown, learnt)
  PROVE  Trimmed(learnt) \in Seq(Nat) /\ Recognises(shown, Trimmed(learnt))
<1> DEFINE after == Trimmed(learnt)
           L == Len(learnt)
           A == Len(after)
<1> HIDE DEF after
<1>1. {ShownMax, PageSize, KnownKeep} \subseteq Nat /\ ShownMax + PageSize <= KnownKeep + 1
  BY StreamAssumption
<1>2. /\ after \in Seq(Nat) /\ A \in 0..L
      /\ \A k \in 1..L : k > L - KnownKeep =>
            \E i \in 1..A : after[i] = learnt[k] /\ A - i = L - k
  BY TrimKeepsTheLast DEF after
<1>3. L \in Nat /\ A \in Nat /\ Len(shown) \in Nat
  BY <1>2
<1>4. Recognises(shown, after)
  <2> SUFFICES ASSUME NEW j \in 1..Len(shown)
               PROVE  \E i \in 1..A : after[i] = shown[j] /\ i + j + PageSize > A + 1
    BY DEF Recognises
  <2>1. PICK k \in 1..L : learnt[k] = shown[j] /\ k + j + PageSize > L + 1
    BY DEF Recognises
  <2>2. j \in Nat /\ j <= ShownMax /\ k \in Nat
    BY <1>1, <1>3
  <2> HIDE DEF L, A
  <2>3. k > L - KnownKeep
    BY <1>1, <1>3, <2>1, <2>2
  <2>4. PICK i \in 1..A : after[i] = learnt[k] /\ A - i = L - k
    BY <1>2, <2>3
  <2>5. i + j + PageSize > A + 1
    BY <1>1, <1>3, <2>1, <2>2, <2>4
  <2> QED
    BY <2>1, <2>4, <2>5
<1> QED
  BY <1>2, <1>4 DEF after

LEMMA Joined ==
  ASSUME NEW fresh \in Seq(Nat), NEW rows \in Seq(Nat), NEW all, all = fresh \o rows
  PROVE  /\ all \in Seq(Nat) /\ Len(all) = Len(fresh) + Len(rows)
         /\ \A j \in 1..Len(all) :
               all[j] = IF j <= Len(fresh) THEN fresh[j] ELSE rows[j - Len(fresh)]
OBVIOUS

LEMMA Shown ==
  ASSUME NEW all \in Seq(Nat), NEW shown,
         shown = SubSeq(all, 1, IF Len(all) > ShownMax THEN ShownMax ELSE Len(all))
  PROVE  /\ shown \in Seq(Nat) /\ Len(shown) <= ShownMax /\ Len(shown) <= Len(all)
         /\ \A j \in 1..Len(shown) : shown[j] = all[j]
<1>1. ShownMax \in Nat /\ Len(all) \in Nat
  BY StreamAssumption
<1>2. CASE Len(all) > ShownMax
  <2>1. shown = SubSeq(all, 1, ShownMax)
    BY <1>2
  <2> QED
    BY <1>1, <1>2, <2>1
<1>3. CASE ~ (Len(all) > ShownMax)
  <2>1. shown = SubSeq(all, 1, Len(all))
    BY <1>3
  <2>2. shown = all
    BY <2>1
  <2> QED
    BY <1>1, <1>3, <2>2
<1> QED
  BY <1>2, <1>3

MergeOf(g, incoming, after, shown) ==
    /\ Merged(g, incoming) = [g EXCEPT !.known = after, !.rows = shown]
    /\ Recognises(shown, after)
    /\ \A j \in 1..Len(shown) : shown[j] \in ToSet(incoming) \cup ToSet(g.rows)

LEMMA MergedIsRecognised ==
  ASSUME NEW g \in PageType, NEW incoming \in Seq(Nat), Len(incoming) <= PageSize,
         Recognises(g.rows, g.known)
  PROVE  \/ Merged(g, incoming) = g
         \/ \E after \in Seq(Nat), shown \in Seq(Nat) : MergeOf(g, incoming, after, shown)
<1> DEFINE rows == g.rows
           known == g.known
           fresh == Among(incoming, ToSet(incoming) \ ToSet(known))
           kept == Among(rows, ToSet(rows) \ ToSet(fresh))
           all == fresh \o kept
           learnt == Learn(known, fresh)
           after == Trimmed(learnt)
           shown == SubSeq(all, 1, IF Len(all) > ShownMax THEN ShownMax ELSE Len(all))
<1>1. rows \in Seq(Nat) /\ known \in Seq(Nat) /\ Recognises(rows, known)
  BY DEF PageType
<1>2. Merged(g, incoming) = IF fresh = <<>> THEN g ELSE [g EXCEPT !.known = after, !.rows = shown]
  BY DEF Merged
<1> HIDE DEF rows, known
<1>3. /\ fresh \in Seq(Nat) /\ Len(fresh) <= Len(incoming)
      /\ ToSet(fresh) = ToSet(incoming) \cap (ToSet(incoming) \ ToSet(known))
  BY AmongKeeps
<1> HIDE DEF fresh
<1>4. Len(fresh) <= PageSize
  BY <1>3, StreamAssumption
<1>5. ToSet(fresh) \cap ToSet(known) = {} /\ ToSet(fresh) \subseteq ToSet(incoming)
  BY <1>3
<1>6. /\ \A i \in 1..Len(fresh) : fresh[i] \in ToSet(fresh)
      /\ \A i \in 1..Len(known) : known[i] \in ToSet(known)
  BY <1>1, <1>3, LengthIsDomain DEF ToSet
<1>7. kept = rows
  <2>1. ToSet(rows) = {rows[j] : j \in 1..Len(rows)}
    BY <1>1, LengthIsDomain DEF ToSet
  <2>2. \A j \in 1..Len(rows) : rows[j] \in ToSet(known)
    BY <1>1, <1>6, Zenon DEF Recognises
  <2>3. ToSet(rows) \subseteq ToSet(rows) \ ToSet(fresh)
    BY <1>5, <2>1, <2>2
  <2> QED
    BY <1>1, <2>3, AmongKeeps
<1> HIDE DEF kept
<1>8. /\ all \in Seq(Nat) /\ Len(all) = Len(fresh) + Len(rows)
      /\ \A j \in 1..Len(all) :
            all[j] = IF j <= Len(fresh) THEN fresh[j] ELSE rows[j - Len(fresh)]
  BY <1>1, <1>3, <1>7, Joined
<1>9. /\ shown \in Seq(Nat) /\ Len(shown) <= ShownMax /\ Len(shown) <= Len(all)
      /\ \A j \in 1..Len(shown) : shown[j] = all[j]
  BY <1>8, Shown
<1>10. learnt \in Seq(Nat) /\ TakesUp(learnt, known, fresh)
  BY <1>1, <1>3, LearnAppends
<1>11. \A i \in 1..Len(fresh), k \in 1..Len(known) : fresh[i] # known[k]
  BY <1>6, <1>5
<1> HIDE DEF all, learnt, shown
<1>12. \A j \in 1..Len(shown) : j \in 1..Len(all) /\ Len(all) \in Nat
  BY <1>8, <1>9
<1>13. \A j \in 1..Len(shown) :
         shown[j] = IF j <= Len(fresh) THEN fresh[j] ELSE rows[j - Len(fresh)]
  BY <1>8, <1>9, <1>12
<1>14. Recognises(shown, learnt)
  <2>1. Len(shown) <= Len(fresh) + Len(rows)
    BY <1>8, <1>9
  <2>2. AreNew(fresh, known)
    BY <1>11 DEF AreNew
  <2>3. InFront(shown, fresh, rows)
    BY <1>13, <2>1 DEF InFront
  <2> QED
    BY <1>1, <1>3, <1>4, <1>9, <1>10, <2>2, <2>3, NewRowsLeaveRoom
<1>15. after \in Seq(Nat) /\ Recognises(shown, after)
  BY <1>9, <1>10, <1>14, TrimmingForgetsNoRow
<1>16. ASSUME NEW j \in 1..Len(shown) PROVE shown[j] \in ToSet(incoming) \cup ToSet(rows)
  <2>1. Len(fresh) \in Nat /\ Len(rows) \in Nat /\ j \in 1..(Len(fresh) + Len(rows))
    BY <1>1, <1>3, <1>8, <1>12
  <2>2. j \in 1..Len(fresh) \/ (~ (j <= Len(fresh)) /\ j - Len(fresh) \in 1..Len(rows))
    BY <2>1
  <2>3. j \in 1..Len(fresh) => j <= Len(fresh)
    BY <2>1
  <2>4. \A i \in 1..Len(rows) : rows[i] \in ToSet(rows)
    BY <1>1, LengthIsDomain DEF ToSet
  <2> QED
    BY <1>6, <1>5, <1>13, <2>2, <2>3, <2>4
<1> HIDE DEF after
<1>17. fresh = <<>> \/ MergeOf(g, incoming, after, shown)
  BY <1>2, <1>15, <1>16 DEF MergeOf, rows
<1> QED
  BY <1>2, <1>9, <1>15, <1>17

(* A page after an answer.                                                     *)
Knows(g) ==
    /\ \A j \in 1..Len(g.rows) : g.rows[j] <= g.newest
    /\ Recognises(g.rows, g.known)

LEMMA LoadedKnows ==
  ASSUME NEW g \in PageType, NEW mode, NEW incoming \in Seq(Nat), Len(incoming) <= PageSize,
         Knows(g)
  PROVE  Loaded(g, mode, incoming) \in PageType /\ Knows(Loaded(g, mode, incoming))
<1> DEFINE top == Newest(g, incoming)
           n == [g EXCEPT !.newest = top]
<1>1. g.newest \in Nat /\ g.rows \in Seq(Nat) /\ g.known \in Seq(Nat)
  BY DEF PageType
<1>2. top \in Nat /\ g.newest <= top /\ \A j \in 1..Len(incoming) : incoming[j] <= top
  BY <1>1, LargestIsAbove DEF Newest
<1> HIDE DEF top
<1>3. n \in PageType /\ n.newest = top /\ n.rows = g.rows /\ n.known = g.known
  BY <1>2 DEF PageType
<1> HIDE DEF n
<1>4. \A j \in 1..Len(g.rows) : g.rows[j] <= top
  <2>1. \A j \in 1..Len(g.rows) : g.rows[j] \in Nat /\ g.rows[j] <= g.newest
    BY <1>1, LengthIsDomain DEF Knows
  <2> QED
    BY <1>1, <1>2, <2>1
<1>5. Knows(n)
  BY <1>3, <1>4 DEF Knows
<1>6. Replaced(n, incoming) \in PageType /\ Knows(Replaced(n, incoming))
  <2> DEFINE known == Learn(<<>>, incoming)
             r == [n EXCEPT !.first = FALSE, !.known = known, !.rows = incoming]
  <2>1. known \in Seq(Nat) /\ Recognises(incoming, known)
    BY ReplacedIsRecognised
  <2>2. Replaced(n, incoming) = r
    BY DEF Replaced
  <2> HIDE DEF known
  <2>3. r \in PageType /\ r.newest = top /\ r.rows = incoming /\ r.known = known
    BY <1>3, <2>1 DEF PageType
  <2> HIDE DEF r
  <2>4. Knows(r)
    BY <1>2, <2>1, <2>3 DEF Knows
  <2> QED
    BY <2>2, <2>3, <2>4
<1>7. Merged(n, incoming) \in PageType /\ Knows(Merged(n, incoming))
  <2>1. CASE Merged(n, incoming) = n
    BY <1>3, <1>5, <2>1
  <2>2. ASSUME NEW after \in Seq(Nat), NEW shown \in Seq(Nat), MergeOf(n, incoming, after, shown)
        PROVE  Merged(n, incoming) \in PageType /\ Knows(Merged(n, incoming))
    <3> DEFINE r == [n EXCEPT !.known = after, !.rows = shown]
    <3>1. /\ Merged(n, incoming) = r /\ Recognises(shown, after)
          /\ \A j \in 1..Len(shown) : shown[j] \in ToSet(incoming) \cup ToSet(g.rows)
      BY <1>3, <2>2 DEF MergeOf
    <3>2. r \in PageType /\ r.newest = top /\ r.rows = shown /\ r.known = after
      BY <1>3 DEF PageType
    <3> HIDE DEF r
    <3>3. \A x \in ToSet(incoming) \cup ToSet(g.rows) : x <= top
      BY <1>1, <1>2, <1>4, LengthIsDomain DEF ToSet
    <3>4. Knows(r)
      BY <3>1, <3>2, <3>3 DEF Knows
    <3> QED
      BY <3>1, <3>2, <3>4
  <2>3. Recognises(n.rows, n.known)
    BY <1>5 DEF Knows
  <2> QED
    BY <1>3, <2>1, <2>2, <2>3, MergedIsRecognised
<1>8. Loaded(g, mode, incoming) \in {Replaced(n, incoming), Merged(n, incoming)}
  BY DEF Loaded, n, top
<1> QED
  BY <1>6, <1>7, <1>8

(* The invariant of the stream, in parts: what is on its way to a buffer is of    *)
(* the database and of that router, an answer is no longer than PageSize, and a   *)
(* page recognises what it shows.                                              *)
RowType == [server : Servers, at : Nat]
HandlerType == [server : Servers, at : Nat, id : Nat]
SpentType == [clicks : Nat, refreshes : Nat, losses : Nat, restarts : Nat, overlaps : Nat,
              crossed : Nat]
RowsIn(d, s) == {id \in DOMAIN d : d[id].server = s}

GoodHandlers(H, d) ==
    H \subseteq HandlerType /\ \A h \in H : h.id # 0 => h.id \in RowsIn(d, h.server)
GoodBuffers(b, d) ==
    b \in [Servers -> Seq(Nat)] /\ \A s \in Servers : b[s] \in Buffers(RowsIn(d, s))
GoodReq(r, d) ==
    /\ r \in ReqType
    /\ r.stage \in ServerStages => r.server \in Servers
    /\ Len(r.reply) <= PageSize
    /\ r.stage \in {"seed", "refill"} => r.reply \in Seq(RowsIn(d, r.server))
GoodReqs(R, d) == R \in [Pages -> ReqType] /\ \A p \in Pages : GoodReq(R[p], d)
GoodPage(g) == g \in PageType /\ Knows(g)
GoodPages(P) == P \in [Pages -> PageType] /\ \A p \in Pages : GoodPage(P[p])
StreamInv ==
    /\ issued \in Nat /\ db \in Seq(RowType) /\ spent \in SpentType
    /\ GoodHandlers(handlers, db) /\ GoodBuffers(buffer, db)
    /\ GoodReqs(req, db) /\ GoodPages(page)

LEMMA InvHasTypes == ASSUME StreamInv PROVE TypeOK
BY DEF StreamInv, TypeOK, GoodHandlers, GoodBuffers, GoodReqs, GoodReq, GoodPages,
       RowType, HandlerType, SpentType

(* Rows stay in the database.                                                  *)
LEMMA RowsStay ==
  ASSUME NEW d \in Seq(RowType), NEW x \in RowType, NEW s
  PROVE  /\ RowsIn(d, s) \subseteq RowsIn(Append(d, x), s)
         /\ RowsIn(d, s) \subseteq Nat \ {0}
         /\ Append(d, x) \in Seq(RowType)
         /\ Len(d) + 1 \in RowsIn(Append(d, x), x.server)
<1>1. DOMAIN d = 1..Len(d) /\ Len(d) \in Nat
  BY LengthIsDomain
<1>2. Append(d, x) \in Seq(RowType) /\ Len(Append(d, x)) = Len(d) + 1
  OBVIOUS
<1>3. DOMAIN Append(d, x) = 1..(Len(d) + 1)
  BY <1>2, LengthIsDomain
<1>4. Append(d, x)[Len(d) + 1] = x /\ \A i \in 1..Len(d) : Append(d, x)[i] = d[i]
  OBVIOUS
<1>5. Len(d) + 1 \in 1..(Len(d) + 1) /\ 1..Len(d) \subseteq 1..(Len(d) + 1)
      /\ 1..Len(d) \subseteq Nat \ {0}
  BY <1>1
<1> QED
  BY <1>1, <1>2, <1>3, <1>4, <1>5 DEF RowsIn

LEMMA SequencesGrow ==
  ASSUME NEW X, NEW Y, X \subseteq Y, NEW q \in Seq(X)
  PROVE  q \in Seq(Y)
OBVIOUS

LEMMA RowsAreNumbers ==
  ASSUME NEW d \in Seq(RowType), NEW s
  PROVE  RowsIn(d, s) \subseteq Nat /\ IsFiniteSet(RowsIn(d, s))
<1>1. DOMAIN d = 1..Len(d) /\ Len(d) \in Nat
  BY LengthIsDomain
<1>2. IsFiniteSet(1..Len(d))
  BY <1>1, FS_Interval
<1>3. RowsIn(d, s) \subseteq 1..Len(d)
  BY <1>1 DEF RowsIn
<1> QED
  BY <1>1, <1>2, <1>3, FS_Subset

LEMMA InsertKeeps == ASSUME StreamInv, NEW s \in Servers, Insert(s) PROVE StreamInv'
<1>1. issued + 1 \in Nat /\ [server |-> s, at |-> issued + 1, id |-> 0] \in HandlerType
  BY DEF StreamInv, HandlerType
<1>2. GoodHandlers(handlers', db)
  BY <1>1 DEF StreamInv, GoodHandlers, Insert
<1>3. spent' \in SpentType
  BY DEF StreamInv, SpentType, Insert
<1> QED
  BY <1>1, <1>2, <1>3 DEF StreamInv, Insert

LEMMA CommitKeeps == ASSUME StreamInv, NEW h \in handlers, Commit(h) PROVE StreamInv'
<1> DEFINE x == [server |-> h.server, at |-> h.at]
<1>1. db \in Seq(RowType) /\ h \in HandlerType /\ x \in RowType /\ db' = Append(db, x)
  BY DEF StreamInv, GoodHandlers, HandlerType, RowType, Commit
<1>2. \A s : /\ RowsIn(db, s) \subseteq RowsIn(db', s) /\ RowsIn(db', s) \subseteq Nat
             /\ db' \in Seq(RowType) /\ Len(db) + 1 \in RowsIn(db', h.server)
  <2>1. x.server = h.server /\ db' \in Seq(RowType)
    BY <1>1
  <2> HIDE DEF x
  <2> QED
    BY <1>1, <2>1, RowsStay, RowsAreNumbers
<1>3. GoodHandlers(handlers', db')
  <2>1. Len(db) + 1 \in Nat
    BY <1>1
  <2>2. [h EXCEPT !.id = Len(db) + 1] \in HandlerType
    BY <1>1, <2>1 DEF HandlerType
  <2>3. [h EXCEPT !.id = Len(db) + 1].id \in RowsIn(db', [h EXCEPT !.id = Len(db) + 1].server)
    BY <1>1, <1>2 DEF HandlerType
  <2> QED
    BY <1>2, <2>2, <2>3 DEF StreamInv, GoodHandlers, Commit
<1>4. GoodBuffers(buffer, db')
  <2> SUFFICES ASSUME NEW s \in Servers PROVE buffer[s] \in Buffers(RowsIn(db', s))
    BY DEF StreamInv, GoodBuffers
  <2>1. buffer[s] \in Seq(RowsIn(db, s)) /\ Len(buffer[s]) <= BufferMax
    BY DEF StreamInv, GoodBuffers, Buffers
  <2>2. buffer[s] \in Seq(RowsIn(db', s))
    BY <1>2, <2>1, SequencesGrow
  <2> QED
    BY <2>1, <2>2 DEF Buffers
<1>5. GoodReqs(req, db')
  <2> SUFFICES ASSUME NEW p \in Pages, req[p].stage \in {"seed", "refill"}
               PROVE  req[p].reply \in Seq(RowsIn(db', req[p].server))
    BY DEF StreamInv, GoodReqs, GoodReq
  <2>1. req[p].reply \in Seq(RowsIn(db, req[p].server))
    BY DEF StreamInv, GoodReqs, GoodReq
  <2> QED
    BY <1>2, <2>1, SequencesGrow
<1> QED
  BY <1>2, <1>3, <1>4, <1>5 DEF StreamInv, Commit

LEMMA BufferChanges ==
  ASSUME StreamInv, NEW s \in Servers, NEW b \in Buffers(RowsIn(db, s))
  PROVE  GoodBuffers([buffer EXCEPT ![s] = b], db)
<1>1. RowsIn(db, s) \subseteq Nat
  BY RowsAreNumbers DEF StreamInv
<1>2. b \in Seq(RowsIn(db, s))
  BY DEF Buffers
<1>3. b \in Seq(Nat)
  BY <1>1, <1>2, SequencesGrow
<1> QED
  BY <1>3 DEF StreamInv, GoodBuffers

LEMMA PushingKeeps == ASSUME StreamInv, NEW h \in handlers, Push(h) PROVE StreamInv'
<1>1. h \in HandlerType /\ h.id # 0 /\ h.id \in RowsIn(db, h.server)
  BY DEF StreamInv, GoodHandlers, Push
<1>2. h.server \in Servers
  BY <1>1 DEF HandlerType
<1>3. buffer[h.server] \in Buffers(RowsIn(db, h.server))
  BY <1>2 DEF StreamInv, GoodBuffers
<1>4. Pushed(buffer[h.server], h.id) \in Buffers(RowsIn(db, h.server))
  BY <1>1, <1>3, PushKeeps
<1>5. buffer' = [buffer EXCEPT ![h.server] = Pushed(buffer[h.server], h.id)]
  BY DEF Push
<1>6. GoodBuffers(buffer', db)
  BY <1>2, <1>4, <1>5, BufferChanges
<1>7. GoodHandlers(handlers', db)
  BY DEF StreamInv, GoodHandlers, Push
<1> QED
  BY <1>6, <1>7 DEF StreamInv, Push

(* The requests.                                                               *)
LEMMA RequestMoves ==
  ASSUME StreamInv, NEW p \in Pages, NEW r, GoodReq(r, db), req' = [req EXCEPT ![p] = r]
  PROVE  GoodReqs(req', db)
BY DEF StreamInv, GoodReqs, GoodReq

LEMMA NoReqIsGood == GoodReq(NoReq, db)
<1>1. <<>> \in Seq(Nat) /\ Len(<<>>) = 0 /\ PageSize \in Nat \ {0}
  BY StreamAssumption
<1> QED
  BY <1>1 DEF NoReq, GoodReq, ReqType, ServerStages

LEMMA AnswerIsGood ==
  ASSUME NEW r, GoodReq(r, db), NEW rows \in Seq(Nat)
  PROVE  GoodReq(Answer(r, rows), db)
<1>1. FirstRows(rows) \in Seq(Nat) /\ Len(FirstRows(rows)) <= PageSize
  BY AnswerIsOfRows
<1>2. /\ Answer(r, rows) \in ReqType /\ Answer(r, rows).stage = "answer"
      /\ Answer(r, rows).reply = FirstRows(rows)
  BY <1>1 DEF Answer, GoodReq, ReqType
<1> QED
  BY <1>1, <1>2 DEF GoodReq, ServerStages

LEMMA ReadBufferKeeps == ASSUME StreamInv, NEW p \in Pages, ReadBuffer(p) PROVE StreamInv'
<1> DEFINE r == req[p]
           rows == ReadAfter(buffer[r.server], r.after)
<1>1. GoodReq(r, db) /\ r \in ReqType /\ r.stage = "sent"
  BY DEF StreamInv, GoodReqs, GoodReq, ReadBuffer
<1>2. r.server \in Servers /\ Len(r.reply) <= PageSize
  BY <1>1 DEF GoodReq, ServerStages
<1>3. buffer[r.server] \in Seq(Nat)
  BY <1>2 DEF StreamInv, GoodBuffers
<1>4. rows \in Seq(Nat)
  BY <1>3, AmongKeeps DEF ReadAfter
<1>5. GoodReq(Answer(r, rows), db)
  BY <1>1, <1>4, AnswerIsGood
<1>6. ASSUME NEW st \in {"seeding", "refilling"} PROVE GoodReq([r EXCEPT !.stage = st], db)
  BY <1>1, <1>2 DEF GoodReq, ReqType, ServerStages
<1>7. \/ req' = [req EXCEPT ![p] = Answer(r, rows)]
      \/ \E st \in {"seeding", "refilling"} : req' = [req EXCEPT ![p] = [r EXCEPT !.stage = st]]
  BY DEF ReadBuffer, Move
<1> HIDE DEF r, rows
<1>8. GoodReqs(req', db)
  BY <1>5, <1>6, <1>7, RequestMoves
<1> QED
  BY <1>8 DEF StreamInv, ReadBuffer

(* What a query returns.                                                       *)
LEMMA QueriedRows ==
  ASSUME StreamInv, NEW s, NEW n \in Nat, NEW rows \in ByTime(s) \cup ById(s, n)
  PROVE  rows \in Seq(RowsIn(db, s))
<1> DEFINE X == RowsIn(db, s)
           Y == {id \in X : id > n}
<1>1. IsFiniteSet(X) /\ IsFiniteSet(Y) /\ Y \subseteq X
  BY RowsAreNumbers, FS_Subset DEF StreamInv
<1>2. Cardinality(X) \in Nat /\ Cardinality(Y) \in Nat
  BY <1>1, FS_CardinalityType
<1>3. rows \in [1..Cardinality(X) -> X] \cup [1..Cardinality(Y) -> Y]
  BY DEF ByTime, ById, Descending, RowsOf, RowsIn
<1> HIDE DEF X, Y
<1>4. rows \in Seq(X) \cup Seq(Y)
  BY <1>2, <1>3
<1> QED
  BY <1>1, <1>4, SequencesGrow DEF X

LEMMA QueryKeeps == ASSUME StreamInv, NEW p \in Pages, Query(p) PROVE StreamInv'
<1> DEFINE r == req[p]
           X == RowsIn(db, r.server)
<1>1. GoodReq(r, db) /\ r \in ReqType /\ r.after \in Nat
  BY DEF StreamInv, GoodReqs, GoodReq, ReqType
<1>2. r.server \in Servers
  BY <1>1 DEF GoodReq, ServerStages, Query
<1>3. PICK st \in {"seed", "refill"}, rows \in ByTime(r.server) \cup ById(r.server, r.after) :
         req' = [req EXCEPT ![p] = [r EXCEPT !.stage = st, !.reply = FirstRows(rows)]]
  BY DEF Query, Move
<1>4. rows \in Seq(X)
  BY <1>1, QueriedRows
<1>5. FirstRows(rows) \in Seq(X) /\ Len(FirstRows(rows)) <= PageSize
  BY <1>4, AnswerIsOfRows
<1>6. X \subseteq Nat
  BY RowsAreNumbers DEF StreamInv
<1>7. FirstRows(rows) \in Seq(Nat)
  BY <1>5, <1>6, SequencesGrow
<1> DEFINE q == [r EXCEPT !.stage = st, !.reply = FirstRows(rows)]
<1>8. q \in ReqType /\ q.stage = st /\ q.server = r.server /\ q.reply = FirstRows(rows)
  BY <1>1, <1>7 DEF ReqType, ServerStages
<1>9. req' = [req EXCEPT ![p] = q]
  BY <1>3
<1> HIDE DEF q, r
<1>10. GoodReq(q, db)
  BY <1>2, <1>5, <1>8 DEF GoodReq, ServerStages
<1>11. GoodReqs(req', db)
  BY <1>9, <1>10, RequestMoves
<1> QED
  BY <1>11 DEF StreamInv, Query

LEMMA FillBufferKeeps == ASSUME StreamInv, NEW p \in Pages, FillBuffer(p) PROVE StreamInv'
<1> DEFINE r == req[p]
           X == RowsIn(db, r.server)
           oldestFirst == Reverse(r.reply)
<1>1. GoodReq(r, db) /\ r \in ReqType /\ r.reply \in Seq(Nat) /\ r.stage \in {"seed", "refill"}
  BY DEF StreamInv, GoodReqs, GoodReq, ReqType, FillBuffer
<1>2. r.server \in Servers /\ r.reply \in Seq(X)
  BY <1>1 DEF GoodReq, ServerStages
<1>3. buffer[r.server] \in Buffers(X)
  BY <1>2 DEF StreamInv, GoodBuffers
<1>4. oldestFirst \in Seq(X)
  BY <1>2 DEF Reverse
<1> HIDE DEF oldestFirst
<1>5. /\ Seeded(buffer[r.server], r.reply) \in Buffers(X)
      /\ FoldLeft(Pushed, buffer[r.server], oldestFirst) \in Buffers(X)
  BY <1>2, <1>3, <1>4, SeedKeeps, PushesKeep
<1>6. \E b \in Buffers(X) : buffer' = [buffer EXCEPT ![r.server] = b]
  <2>1. \/ buffer' = [buffer EXCEPT ![r.server] = Seeded(buffer[r.server], r.reply)]
        \/ buffer' = [buffer EXCEPT ![r.server] = FoldLeft(Pushed, buffer[r.server], oldestFirst)]
    BY DEF FillBuffer, oldestFirst
  <2> HIDE DEF X, r
  <2> QED
    BY <1>5, <2>1
<1>7. GoodBuffers(buffer', db)
  BY <1>2, <1>6, BufferChanges
<1>8. GoodReq(Answer(r, r.reply), db)
  BY <1>1, AnswerIsGood
<1>9. req' = [req EXCEPT ![p] = Answer(r, r.reply)]
  BY DEF FillBuffer, Move
<1>10. GoodReqs(req', db)
  BY <1>8, <1>9, RequestMoves
<1> QED
  BY <1>7, <1>10 DEF StreamInv, FillBuffer

(* The pages.                                                                  *)
LEMMA LoadIsGood ==
  ASSUME StreamInv, NEW p \in Pages, NEW g \in PageType, g.selected \in Servers,
         NEW mode \in {"replace", "silent"}, Load(p, g, mode)
  PROVE  GoodReqs(req', db)
<1> DEFINE r == [stage |-> "sent", server |-> g.selected, mode |-> mode,
                 after |-> IF mode = "silent" THEN g.newest ELSE 0, reply |-> <<>>]
<1>1. <<>> \in Seq(Nat) /\ Len(<<>>) = 0 /\ PageSize \in Nat \ {0} /\ g.newest \in Nat
  BY StreamAssumption DEF PageType
<1>2. GoodReq(r, db)
  BY <1>1 DEF GoodReq, ReqType, ServerStages
<1>3. req' = req \/ req' = [req EXCEPT ![p] = r]
  BY DEF Load
<1> HIDE DEF r
<1>4. CASE req' = req
  BY <1>4 DEF StreamInv
<1>5. CASE req' = [req EXCEPT ![p] = r]
  BY <1>2, <1>5, RequestMoves
<1> QED
  BY <1>3, <1>4, <1>5

LEMMA PollKeeps == ASSUME StreamInv, NEW p \in Pages, Poll(p) PROVE StreamInv'
<1>1. page[p] \in PageType /\ page[p].selected \in Servers
  BY DEF StreamInv, GoodPages, PageType, Poll
<1>2. GoodReqs(req', db)
  BY <1>1, LoadIsGood DEF Poll
<1> QED
  BY <1>2 DEF StreamInv, Poll

LEMMA RefreshKeeps == ASSUME StreamInv, NEW p \in Pages, Refresh(p) PROVE StreamInv'
<1>1. page[p] \in PageType /\ page[p].selected \in Servers
  BY DEF StreamInv, GoodPages, PageType, Refresh
<1>2. GoodReqs(req', db)
  BY <1>1, LoadIsGood DEF Refresh
<1>3. spent' \in SpentType
  BY DEF StreamInv, SpentType, Refresh
<1> QED
  BY <1>2, <1>3 DEF StreamInv, Refresh

LEMMA PageChanges ==
  ASSUME StreamInv, NEW p \in Pages, NEW g, GoodPage(g), page' = [page EXCEPT ![p] = g]
  PROVE  GoodPages(page')
BY DEF StreamInv, GoodPages, GoodPage

LEMMA SelectKeeps ==
  ASSUME StreamInv, NEW p \in Pages, NEW s \in Servers, Select(p, s) PROVE StreamInv'
<1> DEFINE g == [page[p] EXCEPT !.selected = s, !.first = TRUE, !.known = <<>>,
                                !.newest = 0, !.rows = <<>>]
<1>1. page[p] \in PageType /\ <<>> \in Seq(Nat) /\ Len(<<>>) = 0 /\ 1..0 = {}
  BY DEF StreamInv, GoodPages
<1>2. g \in PageType /\ g.selected = s /\ g.rows = <<>>
  BY <1>1 DEF PageType
<1>3. page' = [page EXCEPT ![p] = g] /\ Load(p, g, "replace")
  BY DEF Select
<1> HIDE DEF g
<1>4. GoodPage(g)
  BY <1>1, <1>2 DEF GoodPage, Knows, Recognises
<1>5. GoodReqs(req', db)
  BY <1>2, <1>3, LoadIsGood
<1>6. GoodPages(page')
  BY <1>3, <1>4, PageChanges
<1>7. spent' \in SpentType
  <2> DEFINE crossed == IF req[p].stage = "none" THEN spent.crossed ELSE spent.crossed + 1
  <2>1. spent' = [spent EXCEPT !.clicks = @ + 1, !.crossed = crossed]
    BY DEF Select
  <2>2. crossed \in Nat
    BY DEF StreamInv, SpentType
  <2> HIDE DEF crossed
  <2>3. spent \in SpentType
    BY DEF StreamInv
  <2>4. spent.clicks + 1 \in Nat
    BY <2>3 DEF SpentType
  <2> QED
    BY <2>1, <2>2, <2>3, <2>4 DEF SpentType
<1> QED
  BY <1>5, <1>6, <1>7 DEF StreamInv, Select

LEMMA PauseKeeps == ASSUME StreamInv, NEW p \in Pages, Pause(p) PROVE StreamInv'
<1> DEFINE g == [page[p] EXCEPT !.live = ~@]
<1>1. page[p] \in PageType /\ Knows(page[p])
  BY DEF StreamInv, GoodPages, GoodPage
<1>2. /\ g \in PageType /\ g.rows = page[p].rows /\ g.known = page[p].known
      /\ g.newest = page[p].newest
  BY <1>1 DEF PageType
<1>3. page' = [page EXCEPT ![p] = g]
  BY DEF Pause
<1> HIDE DEF g
<1>4. GoodPage(g)
  BY <1>1, <1>2 DEF GoodPage, Knows
<1>5. GoodPages(page')
  BY <1>3, <1>4, PageChanges
<1>6. spent' \in SpentType
  BY DEF StreamInv, SpentType, Pause
<1> QED
  BY <1>5, <1>6 DEF StreamInv, Pause

LEMMA ReceiveKeeps == ASSUME StreamInv, NEW p \in Pages, Receive(p) PROVE StreamInv'
<1> DEFINE g == Loaded(page[p], req[p].mode, req[p].reply)
<1>1. /\ page[p] \in PageType /\ Knows(page[p])
      /\ req[p].reply \in Seq(Nat) /\ Len(req[p].reply) <= PageSize
  BY DEF StreamInv, GoodPages, GoodPage, GoodReqs, GoodReq, ReqType
<1>2. GoodPage(g)
  BY <1>1, LoadedKnows DEF GoodPage
<1>3. page' = [page EXCEPT ![p] = g] /\ req' = [req EXCEPT ![p] = NoReq]
  BY DEF Receive, Move
<1> HIDE DEF g
<1>4. GoodPages(page')
  BY <1>2, <1>3, PageChanges
<1>5. GoodReqs(req', db)
  BY <1>3, NoReqIsGood, RequestMoves
<1> QED
  BY <1>4, <1>5 DEF StreamInv, Receive

(* The faults.                                                                 *)
LEMMA LoseKeeps == ASSUME StreamInv, NEW p \in Pages, Lose(p) PROVE StreamInv'
<1>1. req' = [req EXCEPT ![p] = NoReq]
  BY DEF Lose, Move
<1>2. GoodReqs(req', db)
  BY <1>1, NoReqIsGood, RequestMoves
<1>3. spent' \in SpentType
  BY DEF StreamInv, SpentType, Lose
<1> QED
  BY <1>2, <1>3 DEF StreamInv, Lose

LEMMA NothingBuffered == ASSUME NEW d PROVE GoodBuffers([s \in Servers |-> <<>>], d)
<1>1. \A X : <<>> \in Seq(X) /\ Len(<<>>) = 0
  OBVIOUS
<1>2. \A X : <<>> \in Buffers(X)
  BY <1>1, BufferMaxAssumption DEF Buffers
<1> QED
  BY <1>1, <1>2 DEF GoodBuffers

LEMMA StreamRestartKeeps == ASSUME StreamInv, Restart PROVE StreamInv'
<1>1. GoodBuffers(buffer', db)
  BY NothingBuffered DEF Restart
<1>2. GoodReqs(req', db)
  <2>1. \A p \in Pages : GoodReq(req[p], db) /\ req[p] \in ReqType
    BY DEF StreamInv, GoodReqs
  <2>2. GoodReq(NoReq, db) /\ NoReq \in ReqType
    BY NoReqIsGood DEF GoodReq
  <2>3. req' = [p \in Pages |-> IF req[p].stage \in ServerStages THEN NoReq ELSE req[p]]
    BY DEF Restart
  <2> QED
    BY <2>1, <2>2, <2>3 DEF GoodReqs
<1>3. GoodHandlers(handlers', db)
  BY DEF GoodHandlers, Restart
<1>4. spent' \in SpentType
  BY DEF StreamInv, SpentType, Restart
<1> QED
  BY <1>1, <1>2, <1>3, <1>4 DEF StreamInv, Restart

LEMMA StreamStarts == ASSUME Init PROVE StreamInv
<1>1. /\ <<>> \in Seq(RowType) /\ <<>> \in Seq(Nat) /\ Len(<<>>) = 0 /\ 1..0 = {}
  OBVIOUS
<1>2. GoodHandlers({}, db)
  BY DEF GoodHandlers
<1>3. GoodBuffers(buffer, db)
  BY NothingBuffered DEF Init
<1>4. GoodReqs(req, db)
  <2>1. GoodReq(NoReq, db) /\ NoReq \in ReqType
    BY NoReqIsGood DEF GoodReq
  <2> QED
    BY <2>1 DEF Init, GoodReqs
<1>5. GoodPages(page)
  <2> DEFINE g == [selected |-> NoServer, rows |-> <<>>, known |-> <<>>,
                   newest |-> 0, first |-> TRUE, live |-> TRUE]
  <2>1. g \in PageType /\ g.rows = <<>>
    BY <1>1 DEF PageType
  <2>2. page = [p \in Pages |-> g]
    BY DEF Init
  <2> HIDE DEF g
  <2>3. GoodPage(g)
    BY <1>1, <2>1 DEF GoodPage, Knows, Recognises
  <2> QED
    BY <2>1, <2>2, <2>3 DEF GoodPages, GoodPage
<1>6. spent \in SpentType /\ issued \in Nat
  BY DEF Init, SpentType
<1> QED
  BY <1>1, <1>2, <1>3, <1>4, <1>5, <1>6 DEF Init, StreamInv

LEMMA StreamStutters == ASSUME StreamInv, UNCHANGED vars PROVE StreamInv'
BY DEF StreamInv, vars

LEMMA StreamStep == ASSUME StreamInv, Next PROVE StreamInv'
<1>1. ASSUME NEW s \in Servers, Insert(s) PROVE StreamInv'
  BY <1>1, InsertKeeps
<1>2. ASSUME NEW h \in handlers, Commit(h) \/ Push(h) PROVE StreamInv'
  BY <1>2, CommitKeeps, PushingKeeps
<1>3. ASSUME NEW p \in Pages, Serve(p) PROVE StreamInv'
  BY <1>3, ReadBufferKeeps, QueryKeeps, FillBufferKeeps DEF Serve
<1>4. ASSUME NEW p \in Pages, Receive(p) \/ Poll(p) \/ Refresh(p) \/ Pause(p) \/ Lose(p)
      PROVE  StreamInv'
  BY <1>4, ReceiveKeeps, PollKeeps, RefreshKeeps, PauseKeeps, LoseKeeps
<1>5. ASSUME NEW p \in Pages, NEW s \in Servers, Select(p, s) PROVE StreamInv'
  BY <1>5, SelectKeeps
<1>6. ASSUME Restart PROVE StreamInv'
  BY <1>6, StreamRestartKeeps
<1> QED
  BY <1>1, <1>2, <1>3, <1>4, <1>5, <1>6 DEF Next, Ingest

LEMMA StreamHolds == Spec => []StreamInv
<1>1. Init => StreamInv
  BY StreamStarts
<1>2. StreamInv /\ [Next]_vars => StreamInv'
  BY StreamStep, StreamStutters
<1> QED
  BY <1>1, <1>2, PTL DEF Spec

\* The state of the log stream keeps its types, the highest id of a page among them:
\* the next poll asks from a number, whatever the answer held.
THEOREM StreamTypes == Spec => []TypeOK
<1>1. StreamInv => TypeOK
  BY InvHasTypes
<1> QED
  BY <1>1, StreamHolds, PTL

\* stream-buffer.ts keeps for a router only rows the database has of that router, and
\* no more than MAX, however handlers, the fills of other pages and restarts
\* interleave: a fill resumed after a push may repeat a row, and never invents one.
THEOREM BufferHoldsStored == Spec => []BufferBacked
<1>1. StreamInv => BufferBacked
  <2> SUFFICES ASSUME StreamInv, NEW s \in Servers
               PROVE  ToSet(buffer[s]) \subseteq RowsOf(s) /\ Len(buffer[s]) <= BufferMax
    BY DEF BufferBacked
  <2>1. buffer[s] \in Seq(RowsIn(db, s)) /\ Len(buffer[s]) <= BufferMax
    BY DEF StreamInv, GoodBuffers, Buffers
  <2>2. ToSet(buffer[s]) \subseteq RowsIn(db, s)
    BY <2>1, LengthIsDomain DEF ToSet
  <2> QED
    BY <2>1, <2>2 DEF RowsOf, RowsIn
<1> QED
  BY <1>1, StreamHolds, PTL

\* log-stream/page.tsx never shows a row it does not know: forgetting the first ids of
\* a long session (KnownKeep) forgets none on display, as the rows on display are among
\* the last ShownMax + PageSize - 1 ids learnt.
THEOREM ShownRowsAreKnown == Spec => []ShownIsKnown
<1>1. StreamInv => ShownIsKnown
  <2> SUFFICES ASSUME StreamInv, NEW p \in Pages, NEW id \in Ids, Contains(page[p].rows, id)
               PROVE  id <= page[p].newest /\ Contains(page[p].known, id)
    BY DEF ShownIsKnown
  <2>1. Knows(page[p])
    BY DEF StreamInv, GoodPages, GoodPage
  <2>2. PICK j \in 1..Len(page[p].rows) : page[p].rows[j] = id
    BY DEF Contains
  <2> QED
    BY <2>1, <2>2 DEF Knows, Recognises, Contains
<1> QED
  BY <1>1, StreamHolds, PTL

-----------------------------------------------------------------------------
(* Part 4.  What polling passes over.  The rows of a buffer and of an answer have  *)
(* falling ids; the ids a page knows rise, but for those of one answer.          *)
Falling(q) == \A i, j \in 1..Len(q) : i < j => q[i] > q[j]
NearlyRising(q) == \A i, j \in 1..Len(q) : i + PageSize <= j => q[i] < q[j]
Has(q, x) == \E i \in 1..Len(q) : q[i] = x
Accounted(q, id) == Has(q, id) \/ PassedOver(q, id)
Top(q) == IF q = <<>> THEN 0 ELSE q[1]

LEMMA TopIsAbove ==
  ASSUME NEW q \in Seq(Nat), Falling(q)
  PROVE  /\ Top(q) \in Nat /\ \A i \in 1..Len(q) : q[i] <= Top(q)
         /\ q # <<>> => Has(q, Top(q))
<1>1. \A i \in 1..Len(q) : q[i] \in Nat /\ Len(q) \in Nat
  OBVIOUS
<1>2. q # <<>> => 1 \in 1..Len(q)
  OBVIOUS
<1>3. q = <<>> => 1..Len(q) = {}
  OBVIOUS
<1> QED
  BY <1>1, <1>2, <1>3 DEF Top, Falling, Has

LEMMA CapFalls ==
  ASSUME NEW q \in Seq(Nat), Falling(q)
  PROVE  /\ Capped(q) \in Seq(Nat) /\ Falling(Capped(q))
         /\ \A i \in 1..Len(Capped(q)) : Has(q, Capped(q)[i])
         /\ q # <<>> => Capped(q) # <<>>
<1> DEFINE m == IF Len(q) > BufferMax THEN BufferMax ELSE Len(q)
           c == Capped(q)
<1>1. m \in Nat /\ m <= Len(q) /\ Len(q) \in Nat /\ (Len(q) > 0 => m > 0)
  BY BufferMaxAssumption
<1>2. c = SubSeq(q, 1, m)
  BY DEF Capped
<1> HIDE DEF m, c
<1>3. c \in Seq(Nat) /\ Len(c) = m /\ \A i \in 1..m : c[i] = q[i]
  BY <1>1, <1>2
<1>4. \A i \in 1..m : i \in 1..Len(q)
  BY <1>1
<1>5. q # <<>> => c # <<>>
  BY <1>1, <1>3
<1> QED
  BY <1>3, <1>4, <1>5 DEF Falling, Has, c

LEMMA PushFalls ==
  ASSUME NEW q \in Seq(Nat), Falling(q), NEW x \in Nat, \A i \in 1..Len(q) : q[i] <= x
  PROVE  /\ Pushed(q, x) \in Seq(Nat) /\ Falling(Pushed(q, x)) /\ Pushed(q, x) # <<>>
         /\ \A i \in 1..Len(Pushed(q, x)) : Pushed(q, x)[i] = x \/ Has(q, Pushed(q, x)[i])
<1>1. CASE q # <<>> /\ Head(q) = x
  BY <1>1 DEF Pushed, Has
<1>2. CASE ~ (q # <<>> /\ Head(q) = x)
  <2> DEFINE r == <<x>> \o q
  <2>1. /\ r \in Seq(Nat) /\ Len(r) = Len(q) + 1 /\ r[1] = x /\ Len(q) \in Nat
        /\ \A i \in 1..Len(q) : r[i + 1] = q[i]
    OBVIOUS
  <2>2. Pushed(q, x) = Capped(r)
    BY <1>2 DEF Pushed
  <2> HIDE DEF r
  <2>3. \A i \in 1..Len(r) : i = 1 \/ (i - 1 \in 1..Len(q) /\ r[i] = q[i - 1])
    <3> SUFFICES ASSUME NEW i \in 1..Len(r), i # 1
                 PROVE  i - 1 \in 1..Len(q) /\ r[i] = q[i - 1]
      OBVIOUS
    <3>1. i - 1 \in 1..Len(q) /\ (i - 1) + 1 = i
      BY <2>1
    <3> QED
      BY <2>1, <3>1
  <2>4. \A i \in 1..Len(q) : q[i] < x
    <3>1. ASSUME NEW i \in 1..Len(q) PROVE q[i] \in Nat /\ q[1] \in Nat /\ q[1] # x /\ q[1] <= x
      BY <1>2
    <3>2. ASSUME NEW i \in 1..Len(q) PROVE q[i] <= q[1]
      <4>1. 1 \in 1..Len(q) /\ (i = 1 \/ 1 < i)
        BY <2>1
      <4> QED
        BY <3>1, <4>1 DEF Falling
    <3> QED
      BY <3>1, <3>2
  <2>5. Falling(r)
    <3> SUFFICES ASSUME NEW i \in 1..Len(r), NEW j \in 1..Len(r), i < j PROVE r[i] > r[j]
      BY DEF Falling
    <3>1. j - 1 \in 1..Len(q) /\ r[j] = q[j - 1]
      BY <2>1, <2>3
    <3>2. CASE i = 1
      BY <2>1, <2>4, <3>1, <3>2
    <3>3. CASE i # 1
      <4>1. i - 1 \in 1..Len(q) /\ r[i] = q[i - 1] /\ i - 1 < j - 1
        BY <2>1, <2>3, <3>3
      <4> QED
        BY <3>1, <4>1 DEF Falling
    <3> QED
      BY <3>2, <3>3
  <2>6. \A i \in 1..Len(r) : r[i] = x \/ Has(q, r[i])
    BY <2>1, <2>3 DEF Has
  <2>7. r # <<>>
    BY <2>1
  <2>8. /\ Capped(r) \in Seq(Nat) /\ Falling(Capped(r)) /\ Capped(r) # <<>>
        /\ \A i \in 1..Len(Capped(r)) : Has(r, Capped(r)[i])
    BY <2>1, <2>5, <2>7, CapFalls
  <2>9. \A y : Has(r, y) => y = x \/ Has(q, y)
    BY <2>6 DEF Has
  <2> QED
    BY <2>2, <2>8, <2>9
<1> QED
  BY <1>1, <1>2

LEMMA FirstRowsAccount ==
  ASSUME NEW q \in Seq(Nat), Falling(q)
  PROVE  /\ FirstRows(q) \in Seq(Nat) /\ Falling(FirstRows(q))
         /\ \A i \in 1..Len(FirstRows(q)) : Has(q, FirstRows(q)[i])
         /\ \A i \in 1..Len(q) : Accounted(FirstRows(q), q[i])
         /\ FirstRows(q) # <<>> => q # <<>>
<1> DEFINE m == IF Len(q) > PageSize THEN PageSize ELSE Len(q)
           c == FirstRows(q)
<1>1. m \in Nat /\ m <= Len(q) /\ Len(q) \in Nat /\ (Len(q) > m => m = PageSize)
      /\ PageSize \in Nat \ {0}
  BY StreamAssumption
<1>2. c = SubSeq(q, 1, m)
  BY DEF FirstRows
<1> HIDE DEF m, c
<1>3. c \in Seq(Nat) /\ Len(c) = m /\ \A i \in 1..m : c[i] = q[i]
  BY <1>1, <1>2
<1>4. \A i \in 1..m : i \in 1..Len(q)
  BY <1>1
<1>5. ASSUME NEW i \in 1..Len(q) PROVE Accounted(c, q[i])
  <2>1. CASE i <= m
    <3>1. i \in 1..Len(c)
      BY <1>3, <2>1
    <3> QED
      BY <1>3, <3>1 DEF Accounted, Has
  <2>2. CASE i > m
    <3>1. m = PageSize
      BY <1>1, <2>2
    <3>2. \A j \in (Len(c) - PageSize + 1)..Len(c) : j \in 1..m /\ j \in 1..Len(q) /\ j < i
      BY <1>1, <1>3, <2>2, <3>1
    <3>3. \A j \in (Len(c) - PageSize + 1)..Len(c) : c[j] > q[i]
      BY <1>3, <3>2 DEF Falling
    <3> QED
      BY <1>1, <1>3, <3>1, <3>3 DEF Accounted, PassedOver
  <2> QED
    BY <1>1, <2>1, <2>2
<1>6. c # <<>> => q # <<>>
  BY <1>1, <1>3
<1> QED
  BY <1>3, <1>4, <1>5, <1>6 DEF Falling, Has, c

(* filter keeps the order.                                                     *)
LEMMA AmongFalls ==
  ASSUME NEW ids \in Seq(Nat), Falling(ids), NEW K
  PROVE  Falling(Among(ids, K))
<1> DEFINE n == Len(ids)
           From(i, q) == \A j \in 1..Len(q) : \E m \in 1..i : ids[m] = q[j]
           Good(i, q) == q \in Seq(Nat) /\ Falling(q) /\ From(i, q)
<1>1. n \in Nat /\ \A i \in 1..n : ids[i] \in Nat
  BY LengthIsDomain
<1>2. PICK f \in [0..n -> Seq(Nat)] : AmongBy(f, ids, K)
  BY AmongSteps
<1> DEFINE G == {i \in Nat : i <= n => Good(i, f[i])}
<1>3. 0 \in G
  <2>1. Good(0, <<>>)
    BY DEF Falling
  <2> QED
    BY <1>2, <2>1 DEF AmongBy
<1>4. ASSUME NEW i \in Nat, i \in G PROVE i + 1 \in G
  <2> SUFFICES ASSUME i + 1 <= n PROVE Good(i + 1, f[i + 1])
    OBVIOUS
  <2> DEFINE q == f[i]
             x == ids[i + 1]
  <2>1. Good(i, q)
    BY <1>1, <1>4
  <2>2. i + 1 \in 1..n /\ (i + 1) - 1 = i /\ x \in Nat /\ \A m \in 1..i : m \in 1..n /\ m < i + 1
    BY <1>1
  <2>3. f[i + 1] = IF x \in K THEN Append(q, x) ELSE q
    BY <1>2, <2>2 DEF AmongBy
  <2>4. \A m \in 1..i : m \in 1..(i + 1) /\ ids[m] > x
    BY <2>2 DEF Falling
  <2> HIDE DEF q
  <2>5. Good(i + 1, q)
    BY <2>1, <2>4
  <2> DEFINE r == Append(q, x)
  <2>6. /\ r \in Seq(Nat) /\ Len(r) = Len(q) + 1 /\ Len(q) \in Nat /\ r[Len(q) + 1] = x
        /\ \A j \in 1..Len(q) : r[j] = q[j]
    BY <2>1, <2>2
  <2> HIDE DEF r
  <2>7. \A j \in 1..Len(r) : j \in 1..Len(q) \/ j = Len(q) + 1
    BY <2>6
  <2>8. From(i + 1, r)
    <3>1. i + 1 \in 1..(i + 1)
      OBVIOUS
    <3> QED
      BY <2>5, <2>6, <2>7, <3>1
  <2>9. Falling(r)
    <3> SUFFICES ASSUME NEW j \in 1..Len(r), NEW k \in 1..Len(r), j < k PROVE r[j] > r[k]
      BY DEF Falling
    <3>1. j \in 1..Len(q)
      BY <2>6, <2>7
    <3>2. q[j] > x
      BY <2>1, <2>4, <3>1
    <3> QED
      BY <2>1, <2>6, <2>7, <3>1, <3>2 DEF Falling
  <2> HIDE DEF From
  <2>10. Good(i + 1, r)
    BY <2>6, <2>8, <2>9
  <2> HIDE DEF x, Good
  <2> QED
    BY <2>3, <2>5, <2>10 DEF r
<1>5. Nat \subseteq G
  <2> HIDE DEF G
  <2> QED
    BY <1>3, <1>4, SetInduction
<1> QED
  BY <1>1, <1>2, <1>5 DEF AmongBy

(* What a page makes of an answer: new ids are added at the end of the ones it    *)
(* knows, and an id that was accounted for stays so, also when ids are forgotten. *)
Extends(ids, first, more) ==
    /\ ids \in Seq(Nat) /\ Len(ids) = Len(first) + Len(more)
    /\ \A j \in 1..Len(first) : ids[j] = first[j]
    /\ \A i \in 1..Len(more) : ids[Len(first) + i] = more[i]

LEMMA LearnExtends ==
  ASSUME NEW known \in Seq(Nat), NEW rows \in Seq(Nat), Falling(rows), AreNew(rows, known)
  PROVE  Extends(Learn(known, rows), known, rows)
<1> DEFINE n == Len(rows)
           K == Len(known)
           Good(i, q) == /\ q \in Seq(Nat) /\ Len(q) = K + i
                         /\ \A j \in 1..K : q[j] = known[j]
                         /\ \A m \in 1..i : q[K + m] = rows[m]
<1>1. n \in Nat /\ K \in Nat /\ \A i \in 1..n : rows[i] \in Nat
  BY LengthIsDomain
<1>2. PICK f \in [0..n -> Seq(Nat)] : LearnBy(f, known, rows)
  BY LearnSteps
<1> HIDE DEF Good, n
<1> DEFINE G == {i \in Nat : i <= n => Good(i, f[i])}
<1>3. 0 \in G
  <2>1. Good(0, known)
    BY <1>1 DEF Good
  <2> QED
    BY <1>2, <2>1 DEF LearnBy
<1>4. ASSUME NEW i \in Nat, i \in G PROVE i + 1 \in G
  <2> SUFFICES ASSUME i + 1 <= n PROVE Good(i + 1, f[i + 1])
    OBVIOUS
  <2> DEFINE q == f[i]
             x == rows[i + 1]
             r == Append(q, x)
  <2>1. Good(i, q)
    BY <1>1, <1>4
  <2>2. i + 1 \in 1..n /\ (i + 1) - 1 = i /\ x \in Nat /\ \A m \in 1..i : m \in 1..n /\ m < i + 1
    BY <1>1
  <2>3. f[i + 1] = IF Contains(q, x) THEN q ELSE r
    BY <1>2, <2>2 DEF LearnBy, n
  <2>4. \A m \in 1..i : rows[m] # x
    BY <1>1, <2>2 DEF Falling, n
  <2>5. ~ Contains(q, x)
    <3>1. \A j \in 1..Len(q) : j \in 1..K \/ (j - K \in 1..i /\ K + (j - K) = j)
      BY <1>1, <2>1 DEF Good
    <3> HIDE DEF q, x
    <3>2. \A j \in 1..K : q[j] = known[j] /\ known[j] # x
      BY <2>1, <2>2 DEF AreNew, Good, n, x
    <3>3. \A j \in 1..Len(q) : q[j] # x
      <4> SUFFICES ASSUME NEW j \in 1..Len(q), j - K \in 1..i, K + (j - K) = j PROVE q[j] # x
        BY <3>1, <3>2
      <4> QED
        BY <2>1, <2>4 DEF Good
    <3>4. DOMAIN q = 1..Len(q)
      BY <2>1, LengthIsDomain DEF Good
    <3> QED
      BY <3>3, <3>4 DEF Contains
  <2> HIDE DEF q, x
  <2>6. q \in Seq(Nat) /\ x \in Nat
    BY <2>1, <2>2 DEF Good, x
  <2>7. /\ r \in Seq(Nat) /\ Len(r) = Len(q) + 1 /\ Len(q) \in Nat /\ r[Len(q) + 1] = x
        /\ \A j \in 1..Len(q) : r[j] = q[j]
    BY <2>6
  <2> HIDE DEF r
  <2>8. Len(r) = K + (i + 1) /\ r[K + (i + 1)] = x
    BY <1>1, <2>1, <2>7 DEF Good
  <2>9. (\A j \in 1..K : j \in 1..Len(q)) /\ \A m \in 1..i : K + m \in 1..Len(q)
    BY <1>1, <2>1 DEF Good
  <2>10. \A m \in 1..(i + 1) : m \in 1..i \/ m = i + 1
    OBVIOUS
  <2>11. (\A j \in 1..K : r[j] = known[j]) /\ \A m \in 1..i : r[K + m] = rows[m]
    BY <2>1, <2>7, <2>9 DEF Good
  <2>12. Good(i + 1, r)
    BY <2>7, <2>8, <2>10, <2>11 DEF Good, x
  <2> QED
    BY <2>3, <2>5, <2>12
<1>5. Nat \subseteq G
  <2> HIDE DEF G
  <2> QED
    BY <1>3, <1>4, SetInduction
<1>6. Good(n, f[n])
  BY <1>1, <1>5
<1> QED
  BY <1>2, <1>6 DEF Good, n, LearnBy, Extends

LEMMA ExtendedRises ==
  ASSUME NEW ids, NEW known \in Seq(Nat), NEW rows \in Seq(Nat), Extends(ids, known, rows),
         NearlyRising(known), Len(rows) <= PageSize,
         \A k \in 1..Len(known), i \in 1..Len(rows) : known[k] < rows[i]
  PROVE  NearlyRising(ids)
<1> DEFINE K == Len(known)
           R == Len(rows)
<1>1. K \in Nat /\ R \in Nat /\ PageSize \in Nat \ {0} /\ Len(ids) = K + R
  BY StreamAssumption DEF Extends
<1>2. ASSUME NEW i \in 1..Len(ids), NEW j \in 1..Len(ids), i + PageSize <= j
      PROVE  ids[i] < ids[j]
  <2>1. i \in 1..K
    BY <1>1, <1>2
  <2>2. CASE j <= K
    <3>1. j \in 1..K
      BY <2>2
    <3> QED
      BY <1>2, <2>1, <3>1 DEF Extends, NearlyRising
  <2>3. CASE j > K
    <3>1. j - K \in 1..R /\ K + (j - K) = j
      BY <1>1, <2>3
    <3> QED
      BY <2>1, <3>1 DEF Extends
  <2> QED
    BY <1>1, <2>2, <2>3
<1> QED
  BY <1>2 DEF NearlyRising

LEMMA ExtendedAccounts ==
  ASSUME NEW ids, NEW known \in Seq(Nat), NEW rows \in Seq(Nat), Extends(ids, known, rows),
         Len(rows) <= PageSize, NEW id \in Nat,
         \/ Accounted(known, id) /\ \A i \in 1..Len(rows) : rows[i] > id
         \/ Accounted(rows, id)
  PROVE  Accounted(ids, id)
<1> DEFINE K == Len(known)
           R == Len(rows)
<1>1. K \in Nat /\ R \in Nat /\ PageSize \in Nat \ {0} /\ Len(ids) = K + R
  BY StreamAssumption DEF Extends
<1>2. \A j \in 1..K : j \in 1..Len(ids) /\ ids[j] = known[j]
  BY <1>1 DEF Extends
<1>3. \A i \in 1..R : K + i \in 1..Len(ids) /\ ids[K + i] = rows[i]
  BY <1>1 DEF Extends
<1>4. CASE Has(known, id) \/ Has(rows, id)
  BY <1>2, <1>3, <1>4 DEF Accounted, Has
<1>5. ASSUME PassedOver(known, id), \A i \in 1..R : rows[i] > id PROVE PassedOver(ids, id)
  <2>1. K >= PageSize
    BY <1>5 DEF PassedOver
  <2>2. ASSUME NEW i \in (Len(ids) - PageSize + 1)..Len(ids) PROVE ids[i] > id
    <3>1. CASE i <= K
      <4>1. i \in (K - PageSize + 1)..K /\ i \in 1..K
        BY <1>1, <2>1, <3>1
      <4> QED
        BY <1>2, <1>5, <4>1 DEF PassedOver
    <3>2. CASE i > K
      <4>1. i - K \in 1..R /\ K + (i - K) = i
        BY <1>1, <2>1, <3>2
      <4> QED
        BY <1>3, <1>5, <4>1
    <3> QED
      BY <1>1, <3>1, <3>2
  <2> QED
    BY <1>1, <2>1, <2>2 DEF PassedOver
<1>6. ASSUME PassedOver(rows, id) PROVE PassedOver(ids, id)
  <2>1. R = PageSize
    BY <1>1, <1>6 DEF PassedOver
  <2>2. ASSUME NEW i \in (Len(ids) - PageSize + 1)..Len(ids) PROVE ids[i] > id
    <3>1. i - K \in 1..R /\ i - K \in (R - PageSize + 1)..R /\ K + (i - K) = i
      BY <1>1, <2>1
    <3> QED
      BY <1>3, <1>6, <3>1 DEF PassedOver
  <2> QED
    BY <1>1, <2>1, <2>2 DEF PassedOver
<1> QED
  BY <1>4, <1>5, <1>6 DEF Accounted

LEMMA TrimDrops ==
  ASSUME NEW ids \in Seq(Nat)
  PROVE  \E d \in 0..Len(ids) :
            /\ Trimmed(ids) \in Seq(Nat) /\ Len(Trimmed(ids)) = Len(ids) - d
            /\ \A i \in 1..(Len(ids) - d) : Trimmed(ids)[i] = ids[d + i]
            /\ d > 0 => Len(ids) - d = KnownKeep
<1>1. Len(ids) \in Nat /\ KnownKeep \in Nat \ {0} /\ KnownMax \in Nat \ {0}
  BY StreamAssumption
<1>2. CASE Trimmed(ids) = ids
  <2>1. /\ 0 \in 0..Len(ids) /\ Len(ids) = Len(ids) - 0 /\ ~ (0 > 0)
        /\ \A i \in 1..(Len(ids) - 0) : ids[i] = ids[0 + i]
    BY <1>1
  <2> WITNESS 0 \in 0..Len(ids)
  <2> QED
    BY <1>2, <2>1
<1>3. CASE Len(ids) > KnownMax
  <2> DEFINE d == IF Len(ids) > KnownKeep THEN Len(ids) - KnownKeep ELSE 0
  <2>1. Trimmed(ids) = SubSeq(ids, d + 1, Len(ids))
    <3>1. d + 1 = IF Len(ids) > KnownKeep THEN Len(ids) - KnownKeep + 1 ELSE 1
      BY <1>1
    <3> HIDE DEF d
    <3> QED
      BY <1>3, <3>1 DEF Trimmed
  <2>2. d \in 0..Len(ids) /\ (d > 0 => Len(ids) - d = KnownKeep)
    BY <1>1
  <2> HIDE DEF d
  <2>3. /\ SubSeq(ids, d + 1, Len(ids)) \in Seq(Nat) /\ Len(SubSeq(ids, d + 1, Len(ids))) = Len(ids) - d
        /\ \A i \in 1..(Len(ids) - d) : SubSeq(ids, d + 1, Len(ids))[i] = ids[d + i]
    BY <1>1, <2>2
  <2> QED
    BY <2>1, <2>2, <2>3
<1> QED
  BY <1>2, <1>3 DEF Trimmed

LEMMA TrimAccounts ==
  ASSUME NEW ids \in Seq(Nat), NearlyRising(ids)
  PROVE  /\ Trimmed(ids) \in Seq(Nat) /\ NearlyRising(Trimmed(ids))
         /\ \A i \in 1..Len(Trimmed(ids)) : Has(ids, Trimmed(ids)[i])
         /\ \A id \in Nat : Accounted(ids, id) => Accounted(Trimmed(ids), id)
<1> DEFINE t == Trimmed(ids)
           L == Len(ids)
<1>1. PICK d \in 0..L :
         /\ t \in Seq(Nat) /\ Len(t) = L - d
         /\ \A i \in 1..(L - d) : t[i] = ids[d + i]
         /\ d > 0 => L - d = KnownKeep
  BY TrimDrops
<1> HIDE DEF t
<1>2. L \in Nat /\ PageSize \in Nat \ {0} /\ KnownKeep \in Nat /\ 2 * PageSize <= KnownKeep + 1
  BY StreamAssumption
<1>3. \A i \in 1..Len(t) : d + i \in 1..L /\ t[i] = ids[d + i]
  BY <1>1, <1>2
<1> HIDE DEF L
<1>4. NearlyRising(t)
  <2> SUFFICES ASSUME NEW i \in 1..Len(t), NEW j \in 1..Len(t), i + PageSize <= j PROVE t[i] < t[j]
    BY DEF NearlyRising
  <2>1. (d + i) + PageSize <= d + j
    BY <1>1, <1>2
  <2> QED
    BY <1>3, <2>1 DEF NearlyRising, L
<1>5. \A i \in 1..Len(t) : Has(ids, t[i])
  BY <1>3 DEF Has, L
<1>6. ASSUME NEW id \in Nat, PassedOver(ids, id) PROVE PassedOver(t, id)
  <2>1. L >= PageSize /\ \A i \in (L - PageSize + 1)..L : ids[i] > id
    BY <1>6 DEF PassedOver, L
  <2>2. Len(t) >= PageSize
    BY <1>1, <1>2, <2>1
  <2>3. \A i \in (Len(t) - PageSize + 1)..Len(t) :
            i \in 1..Len(t) /\ d + i \in (L - PageSize + 1)..L
    BY <1>1, <1>2, <2>2
  <2> QED
    BY <1>3, <2>1, <2>2, <2>3 DEF PassedOver
<1>7. ASSUME NEW k \in 1..L PROVE Accounted(t, ids[k])
  <2>1. CASE k > d
    <3>1. k - d \in 1..Len(t) /\ d + (k - d) = k
      BY <1>1, <1>2, <2>1
    <3> QED
      BY <1>3, <3>1 DEF Accounted, Has
  <2>2. CASE k <= d
    <3>1. Len(t) = KnownKeep
      BY <1>1, <1>2, <2>2
    <3>2. Len(t) >= PageSize
      BY <1>2, <3>1
    <3>3. ASSUME NEW j \in (Len(t) - PageSize + 1)..Len(t) PROVE t[j] > ids[k]
      <4>1. j \in 1..Len(t) /\ j >= PageSize
        BY <1>2, <3>1
      <4>2. k + PageSize <= d + j /\ d + j \in 1..L
        BY <1>2, <1>3, <2>2, <4>1
      <4>3. ids[k] < ids[d + j] /\ ids[k] \in Nat /\ ids[d + j] \in Nat
        BY <4>2 DEF NearlyRising, L
      <4> QED
        BY <1>3, <4>1, <4>3
    <3> QED
      BY <3>2, <3>3 DEF Accounted, PassedOver
  <2> QED
    BY <1>2, <2>1, <2>2
<1> QED
  BY <1>1, <1>4, <1>5, <1>6, <1>7 DEF Accounted, Has, t, L

LEMMA LargestIsTop ==
  ASSUME NEW a \in Nat, NEW rows \in Seq(Nat), Falling(rows)
  PROVE  Largest(a, ToSet(rows)) = IF Top(rows) > a THEN Top(rows) ELSE a
<1>1. DOMAIN rows = 1..Len(rows) /\ \A i \in 1..Len(rows) : rows[i] \in Nat
  BY LengthIsDomain
<1>2. CASE rows = <<>>
  <2>1. ToSet(rows) = {}
    BY <1>2 DEF ToSet
  <2> QED
    BY <1>2, <2>1 DEF Largest, Top
<1>3. CASE rows # <<>>
  <2> DEFINE S == ToSet(rows)
             t == Top(rows)
  <2>1. t \in S /\ \A x \in S : x <= t
    BY <1>1, <1>3, TopIsAbove DEF ToSet, Has
  <2>2. S \subseteq Nat
    BY <1>1 DEF ToSet
  <2> HIDE DEF S, t
  <2>3. \A m \in S : (\A x \in S : x <= m) => m = t
    <3> SUFFICES ASSUME NEW m \in S, \A x \in S : x <= m PROVE m = t
      OBVIOUS
    <3>1. m <= t /\ t <= m /\ m \in Nat /\ t \in Nat
      BY <2>1, <2>2
    <3> QED
      BY <3>1
  <2>4. (CHOOSE m \in S : \A x \in S : x <= m) = t
    BY <2>1, <2>3
  <2>5. Largest(a, S) = IF t > a THEN t ELSE a
    BY <2>1, <2>4 DEF Largest
  <2> QED
    BY <2>5 DEF S, t
<1> QED
  BY <1>2, <1>3

(* The invariant, in parts.  While one handler is at work at a time, ids and times *)
(* agree; an answer under way is of the router and the id its page is at, and      *)
(* accounts for every row of the buffer between that id and the highest it brings; *)
(* so does what a page knows, up to the id it has reached.                        *)
OneByOne(H, n, d) ==
    /\ \A g, h \in H : g = h
    /\ H = {} => n = Len(d)
    /\ \A h \in H : IF h.id = 0 THEN h.at = Len(d) + 1 /\ n = Len(d) + 1
                                ELSE h.id = Len(d) /\ n = Len(d)
    /\ \A i \in 1..Len(d) : d[i].at = i
Shelf(b, s) == IF s \in Servers THEN b[s] ELSE <<>>
Reached(known, newest, q) == \A i \in 1..Len(q) : q[i] <= newest => Accounted(known, q[i])
Follows(g, q, d) ==
    /\ g.newest = 0 <=> g.known = <<>>
    /\ g.first => g.newest = 0
    /\ g.newest # 0 => Has(g.known, g.newest) /\ q # <<>>
    /\ g.newest <= Len(d) /\ \A i \in 1..Len(g.known) : g.known[i] <= g.newest
    /\ NearlyRising(g.known)
    /\ Reached(g.known, g.newest, q)
Asked(r, g) ==
    /\ r.server = g.selected /\ r.server \in Servers /\ r.after = g.newest
    /\ r.mode = "replace" => g.newest = 0
    /\ r.stage \notin {"refilling", "refill"}
    /\ r.stage \in {"seeding", "seed"} => r.after = 0
Seeds(r, d) ==
    /\ Falling(r.reply)
    /\ \A id \in RowsIn(d, r.server) : id <= Top(r.reply) => Accounted(r.reply, id)
Answers(r, q, d) ==
    /\ Falling(r.reply)
    /\ \A i \in 1..Len(r.reply) : r.reply[i] > r.after /\ r.reply[i] <= Len(d)
    /\ r.reply # <<>> => q # <<>>
    /\ \A i \in 1..Len(q) : q[i] > r.after /\ q[i] <= Top(r.reply) => Accounted(r.reply, q[i])
InStep(r, g, q, d) ==
    r.stage # "none" =>
        /\ Asked(r, g)
        /\ r.stage = "seed" => Seeds(r, d)
        /\ r.stage = "answer" => Answers(r, q, d)
Orderly(H, n, d, b, P, R) ==
    /\ OneByOne(H, n, d)
    /\ \A s \in Servers : Falling(b[s])
    /\ \A p \in Pages : Follows(P[p], Shelf(b, P[p].selected), d)
    /\ \A p \in Pages : InStep(R[p], P[p], Shelf(b, P[p].selected), d)
OrderInv == InOrder => Orderly(handlers, issued, db, buffer, page, req)

(* What a page that has reached a row knows of an answer.                        *)
LEMMA LearntReaches ==
  ASSUME NEW known \in Seq(Nat), NEW newest \in Nat, NEW rows \in Seq(Nat), NEW q \in Seq(Nat),
         NearlyRising(known), Reached(known, newest, q), Falling(rows), Len(rows) <= PageSize,
         \A i \in 1..Len(known) : known[i] <= newest,
         \A i \in 1..Len(rows) : rows[i] > newest,
         \A i \in 1..Len(q) : q[i] > newest /\ q[i] <= Top(rows) => Accounted(rows, q[i])
  PROVE  /\ Learn(known, rows) \in Seq(Nat) /\ NearlyRising(Learn(known, rows))
         /\ Len(Learn(known, rows)) = Len(known) + Len(rows)
         /\ Reached(Learn(known, rows), Top(rows), q)
         /\ \A i \in 1..Len(Learn(known, rows)) : Learn(known, rows)[i] <= newest \/ Has(rows, Learn(known, rows)[i])
         /\ \A id \in Nat : Has(rows, id) => Accounted(Learn(known, rows), id)
<1> DEFINE ids == Learn(known, rows)
<1>1. /\ Len(known) \in Nat /\ Len(rows) \in Nat
      /\ \A i \in 1..Len(known) : known[i] \in Nat
      /\ \A i \in 1..Len(rows) : rows[i] \in Nat
      /\ \A i \in 1..Len(q) : q[i] \in Nat
  BY LengthIsDomain
<1>2. \A k \in 1..Len(known), i \in 1..Len(rows) : known[k] < rows[i]
  BY <1>1
<1>3. AreNew(rows, known)
  BY <1>1, <1>2 DEF AreNew
<1>4. Extends(ids, known, rows)
  BY <1>3, LearnExtends
<1> HIDE DEF ids
<1>5. ids \in Seq(Nat) /\ NearlyRising(ids) /\ Len(ids) = Len(known) + Len(rows)
  BY <1>2, <1>4, ExtendedRises DEF Extends
<1>6. ASSUME NEW i \in 1..Len(q), q[i] <= Top(rows) PROVE Accounted(ids, q[i])
  <2>1. CASE q[i] <= newest
    <3>1. Accounted(known, q[i])
      BY <2>1 DEF Reached
    <3>2. \A j \in 1..Len(rows) : rows[j] > q[i]
      BY <1>1, <2>1
    <3> QED
      BY <1>1, <1>4, <3>1, <3>2, ExtendedAccounts
  <2>2. CASE q[i] > newest
    <3>1. Accounted(rows, q[i])
      BY <1>6, <2>2
    <3> QED
      BY <1>1, <1>4, <3>1, ExtendedAccounts
  <2> QED
    BY <1>1, <2>1, <2>2
<1>7. ASSUME NEW i \in 1..Len(ids) PROVE ids[i] <= newest \/ Has(rows, ids[i])
  <2>1. CASE i <= Len(known)
    <3>1. i \in 1..Len(known)
      BY <1>1, <2>1
    <3>2. ids[i] = known[i]
      BY <1>4, <3>1 DEF Extends
    <3> QED
      BY <3>1, <3>2
  <2>2. CASE i > Len(known)
    <3>1. i - Len(known) \in 1..Len(rows) /\ Len(known) + (i - Len(known)) = i
      BY <1>1, <1>5, <2>2
    <3> QED
      BY <1>4, <3>1 DEF Extends, Has
  <2> QED
    BY <1>1, <1>5, <2>1, <2>2
<1>8. \A id \in Nat : Has(rows, id) => Accounted(ids, id)
  BY <1>4, ExtendedAccounts DEF Accounted
<1>9. Reached(ids, Top(rows), q)
  BY <1>6 DEF Reached
<1> QED
  BY <1>5, <1>7, <1>8, <1>9 DEF ids

LEMMA ReplacedFollows ==
  ASSUME NEW g \in PageType, NEW rows \in Seq(Nat), Falling(rows), Len(rows) <= PageSize,
         NEW q \in Seq(Nat), NEW d, Len(d) \in Nat, g.newest = 0,
         \A i \in 1..Len(q) : q[i] > 0,
         \A i \in 1..Len(rows) : rows[i] > 0 /\ rows[i] <= Len(d),
         rows # <<>> => q # <<>>,
         \A i \in 1..Len(q) : q[i] > 0 /\ q[i] <= Top(rows) => Accounted(rows, q[i])
  PROVE  Follows([g EXCEPT !.first = FALSE, !.newest = Top(rows), !.known = Learn(<<>>, rows), !.rows = rows], q, d)
<1> DEFINE none == <<>>
           ids == Learn(none, rows)
           t == Top(rows)
           h == [g EXCEPT !.first = FALSE, !.newest = t, !.known = ids, !.rows = rows]
<1>1. none \in Seq(Nat) /\ Len(none) = 0 /\ 0 \in Nat /\ Len(rows) \in Nat
      /\ \A i \in 1..Len(q) : q[i] \in Nat
  BY LengthIsDomain
<1>2. NearlyRising(none) /\ Reached(none, 0, q)
  <2>1. \A i \in 1..Len(q) : ~ (q[i] <= 0)
    BY <1>1
  <2> QED
    BY <1>1, <2>1 DEF NearlyRising, Reached
<1>3. t \in Nat /\ (\A i \in 1..Len(rows) : rows[i] <= t) /\ (rows # <<>> => Has(rows, t))
      /\ (rows = <<>> => t = 0)
  BY TopIsAbove DEF Top
<1>4. /\ ids \in Seq(Nat) /\ NearlyRising(ids) /\ Len(ids) = Len(none) + Len(rows) /\ Reached(ids, t, q)
      /\ \A i \in 1..Len(ids) : ids[i] <= 0 \/ Has(rows, ids[i])
      /\ \A id \in Nat : Has(rows, id) => Accounted(ids, id)
  <2>1. \A i \in 1..Len(none) : none[i] <= 0
    BY <1>1
  <2> HIDE DEF none
  <2> QED
    BY <1>1, <1>2, <2>1, LearntReaches
<1>5. /\ h.first = FALSE /\ h.newest = t /\ h.known = ids
  BY DEF PageType
<1> HIDE DEF none, ids, t, h
<1>6. \A i \in 1..Len(ids) : ids[i] \in Nat /\ ids[i] <= t
  <2>1. \A i \in 1..Len(ids) : ids[i] \in Nat
    BY <1>4, LengthIsDomain
  <2>2. \A x : Has(rows, x) => x <= t
    BY <1>3 DEF Has
  <2>3. ASSUME NEW i \in 1..Len(ids) PROVE ids[i] <= t
    <3>1. ids[i] \in Nat /\ t \in Nat
      BY <1>3, <2>1
    <3>2. ids[i] <= 0 \/ ids[i] <= t
      BY <1>4, <2>2
    <3> QED
      BY <3>1, <3>2
  <2> QED
    BY <2>1, <2>3
<1>7. t = 0 <=> ids = <<>>
  <2>1. rows # <<>> => t # 0
    BY <1>3 DEF Has
  <2>2. rows = <<>> <=> Len(rows) = 0
    OBVIOUS
  <2>3. ids = <<>> <=> Len(ids) = 0
    BY <1>4
  <2> QED
    BY <1>1, <1>3, <1>4, <2>1, <2>2, <2>3
<1>8. t # 0 => Has(ids, t) /\ q # <<>> /\ t <= Len(d)
  <2> SUFFICES ASSUME t # 0 PROVE Has(ids, t) /\ q # <<>> /\ t <= Len(d)
    OBVIOUS
  <2>1. rows # <<>> /\ Has(rows, t)
    BY <1>3
  <2>2. Accounted(ids, t)
    BY <1>3, <1>4, <2>1
  <2>3. ~ PassedOver(ids, t)
    <3> SUFFICES ASSUME PassedOver(ids, t) PROVE FALSE
      OBVIOUS
    <3> DEFINE L == Len(ids)
    <3>1. L >= PageSize /\ \A i \in (L - PageSize + 1)..L : ids[i] > t
      BY DEF PassedOver
    <3>2. L \in Nat /\ PageSize \in Nat \ {0}
      BY <1>1, <1>4, StreamAssumption
    <3> HIDE DEF L
    <3>3. L \in 1..L /\ L \in (L - PageSize + 1)..L
      BY <3>1, <3>2
    <3>4. ids[L] > t
      BY <3>1, <3>3
    <3>5. ids[L] <= t /\ ids[L] \in Nat
      BY <1>6, <3>3 DEF L
    <3> QED
      BY <1>3, <3>4, <3>5
  <2> QED
    BY <2>1, <2>2, <2>3 DEF Accounted, Has
<1>9. t <= Len(d)
  BY <1>8
<1> QED
  BY <1>4, <1>5, <1>6, <1>7, <1>8, <1>9 DEF Follows, none, ids, t, h

LEMMA MergedFollows ==
  ASSUME NEW g \in PageType, NEW rows \in Seq(Nat), Falling(rows), Len(rows) <= PageSize,
         rows # <<>>, NEW q \in Seq(Nat), NEW d, Len(d) \in Nat, Follows(g, q, d), g.newest # 0,
         \A i \in 1..Len(rows) : rows[i] > g.newest /\ rows[i] <= Len(d),
         \A i \in 1..Len(q) : q[i] > g.newest /\ q[i] <= Top(rows) => Accounted(rows, q[i]),
         NEW shown \in Seq(Nat)
  PROVE  Follows([g EXCEPT !.newest = Top(rows), !.known = Trimmed(Learn(g.known, rows)), !.rows = shown], q, d)
<1> DEFINE known == g.known
           ids == Learn(known, rows)
           last == Trimmed(ids)
           t == Top(rows)
           h == [g EXCEPT !.newest = t, !.known = last, !.rows = shown]
<1>1. /\ known \in Seq(Nat) /\ g.newest \in Nat /\ Len(known) \in Nat /\ Len(rows) \in Nat \ {0}
      /\ NearlyRising(known) /\ Reached(known, g.newest, q) /\ q # <<>>
      /\ \A i \in 1..Len(known) : known[i] <= g.newest
  BY DEF PageType, Follows
<1>2. t \in Nat /\ (\A i \in 1..Len(rows) : rows[i] <= t) /\ Has(rows, t)
  BY TopIsAbove
<1>3. /\ ids \in Seq(Nat) /\ NearlyRising(ids) /\ Reached(ids, t, q)
      /\ Len(ids) = Len(known) + Len(rows)
      /\ \A i \in 1..Len(ids) : ids[i] <= g.newest \/ Has(rows, ids[i])
      /\ \A id \in Nat : Has(rows, id) => Accounted(ids, id)
  BY <1>1, LearntReaches
<1>4. g.newest < t /\ t <= Len(d)
  BY <1>1, <1>2 DEF Has
<1>5. /\ h.first = g.first /\ h.newest = t /\ h.known = last
  BY DEF PageType
<1> HIDE DEF known, ids, t, h
<1>6. /\ last \in Seq(Nat) /\ NearlyRising(last)
      /\ \A i \in 1..Len(last) : Has(ids, last[i])
      /\ \A id \in Nat : Accounted(ids, id) => Accounted(last, id)
  BY <1>3, TrimAccounts
<1> HIDE DEF last
<1>7. \A i \in 1..Len(last) : last[i] \in Nat /\ last[i] <= t
  <2>1. \A i \in 1..Len(ids) : ids[i] \in Nat /\ ids[i] <= t
    <3>1. \A i \in 1..Len(ids) : ids[i] \in Nat
      BY <1>3, LengthIsDomain
    <3>2. \A x : Has(rows, x) => x <= t
      BY <1>2 DEF Has
    <3>3. ASSUME NEW i \in 1..Len(ids) PROVE ids[i] <= t
      <4>1. ids[i] \in Nat /\ g.newest \in Nat /\ t \in Nat /\ g.newest < t
        BY <1>1, <1>2, <1>4, <3>1
      <4>2. ids[i] <= g.newest \/ ids[i] <= t
        BY <1>3, <3>2
      <4> QED
        BY <4>1, <4>2
    <3> QED
      BY <3>1, <3>3
  <2> QED
    BY <1>6, <2>1 DEF Has
<1>8. Has(last, t)
  <2>1. Accounted(last, t)
    BY <1>2, <1>3, <1>6
  <2>2. ~ PassedOver(last, t)
    <3> SUFFICES ASSUME PassedOver(last, t) PROVE FALSE
      OBVIOUS
    <3> DEFINE L == Len(last)
    <3>1. L >= PageSize /\ \A i \in (L - PageSize + 1)..L : last[i] > t
      BY DEF PassedOver
    <3>2. L \in Nat /\ PageSize \in Nat \ {0}
      BY <1>6, StreamAssumption
    <3> HIDE DEF L
    <3>3. L \in 1..L /\ L \in (L - PageSize + 1)..L
      BY <3>1, <3>2
    <3>4. last[L] > t
      BY <3>1, <3>3
    <3>5. last[L] <= t /\ last[L] \in Nat
      BY <1>7, <3>3 DEF L
    <3> QED
      BY <1>2, <3>4, <3>5
  <2> QED
    BY <2>1, <2>2 DEF Accounted
<1>9. last # <<>> /\ t # 0
  <2>1. \E i \in 1..Len(last) : TRUE
    BY <1>8 DEF Has
  <2> QED
    BY <1>1, <1>2, <1>4, <2>1
<1>10. Reached(last, t, q)
  <2>1. \A i \in 1..Len(q) : q[i] \in Nat
    BY LengthIsDomain
  <2> QED
    BY <1>3, <1>6, <2>1 DEF Reached
<1>11. ~ g.first
  BY DEF Follows, PageType
<1>12. Follows(h, q, d)
  BY <1>1, <1>4, <1>5, <1>6, <1>7, <1>8, <1>9, <1>10, <1>11 DEF Follows
<1> QED
  BY <1>12 DEF h, last, ids, known, t

(* An answer that arrives.                                                     *)
LEMMA LoadedFollows ==
  ASSUME NEW g \in PageType, NEW r \in ReqType, Len(r.reply) <= PageSize, r.stage = "answer",
         NEW q \in Seq(Nat), \A i \in 1..Len(q) : q[i] > 0, NEW d, Len(d) \in Nat,
         Follows(g, q, d), InStep(r, g, q, d)
  PROVE  /\ Follows(Loaded(g, r.mode, r.reply), q, d)
         /\ Loaded(g, r.mode, r.reply).selected = g.selected
<1> DEFINE rows == r.reply
           top == Newest(g, rows)
           n == [g EXCEPT !.newest = top]
<1>1. /\ rows \in Seq(Nat) /\ r.mode \in {"replace", "silent"} /\ r.after = g.newest
      /\ r.mode = "replace" => g.newest = 0
      /\ Falling(rows) /\ (rows # <<>> => q # <<>>)
      /\ \A i \in 1..Len(rows) : rows[i] > g.newest /\ rows[i] <= Len(d)
      /\ \A i \in 1..Len(q) : q[i] > g.newest /\ q[i] <= Top(rows) => Accounted(rows, q[i])
  BY DEF InStep, Asked, Answers, ReqType
<1>2. g.newest \in Nat /\ g.known \in Seq(Nat) /\ g.rows \in Seq(Nat)
      /\ (g.newest = 0 <=> g.known = <<>>) /\ (g.first => g.newest = 0)
  BY DEF PageType, Follows
<1>3. top = IF Top(rows) > g.newest THEN Top(rows) ELSE g.newest
  BY <1>1, <1>2, LargestIsTop DEF Newest
<1>4. rows # <<>> => Top(rows) > g.newest
  <2>1. rows # <<>> => Has(rows, Top(rows))
    BY <1>1, TopIsAbove
  <2> QED
    BY <1>1, <2>1 DEF Has
<1>5. rows = <<>> => Top(rows) = 0 /\ top = g.newest
  BY <1>2, <1>3 DEF Top
<1>6. Loaded(g, r.mode, rows) =
         IF r.mode = "replace" \/ g.first \/ g.known = <<>> THEN Replaced(n, rows) ELSE Merged(n, rows)
  <2>1. n.first = g.first /\ n.known = g.known
    BY DEF PageType
  <2> HIDE DEF rows
  <2> QED
    BY <2>1 DEF Loaded
<1> HIDE DEF rows, top
<1>7. CASE g.newest = 0
  <2> DEFINE h == [g EXCEPT !.first = FALSE, !.newest = Top(rows), !.known = Learn(<<>>, rows), !.rows = rows]
  <2>1. Loaded(g, r.mode, rows) = Replaced(n, rows)
    BY <1>2, <1>6, <1>7
  <2>2. top = Top(rows)
    BY <1>3, <1>4, <1>5, <1>7
  <2>3. Replaced(n, rows) = h
    BY <2>2 DEF Replaced, PageType
  <2>4. Follows(h, q, d)
    BY <1>1, <1>7, ReplacedFollows DEF rows
  <2>5. h.selected = g.selected
    BY DEF PageType
  <2> HIDE DEF h
  <2> QED
    BY <2>1, <2>3, <2>4, <2>5 DEF rows
<1>8. CASE g.newest # 0
  <2> DEFINE K == ToSet(rows) \ ToSet(g.known)
             fresh == Among(rows, K)
  <2>1. Loaded(g, r.mode, rows) = Merged(n, rows) /\ n.known = g.known /\ n.rows = g.rows
    BY <1>1, <1>2, <1>6, <1>8 DEF PageType
  <2>2. fresh = rows
    <3>1. /\ \A i \in 1..Len(g.known) : g.known[i] <= g.newest /\ g.known[i] \in Nat
          /\ \A i \in 1..Len(rows) : rows[i] > g.newest /\ rows[i] \in Nat
      BY <1>1, <1>2, LengthIsDomain DEF Follows
    <3>2. DOMAIN rows = 1..Len(rows) /\ DOMAIN g.known = 1..Len(g.known)
      BY <1>1, <1>2, LengthIsDomain
    <3>3. \A i \in 1..Len(rows), k \in 1..Len(g.known) : rows[i] # g.known[k]
      BY <1>2, <3>1
    <3>4. ToSet(rows) \subseteq K
      BY <3>2, <3>3 DEF ToSet
    <3> QED
      BY <1>1, <3>4, AmongKeeps
  <2> HIDE DEF K
  <2>3. CASE rows = <<>>
    <3>1. Merged(n, rows) = n
      BY <2>1, <2>2, <2>3 DEF Merged, K
    <3>2. n = g
      BY <1>5, <2>3 DEF PageType
    <3> QED
      BY <2>1, <3>1, <3>2 DEF rows
  <2>4. CASE rows # <<>>
    <3> DEFINE all == rows \o Among(g.rows, ToSet(g.rows) \ ToSet(rows))
               shown == SubSeq(all, 1, IF Len(all) > ShownMax THEN ShownMax ELSE Len(all))
               h == [g EXCEPT !.newest = Top(rows), !.known = Trimmed(Learn(g.known, rows)), !.rows = shown]
    <3>1. all \in Seq(Nat)
      BY <1>1, <1>2, AmongKeeps
    <3>2. shown \in Seq(Nat)
      <4> HIDE DEF all
      <4> QED
        BY <3>1, Shown
    <3>3. Merged(n, rows) = [n EXCEPT !.known = Trimmed(Learn(@, rows)), !.rows = shown]
      <4>1. Among(rows, ToSet(rows) \ ToSet(n.known)) = rows
        BY <2>1, <2>2 DEF K
      <4>2. rows \o Among(n.rows, ToSet(n.rows) \ ToSet(rows)) = all
        BY <2>1
      <4> HIDE DEF n, all
      <4> QED
        BY <2>4, <4>1, <4>2 DEF Merged
    <3> HIDE DEF shown
    <3>4. top = Top(rows)
      BY <1>3, <1>4, <2>4
    <3>5. Merged(n, rows) = h
      BY <3>3, <3>4 DEF PageType
    <3>6. Follows(h, q, d)
      BY <1>1, <1>8, <2>4, <3>2, MergedFollows DEF rows
    <3>7. h.selected = g.selected
      BY DEF PageType
    <3> HIDE DEF h
    <3> QED
      BY <2>1, <3>5, <3>6, <3>7 DEF rows
  <2> QED
    BY <2>3, <2>4
<1> QED
  BY <1>7, <1>8

(* What the invariant of the stream says of a buffer, a page and its request.    *)
LEMMA OnTheShelf ==
  ASSUME StreamInv, NEW s
  PROVE  /\ Len(db) \in Nat /\ Shelf(buffer, s) \in Seq(Nat)
         /\ \A i \in 1..Len(Shelf(buffer, s)) : /\ Shelf(buffer, s)[i] \in RowsIn(db, s)
                                               /\ Shelf(buffer, s)[i] > 0
<1>1. Len(db) \in Nat /\ db \in Seq(RowType) /\ <<>> \in Seq(Nat) /\ 1..Len(<<>>) = {}
  BY LengthIsDomain DEF StreamInv
<1>2. CASE s \in Servers
  <2>1. buffer[s] \in Seq(Nat) /\ buffer[s] \in Seq(RowsIn(db, s))
    BY <1>2 DEF StreamInv, GoodBuffers, Buffers
  <2>2. DOMAIN db = 1..Len(db)
    BY <1>1, LengthIsDomain
  <2>3. \A x \in RowsIn(db, s) : x > 0
    BY <2>2, <1>1 DEF RowsIn
  <2>4. \A i \in 1..Len(buffer[s]) : buffer[s][i] \in RowsIn(db, s)
    BY <2>1, LengthIsDomain
  <2> QED
    BY <1>1, <1>2, <2>1, <2>3, <2>4 DEF Shelf
<1>3. CASE s \notin Servers
  BY <1>1, <1>3 DEF Shelf
<1> QED
  BY <1>2, <1>3

LEMMA PagesAndRequests ==
  ASSUME StreamInv, NEW p \in Pages
  PROVE  /\ page[p] \in PageType /\ req[p] \in ReqType /\ GoodReq(req[p], db)
         /\ req[p].reply \in Seq(Nat) /\ Len(req[p].reply) <= PageSize
         /\ req[p].after \in Nat /\ page[p].newest \in Nat
BY DEF StreamInv, GoodPages, GoodReqs, GoodReq, ReqType, PageType

LEMMA CountsOfOrder ==
  ASSUME StreamInv
  PROVE  /\ spent.overlaps \in Nat /\ spent.restarts \in Nat
         /\ spent.refreshes \in Nat /\ spent.crossed \in Nat
         /\ DOMAIN spent = {"clicks", "refreshes", "losses", "restarts", "overlaps", "crossed"}
BY DEF StreamInv, SpentType

(* A buffer that changes: an empty one is filled, or the newest row is pushed.    *)
LEMMA ShelfChanges ==
  ASSUME NEW g \in PageType, NEW r \in ReqType, NEW q \in Seq(Nat), NEW q2 \in Seq(Nat),
         NEW d, Len(d) \in Nat, Follows(g, q, d), InStep(r, g, q, d),
         \A i \in 1..Len(q2) : q2[i] > 0,
         q # <<>> => /\ q2 # <<>>
                     /\ \A i \in 1..Len(q2) : q2[i] = Len(d) \/ Has(q, q2[i])
  PROVE  Follows(g, q2, d) /\ InStep(r, g, q2, d)
<1>1. /\ g.newest \in Nat /\ g.known \in Seq(Nat) /\ r.reply \in Seq(Nat) /\ r.after \in Nat
      /\ \A i \in 1..Len(q2) : q2[i] \in Nat
  BY LengthIsDomain DEF PageType, ReqType
<1>2. ASSUME NEW i \in 1..Len(q2), q2[i] <= g.newest PROVE Accounted(g.known, q2[i])
  <2>1. g.newest # 0
    BY <1>1, <1>2
  <2>2. q # <<>> /\ Has(g.known, g.newest) /\ g.newest <= Len(d) /\ Reached(g.known, g.newest, q)
    BY <2>1 DEF Follows
  <2>3. CASE q2[i] = Len(d)
    <3>1. q2[i] = g.newest
      BY <1>1, <1>2, <2>2, <2>3
    <3> QED
      BY <2>2, <3>1 DEF Accounted
  <2>4. CASE Has(q, q2[i])
    BY <1>2, <2>2, <2>4 DEF Reached, Has
  <2> QED
    BY <2>2, <2>3, <2>4
<1>3. Follows(g, q2, d)
  BY <1>2 DEF Follows, Reached
<1>4. ASSUME Answers(r, q, d) PROVE Answers(r, q2, d)
  <2>1. /\ Falling(r.reply) /\ (r.reply # <<>> => q # <<>>)
        /\ \A i \in 1..Len(r.reply) : r.reply[i] > r.after /\ r.reply[i] <= Len(d)
        /\ \A i \in 1..Len(q) : q[i] > r.after /\ q[i] <= Top(r.reply) => Accounted(r.reply, q[i])
    BY <1>4 DEF Answers
  <2>2. /\ Top(r.reply) \in Nat /\ (r.reply = <<>> => Top(r.reply) = 0)
        /\ (r.reply # <<>> => Has(r.reply, Top(r.reply)))
    BY <1>1, <2>1, TopIsAbove DEF Top
  <2>3. ASSUME NEW i \in 1..Len(q2), q2[i] > r.after, q2[i] <= Top(r.reply)
        PROVE  Accounted(r.reply, q2[i])
    <3>1. r.reply # <<>>
      <4>1. ~ (Top(r.reply) = 0)
        <5> DEFINE t == Top(r.reply)
        <5>1. t \in Nat /\ q2[i] <= t /\ q2[i] > 0 /\ q2[i] \in Nat
          BY <1>1, <2>2, <2>3
        <5> HIDE DEF t
        <5> QED
          BY <5>1 DEF t
      <4> QED
        BY <2>2, <4>1
    <3>2. Has(r.reply, Top(r.reply)) /\ Top(r.reply) <= Len(d) /\ q # <<>>
      BY <2>1, <2>2, <3>1 DEF Has
    <3>3. CASE q2[i] = Len(d)
      <4>1. q2[i] = Top(r.reply)
        BY <1>1, <2>2, <2>3, <3>2, <3>3
      <4> QED
        BY <3>2, <4>1 DEF Accounted
    <3>4. CASE Has(q, q2[i])
      <4>1. PICK k \in 1..Len(q) : q[k] = q2[i]
        BY <3>4 DEF Has
      <4>2. q[k] > r.after /\ q[k] <= Top(r.reply)
        BY <2>3, <4>1
      <4> QED
        BY <2>1, <4>1, <4>2
    <3> QED
      BY <3>2, <3>3, <3>4
  <2> QED
    BY <2>1, <2>3 DEF Answers
<1> QED
  BY <1>3, <1>4 DEF InStep

(* A database that grows.                                                       *)
LEMMA DatabaseGrows ==
  ASSUME NEW d \in Seq(RowType), NEW x \in RowType, NEW g \in PageType, NEW q \in Seq(Nat),
         NEW r, GoodReq(r, d), Follows(g, q, d), InStep(r, g, q, d)
  PROVE  Follows(g, q, Append(d, x)) /\ InStep(r, g, q, Append(d, x))
<1> DEFINE e == Append(d, x)
<1>1. /\ Len(d) \in Nat /\ Len(e) = Len(d) + 1 /\ e \in Seq(RowType)
      /\ \A i \in 1..Len(d) : e[i] = d[i]
  OBVIOUS
<1>2. DOMAIN d = 1..Len(d) /\ DOMAIN e = 1..(Len(d) + 1)
  BY <1>1, LengthIsDomain
<1> HIDE DEF e
<1>3. \A s : \A id \in RowsIn(e, s) : id \in RowsIn(d, s) \/ id = Len(d) + 1
  BY <1>1, <1>2 DEF RowsIn
<1>4. \A s : \A id \in RowsIn(d, s) : id \in 1..Len(d)
  BY <1>2 DEF RowsIn
<1>5. g.newest \in Nat /\ r.reply \in Seq(Nat) /\ \A i \in 1..Len(r.reply) : r.reply[i] \in Nat
  BY LengthIsDomain DEF PageType, GoodReq, ReqType
<1>6. Follows(g, q, e)
  BY <1>1, <1>5 DEF Follows
<1>7. ASSUME r.stage = "seed", Seeds(r, d) PROVE Seeds(r, e)
  <2>1. r.reply \in Seq(RowsIn(d, r.server)) /\ Falling(r.reply)
    BY <1>7 DEF GoodReq, Seeds
  <2>2. Top(r.reply) \in Nat /\ Top(r.reply) <= Len(d)
    <3>1. CASE r.reply = <<>>
      BY <1>1, <3>1 DEF Top
    <3>2. CASE r.reply # <<>>
      <4>1. Has(r.reply, Top(r.reply))
        BY <1>5, <2>1, <3>2, TopIsAbove
      <4>2. \A i \in 1..Len(r.reply) : r.reply[i] \in RowsIn(d, r.server)
        BY <2>1, LengthIsDomain
      <4> QED
        BY <1>1, <1>4, <4>1, <4>2 DEF Has
    <3> QED
      BY <3>1, <3>2
  <2>3. \A id \in RowsIn(e, r.server) : id <= Top(r.reply) => id \in RowsIn(d, r.server)
    BY <1>1, <1>3, <2>2
  <2> QED
    BY <1>7, <2>3 DEF Seeds
<1>8. ASSUME Answers(r, q, d) PROVE Answers(r, q, e)
  BY <1>1, <1>5, <1>8 DEF Answers
<1>9. InStep(r, g, q, e)
  BY <1>7, <1>8 DEF InStep
<1> QED
  BY <1>6, <1>9 DEF e

(* One step of one page.                                                        *)
LEMMA PageInStep ==
  ASSUME StreamInv, Orderly(handlers, issued, db, buffer, page, req), NEW p \in Pages,
         NEW g, NEW r, Follows(g, Shelf(buffer, g.selected), db),
         InStep(r, g, Shelf(buffer, g.selected), db)
  PROVE  Orderly(handlers, issued, db, buffer, [page EXCEPT ![p] = g], [req EXCEPT ![p] = r])
<1> DEFINE P == [page EXCEPT ![p] = g]
           R == [req EXCEPT ![p] = r]
<1>1. /\ P[p] = g /\ R[p] = r
      /\ \A o \in Pages \ {p} : P[o] = page[o] /\ R[o] = req[o]
  BY DEF StreamInv, GoodPages, GoodReqs
<1> HIDE DEF P, R
<1>2. ASSUME NEW o \in Pages
      PROVE  Follows(P[o], Shelf(buffer, P[o].selected), db)
             /\ InStep(R[o], P[o], Shelf(buffer, P[o].selected), db)
  <2>1. CASE o = p
    BY <1>1, <2>1
  <2>2. CASE o # p
    <3>1. P[o] = page[o] /\ R[o] = req[o]
      BY <1>1, <2>2
    <3> QED
      BY <3>1 DEF Orderly
  <2> QED
    BY <2>1, <2>2
<1> QED
  BY <1>2 DEF Orderly, P, R

LEMMA RequestInStep ==
  ASSUME StreamInv, Orderly(handlers, issued, db, buffer, page, req), NEW p \in Pages,
         NEW r, InStep(r, page[p], Shelf(buffer, page[p].selected), db)
  PROVE  Orderly(handlers, issued, db, buffer, page, [req EXCEPT ![p] = r])
<1>1. page = [page EXCEPT ![p] = page[p]]
  BY DEF StreamInv, GoodPages
<1>2. Follows(page[p], Shelf(buffer, page[p].selected), db)
  BY DEF Orderly
<1> QED
  BY <1>1, <1>2, PageInStep

LEMMA NoReqInStep == ASSUME NEW g, NEW q, NEW d PROVE InStep(NoReq, g, q, d)
BY DEF InStep, NoReq

(* The handlers.                                                                *)
LEMMA InsertInOrder ==
  ASSUME StreamInv, OrderInv, NEW s \in Servers, Insert(s) PROVE OrderInv'
<1> SUFFICES ASSUME InOrder' PROVE Orderly(handlers', issued', db, buffer, page, req)
  BY DEF OrderInv, Insert
<1>1. handlers = {} /\ spent' = spent
  <2>1. handlers # {} => spent'.overlaps = spent.overlaps + 1
    BY CountsOfOrder DEF Insert
  <2>2. spent'.overlaps = 0
    BY DEF InOrder
  <2>3. spent.overlaps \in Nat
    BY CountsOfOrder
  <2> QED
    BY <2>1, <2>2, <2>3 DEF Insert
<1>2. Orderly(handlers, issued, db, buffer, page, req)
  BY <1>1 DEF OrderInv, InOrder
<1> DEFINE h == [server |-> s, at |-> issued + 1, id |-> 0]
<1>3. handlers' = {h} /\ issued' = issued + 1 /\ issued = Len(db) /\ h.id = 0 /\ h.at = issued + 1
  BY <1>1, <1>2 DEF Insert, Orderly, OneByOne
<1> HIDE DEF h
<1>4. OneByOne({h}, issued + 1, db)
  BY <1>2, <1>3 DEF Orderly, OneByOne
<1> QED
  BY <1>2, <1>3, <1>4 DEF Orderly

LEMMA CommitInOrder ==
  ASSUME StreamInv, OrderInv, NEW h \in handlers, Commit(h) PROVE OrderInv'
<1> SUFFICES ASSUME InOrder PROVE Orderly(handlers', issued, db', buffer, page, req)
  BY DEF OrderInv, InOrder, Commit
<1>1. Orderly(handlers, issued, db, buffer, page, req)
  BY DEF OrderInv
<1> DEFINE x == [server |-> h.server, at |-> h.at]
           i == [h EXCEPT !.id = Len(db) + 1]
<1>2. /\ db \in Seq(RowType) /\ h \in HandlerType /\ x \in RowType /\ db' = Append(db, x)
      /\ Len(db) \in Nat
  BY LengthIsDomain DEF StreamInv, GoodHandlers, HandlerType, RowType, Commit
<1>3. h.id = 0 /\ handlers' = {i} /\ i.id = Len(db) + 1
  BY <1>1, <1>2 DEF Commit, Orderly, OneByOne, HandlerType
<1>4. x.at = Len(db) + 1 /\ issued = Len(db) + 1
  BY <1>1, <1>3 DEF Orderly, OneByOne
<1> HIDE DEF x, i
<1>5. Len(db') = Len(db) + 1 /\ db'[Len(db) + 1] = x /\ \A j \in 1..Len(db) : db'[j] = db[j]
  BY <1>2
<1>6. OneByOne({i}, issued, db')
  <2>1. \A j \in 1..Len(db') : db'[j].at = j
    <3>1. \A j \in 1..(Len(db) + 1) : j \in 1..Len(db) \/ j = Len(db) + 1
      BY <1>2
    <3> QED
      BY <1>1, <1>4, <1>5, <3>1 DEF Orderly, OneByOne
  <2>2. i.id # 0 /\ i.id = Len(db') /\ issued = Len(db')
    BY <1>2, <1>3, <1>4, <1>5
  <2> QED
    BY <2>1, <2>2 DEF OneByOne
<1>7. ASSUME NEW p \in Pages
      PROVE  /\ Follows(page[p], Shelf(buffer, page[p].selected), db')
             /\ InStep(req[p], page[p], Shelf(buffer, page[p].selected), db')
  <2>1. Shelf(buffer, page[p].selected) \in Seq(Nat)
    BY OnTheShelf
  <2>2. page[p] \in PageType /\ GoodReq(req[p], db)
    BY PagesAndRequests
  <2>3. /\ Follows(page[p], Shelf(buffer, page[p].selected), db)
        /\ InStep(req[p], page[p], Shelf(buffer, page[p].selected), db)
    BY <1>1 DEF Orderly
  <2> QED
    BY <1>2, <2>1, <2>2, <2>3, DatabaseGrows
<1> QED
  BY <1>1, <1>3, <1>6, <1>7 DEF Orderly

(* One buffer that changes, and what it changes for the pages that look at it.   *)
LEMMA BufferInOrder ==
  ASSUME StreamInv, Orderly(handlers, issued, db, buffer, page, req), NEW s \in Servers,
         NEW q2 \in Seq(Nat), Falling(q2), \A i \in 1..Len(q2) : q2[i] > 0,
         buffer[s] # <<>> => /\ q2 # <<>>
                             /\ \A i \in 1..Len(q2) : q2[i] = Len(db) \/ Has(buffer[s], q2[i])
  PROVE  Orderly(handlers, issued, db, [buffer EXCEPT ![s] = q2], page, req)
<1> DEFINE b == [buffer EXCEPT ![s] = q2]
<1>1. b[s] = q2 /\ \A t \in Servers \ {s} : b[t] = buffer[t]
  BY DEF StreamInv, GoodBuffers
<1> HIDE DEF b
<1>2. \A t \in Servers : Falling(b[t])
  <2> SUFFICES ASSUME NEW t \in Servers PROVE Falling(b[t])
    OBVIOUS
  <2>1. t = s \/ b[t] = buffer[t]
    BY <1>1
  <2> QED
    BY <1>1, <2>1 DEF Orderly
<1>3. ASSUME NEW p \in Pages
      PROVE  /\ Follows(page[p], Shelf(b, page[p].selected), db)
             /\ InStep(req[p], page[p], Shelf(b, page[p].selected), db)
  <2>1. /\ Follows(page[p], Shelf(buffer, page[p].selected), db)
        /\ InStep(req[p], page[p], Shelf(buffer, page[p].selected), db)
    BY DEF Orderly
  <2>2. CASE page[p].selected # s
    <3>1. Shelf(b, page[p].selected) = Shelf(buffer, page[p].selected)
      BY <1>1, <2>2 DEF Shelf
    <3> QED
      BY <2>1, <3>1
  <2>3. CASE page[p].selected = s
    <3>1. Shelf(b, page[p].selected) = q2 /\ Shelf(buffer, page[p].selected) = buffer[s]
      BY <1>1, <2>3 DEF Shelf
    <3>2. page[p] \in PageType /\ req[p] \in ReqType
      BY PagesAndRequests
    <3>3. buffer[s] \in Seq(Nat) /\ Len(db) \in Nat
      BY <3>1, OnTheShelf
    <3> QED
      BY <2>1, <3>1, <3>2, <3>3, ShelfChanges
  <2> QED
    BY <2>2, <2>3
<1> QED
  BY <1>2, <1>3 DEF Orderly, b

LEMMA PushInOrder ==
  ASSUME StreamInv, OrderInv, NEW h \in handlers, Push(h) PROVE OrderInv'
<1> SUFFICES ASSUME InOrder PROVE Orderly(handlers', issued, db, buffer', page, req)
  BY DEF OrderInv, InOrder, Push
<1>1. Orderly(handlers, issued, db, buffer, page, req)
  BY DEF OrderInv
<1> DEFINE s == h.server
           q2 == Pushed(buffer[s], h.id)
<1>2. s \in Servers /\ h.id \in Nat
  BY DEF StreamInv, GoodHandlers, HandlerType
<1>3. h.id # 0 /\ h.id = Len(db) /\ issued = Len(db) /\ handlers' = {}
  BY <1>1 DEF Push, Orderly, OneByOne
<1>4. /\ buffer[s] \in Seq(Nat) /\ Falling(buffer[s]) /\ Len(db) \in Nat
      /\ \A i \in 1..Len(buffer[s]) : buffer[s][i] \in RowsIn(db, s) /\ buffer[s][i] > 0
  BY <1>1, <1>2, OnTheShelf DEF Orderly, Shelf
<1>5. \A i \in 1..Len(buffer[s]) : buffer[s][i] <= h.id
  <2>1. DOMAIN db = 1..Len(db)
    BY LengthIsDomain DEF StreamInv
  <2>2. \A x \in RowsIn(db, s) : x <= Len(db)
    BY <1>4, <2>1 DEF RowsIn
  <2> QED
    BY <1>3, <1>4, <2>2
<1>6. /\ q2 \in Seq(Nat) /\ Falling(q2) /\ q2 # <<>>
      /\ \A i \in 1..Len(q2) : q2[i] = h.id \/ Has(buffer[s], q2[i])
  BY <1>2, <1>4, <1>5, PushFalls
<1>7. buffer' = [buffer EXCEPT ![s] = q2]
  BY DEF Push
<1> HIDE DEF q2
<1>8. \A i \in 1..Len(q2) : q2[i] > 0
  <2>1. \A x : Has(buffer[s], x) => x > 0
    BY <1>4 DEF Has
  <2> QED
    BY <1>2, <1>3, <1>6, <2>1
<1>9. Orderly(handlers, issued, db, buffer', page, req)
  BY <1>1, <1>2, <1>3, <1>6, <1>7, <1>8, BufferInOrder
<1>10. OneByOne({}, issued, db)
  BY <1>1, <1>3 DEF Orderly, OneByOne
<1> QED
  BY <1>3, <1>9, <1>10 DEF Orderly

(* The service.                                                                *)
LEMMA ReadAfterIsNewer ==
  ASSUME NEW q \in Seq(Nat), Falling(q), \A i \in 1..Len(q) : q[i] > 0, NEW a \in Nat
  PROVE  /\ ReadAfter(q, a) \in Seq(Nat) /\ Falling(ReadAfter(q, a))
         /\ \A i \in 1..Len(ReadAfter(q, a)) : ReadAfter(q, a)[i] > a /\ Has(q, ReadAfter(q, a)[i])
         /\ \A i \in 1..Len(q) : q[i] > a => Has(ReadAfter(q, a), q[i])
<1> DEFINE K == {id \in ToSet(q) : id > a}
           rows == Among(q, K)
<1>1. CASE a = 0
  BY <1>1 DEF ReadAfter, Has
<1>2. CASE a # 0
  <2>1. ReadAfter(q, a) = rows
    BY <1>2 DEF ReadAfter
  <2>2. rows \in Seq(Nat) /\ Falling(rows) /\ ToSet(rows) = ToSet(q) \cap K
    BY AmongKeeps, AmongFalls
  <2> HIDE DEF rows
  <2>3. DOMAIN q = 1..Len(q) /\ DOMAIN rows = 1..Len(rows)
    BY <2>2, LengthIsDomain
  <2>4. ASSUME NEW i \in 1..Len(rows) PROVE rows[i] > a /\ Has(q, rows[i])
    <3>1. rows[i] \in K /\ rows[i] \in ToSet(q)
      BY <2>2, <2>3 DEF ToSet
    <3> QED
      BY <2>3, <3>1 DEF ToSet, Has
  <2>5. ASSUME NEW i \in 1..Len(q), q[i] > a PROVE Has(rows, q[i])
    <3>1. q[i] \in ToSet(rows)
      BY <2>2, <2>3, <2>5 DEF ToSet
    <3> QED
      BY <2>3, <3>1 DEF ToSet, Has
  <2> QED
    BY <2>1, <2>2, <2>4, <2>5
<1> QED
  BY <1>1, <1>2

LEMMA ReadBufferInOrder ==
  ASSUME StreamInv, OrderInv, NEW p \in Pages, ReadBuffer(p) PROVE OrderInv'
<1> SUFFICES ASSUME InOrder PROVE Orderly(handlers, issued, db, buffer, page, req')
  BY DEF OrderInv, InOrder, ReadBuffer
<1> DEFINE r == req[p]
           g == page[p]
           q == buffer[r.server]
           rows == ReadAfter(q, r.after)
<1>1. Orderly(handlers, issued, db, buffer, page, req)
  BY DEF OrderInv
<1>2. r.stage = "sent" /\ r \in ReqType /\ r.after \in Nat
  BY PagesAndRequests DEF ReadBuffer
<1>3. Asked(r, g) /\ Follows(g, Shelf(buffer, g.selected), db)
  BY <1>1, <1>2 DEF Orderly, InStep
<1>4. r.server \in Servers /\ Shelf(buffer, g.selected) = q
  BY <1>3 DEF Asked, Shelf
<1>5. /\ q \in Seq(Nat) /\ Falling(q) /\ Len(db) \in Nat
      /\ \A i \in 1..Len(q) : q[i] \in RowsIn(db, r.server) /\ q[i] > 0
  <2>1. Falling(q) /\ g.selected = r.server
    BY <1>1, <1>3, <1>4 DEF Orderly, Asked
  <2> HIDE DEF q, r, g
  <2> QED
    BY <1>4, <2>1, OnTheShelf
<1>6. \A i \in 1..Len(q) : q[i] <= Len(db)
  <2>1. DOMAIN db = 1..Len(db)
    BY LengthIsDomain DEF StreamInv
  <2>2. \A x \in RowsIn(db, r.server) : x <= Len(db)
    BY <1>5, <2>1 DEF RowsIn
  <2> QED
    BY <1>5, <2>2
<1>7. CASE r.after = 0 /\ rows = <<>>
  <2> DEFINE m == [r EXCEPT !.stage = "seeding"]
  <2>1. req' = [req EXCEPT ![p] = m]
    BY <1>7 DEF ReadBuffer, Move
  <2>2. /\ m.stage = "seeding" /\ m.server = r.server /\ m.after = r.after /\ m.mode = r.mode
    BY <1>2 DEF ReqType
  <2> HIDE DEF m, g, r
  <2>3. InStep(m, g, q, db)
    BY <1>3, <1>7, <2>2 DEF InStep, Asked
  <2> QED
    BY <1>1, <1>4, <2>1, <2>3, RequestInStep DEF g
<1>8. CASE ~ (r.after = 0 /\ rows = <<>>)
  <2>1. ~ (r.after # 0 /\ q = <<>>)
    BY <1>3, <1>4 DEF Asked, Follows
  <2>2. req' = [req EXCEPT ![p] = Answer(r, rows)]
    BY <1>8, <2>1 DEF ReadBuffer, Move
  <2> DEFINE a == Answer(r, rows)
             reply == FirstRows(rows)
  <2>3. /\ a.stage = "answer" /\ a.server = r.server /\ a.after = r.after /\ a.mode = r.mode
        /\ a.reply = reply
    BY <1>2 DEF ReqType, Answer
  <2>4. /\ rows \in Seq(Nat) /\ Falling(rows)
        /\ \A i \in 1..Len(rows) : rows[i] > r.after /\ Has(q, rows[i])
        /\ \A i \in 1..Len(q) : q[i] > r.after => Has(rows, q[i])
    BY <1>2, <1>5, ReadAfterIsNewer
  <2> HIDE DEF a, rows
  <2>5. /\ reply \in Seq(Nat) /\ Falling(reply) /\ (reply # <<>> => rows # <<>>)
        /\ \A i \in 1..Len(reply) : Has(rows, reply[i])
        /\ \A i \in 1..Len(rows) : Accounted(reply, rows[i])
    BY <2>4, FirstRowsAccount
  <2> HIDE DEF reply, r, g, q
  <2>6. Answers(a, q, db)
    <3>1. \A x : Has(rows, x) => x > r.after /\ x <= Len(db) /\ Accounted(reply, x)
      BY <1>6, <2>4, <2>5 DEF Has
    <3>2. \A i \in 1..Len(q) : q[i] > r.after => Accounted(reply, q[i])
      BY <2>4, <3>1
    <3>3. reply # <<>> => q # <<>>
      <4>1. rows # <<>> => Has(rows, Top(rows))
        BY <2>4, TopIsAbove
      <4>2. Has(rows, Top(rows)) => \E i \in 1..Len(q) : TRUE
        BY <2>4 DEF Has
      <4>3. Len(<<>>) = 0 /\ 1..0 = {}
        OBVIOUS
      <4> QED
        BY <2>5, <4>1, <4>2, <4>3
    <3> QED
      BY <2>3, <2>5, <3>1, <3>2, <3>3 DEF Answers
  <2>7. Asked(a, g)
    BY <1>3, <2>3 DEF Asked
  <2>8. InStep(a, g, q, db)
    BY <2>3, <2>6, <2>7 DEF InStep
  <2> QED
    BY <1>1, <1>4, <2>2, <2>8, RequestInStep DEF a, g
<1> QED
  BY <1>7, <1>8

(* orderBy receivedAt: where times rise with ids, the rows by falling id, and all. *)
LEMMA RowsByTime ==
  ASSUME StreamInv, \A i \in 1..Len(db) : db[i].at = i, NEW s, NEW rows \in ByTime(s)
  PROVE  rows \in Seq(Nat) /\ Falling(rows) /\ \A id \in RowsIn(db, s) : Has(rows, id)
<1> DEFINE X == RowsIn(db, s)
           n == Cardinality(X)
           at == [id \in X |-> db[id].at]
<1>1. X \subseteq Nat /\ IsFiniteSet(X) /\ X \subseteq 1..Len(db)
  <2>1. db \in Seq(RowType)
    BY DEF StreamInv
  <2>2. DOMAIN db = 1..Len(db)
    BY <2>1, LengthIsDomain
  <2> QED
    BY <2>1, <2>2, RowsAreNumbers DEF RowsIn
<1>2. n \in Nat
  BY <1>1, FS_CardinalityType
<1>3. \A id \in X : at[id] = id
  BY <1>1
<1>4. rows \in [1..n -> X] /\ \A i, j \in DOMAIN rows : i < j => at[rows[i]] > at[rows[j]]
  BY DEF ByTime, Descending, RowsOf, RowsIn
<1> HIDE DEF X, n, at
<1>5. \A i, j \in 1..n : i < j => rows[i] > rows[j]
  BY <1>3, <1>4
<1>6. rows \in Seq(Nat) /\ Len(rows) = n
  <2>1. rows \in [1..n -> Nat]
    BY <1>1, <1>4
  <2> QED
    BY <1>2, <2>1
<1>7. rows \in Injection(1..n, X)
  <2>1. \A i, j \in 1..n : rows[i] = rows[j] => i = j
    <3> SUFFICES ASSUME NEW i \in 1..n, NEW j \in 1..n, rows[i] = rows[j] PROVE i = j
      OBVIOUS
    <3>1. rows[i] \in Nat /\ rows[j] \in Nat
      BY <1>1, <1>4
    <3> QED
      BY <1>2, <1>5, <3>1
  <2> QED
    BY <1>4, <2>1 DEF Injection, IsInjective
<1>8. rows \in Surjection(1..n, X)
  <2>1. Cardinality(1..n) = n
    BY <1>2, FS_Interval
  <2> QED
    BY <1>1, <1>7, <2>1, FS_Injection DEF n
<1>9. \A id \in X : \E i \in 1..n : rows[i] = id
  BY <1>8 DEF Surjection
<1> QED
  BY <1>5, <1>6, <1>9 DEF Falling, Has, X

LEMMA QueryInOrder ==
  ASSUME StreamInv, OrderInv, NEW p \in Pages, Query(p) PROVE OrderInv'
<1> SUFFICES ASSUME InOrder PROVE Orderly(handlers, issued, db, buffer, page, req')
  BY DEF OrderInv, InOrder, Query
<1> DEFINE r == req[p]
           g == page[p]
           q == Shelf(buffer, g.selected)
<1>1. Orderly(handlers, issued, db, buffer, page, req)
  BY DEF OrderInv
<1>2. r.stage \in {"seeding", "refilling"} /\ r \in ReqType
  BY PagesAndRequests DEF Query
<1>3. Asked(r, g)
  BY <1>1, <1>2 DEF Orderly, InStep
<1>4. r.stage = "seeding"
  BY <1>2, <1>3 DEF Asked
<1>5. PICK rows \in ByTime(r.server) :
         req' = [req EXCEPT ![p] = [r EXCEPT !.stage = "seed", !.reply = FirstRows(rows)]]
  BY <1>4 DEF Query, Move
<1> DEFINE reply == FirstRows(rows)
           a == [r EXCEPT !.stage = "seed", !.reply = reply]
<1>6. /\ rows \in Seq(Nat) /\ Falling(rows)
      /\ \A id \in RowsIn(db, r.server) : Has(rows, id)
  BY <1>1, RowsByTime DEF Orderly, OneByOne
<1>7. Falling(reply) /\ \A i \in 1..Len(rows) : Accounted(reply, rows[i])
  BY <1>6, FirstRowsAccount
<1>8. /\ a.stage = "seed" /\ a.server = r.server /\ a.after = r.after /\ a.mode = r.mode
      /\ a.reply = reply
  BY <1>2 DEF ReqType
<1>9. req' = [req EXCEPT ![p] = a]
  BY <1>5
<1> HIDE DEF a, reply, r, q
<1>10. Seeds(a, db)
  BY <1>6, <1>7, <1>8 DEF Seeds, Has
<1>11. Asked(a, g)
  BY <1>3, <1>4, <1>8 DEF Asked
<1>12. InStep(a, g, q, db)
  BY <1>8, <1>10, <1>11 DEF InStep
<1> QED
  BY <1>1, <1>9, <1>12, RequestInStep DEF q

LEMMA AllFirstRows ==
  ASSUME NEW q \in Seq(Nat), Len(q) <= PageSize PROVE FirstRows(q) = q
<1>1. Len(q) \in Nat /\ PageSize \in Nat
  BY StreamAssumption
<1>2. FirstRows(q) = SubSeq(q, 1, Len(q))
  BY <1>1 DEF FirstRows
<1> QED
  BY <1>2

(* What the query found fills the buffer of its router, if that is still empty.   *)
LEMMA SeedInOrder ==
  ASSUME StreamInv, Orderly(handlers, issued, db, buffer, page, req), NEW s \in Servers,
         NEW rows \in Seq(RowsIn(db, s)), Falling(rows)
  PROVE  LET q2 == Seeded(buffer[s], rows)
         IN  /\ Orderly(handlers, issued, db, [buffer EXCEPT ![s] = q2], page, req)
             /\ \A i \in 1..Len(q2) : q2[i] \in RowsIn(db, s) /\ q2[i] > 0
             /\ rows # <<>> => q2 # <<>>
<1> DEFINE q == buffer[s]
           q2 == Seeded(q, rows)
           c == Capped(rows)
<1>1. /\ q \in Seq(Nat) /\ Falling(q) /\ Len(db) \in Nat
      /\ \A i \in 1..Len(q) : q[i] \in RowsIn(db, s) /\ q[i] > 0
  <2>1. Falling(q) /\ Shelf(buffer, s) = q
    BY DEF Orderly, Shelf
  <2> HIDE DEF q
  <2> QED
    BY <2>1, OnTheShelf
<1>2. /\ RowsIn(db, s) \subseteq Nat /\ \A x \in RowsIn(db, s) : x > 0
  <2>1. db \in Seq(RowType)
    BY DEF StreamInv
  <2>2. DOMAIN db = 1..Len(db)
    BY <2>1, LengthIsDomain
  <2> QED
    BY <1>1, <2>2 DEF RowsIn
<1>3. rows \in Seq(Nat) /\ \A i \in 1..Len(rows) : rows[i] \in RowsIn(db, s)
  BY <1>2, SequencesGrow, LengthIsDomain
<1>4. /\ c \in Seq(Nat) /\ Falling(c) /\ (rows # <<>> => c # <<>>)
      /\ \A i \in 1..Len(c) : Has(rows, c[i])
  BY <1>3, CapFalls
<1>5. \A i \in 1..Len(c) : c[i] \in RowsIn(db, s)
  BY <1>3, <1>4 DEF Has
<1>6. (q # <<>> => q2 = q) /\ (q2 = q \/ q2 = c) /\ (rows # <<>> => q2 = c \/ q # <<>>)
  BY DEF Seeded
<1> HIDE DEF q2, c
<1>7. /\ q2 \in Seq(Nat) /\ Falling(q2) /\ (rows # <<>> => q2 # <<>>)
      /\ \A i \in 1..Len(q2) : q2[i] \in RowsIn(db, s) /\ q2[i] > 0
  BY <1>1, <1>2, <1>4, <1>5, <1>6
<1>8. q # <<>> => q2 # <<>> /\ \A i \in 1..Len(q2) : Has(q, q2[i])
  BY <1>6 DEF Has
<1>9. Orderly(handlers, issued, db, [buffer EXCEPT ![s] = q2], page, req)
  BY <1>7, <1>8, BufferInOrder DEF q
<1> QED
  BY <1>7, <1>9 DEF q2, q

LEMMA FillBufferInOrder ==
  ASSUME StreamInv, OrderInv, NEW p \in Pages, FillBuffer(p) PROVE OrderInv'
<1> SUFFICES ASSUME InOrder PROVE Orderly(handlers, issued, db, buffer', page, req')
  BY DEF OrderInv, InOrder, FillBuffer
<1> DEFINE r == req[p]
           g == page[p]
           reply == r.reply
           q2 == Seeded(buffer[r.server], reply)
           b == [buffer EXCEPT ![r.server] = q2]
           a == Answer(r, reply)
<1>1. Orderly(handlers, issued, db, buffer, page, req)
  BY DEF OrderInv
<1>2. /\ r.stage \in {"seed", "refill"} /\ r \in ReqType
      /\ reply \in Seq(Nat) /\ Len(reply) <= PageSize /\ reply \in Seq(RowsIn(db, r.server))
  BY PagesAndRequests DEF FillBuffer, GoodReq
<1>3. Asked(r, g)
  BY <1>1, <1>2 DEF Orderly, InStep
<1>4. r.stage = "seed" /\ r.server \in Servers /\ r.after = 0 /\ r.server = g.selected
  BY <1>2, <1>3 DEF Asked
<1>5. Seeds(r, db)
  BY <1>1, <1>4 DEF Orderly, InStep
<1>6. buffer' = b /\ req' = [req EXCEPT ![p] = a]
  BY <1>4 DEF FillBuffer, Move
<1>7. a.stage = "answer" /\ a.server = r.server /\ a.after = r.after /\ a.mode = r.mode /\ a.reply = reply
  <2>1. FirstRows(reply) = reply
    BY <1>2, AllFirstRows
  <2> QED
    BY <1>2, <2>1 DEF ReqType, Answer
<1>8. Falling(reply)
  BY <1>5 DEF Seeds
<1>9. /\ Orderly(handlers, issued, db, b, page, req)
      /\ \A i \in 1..Len(q2) : q2[i] \in RowsIn(db, r.server) /\ q2[i] > 0
      /\ reply # <<>> => q2 # <<>>
  <2> HIDE DEF r, reply
  <2> QED
    BY <1>1, <1>2, <1>4, <1>8, SeedInOrder
<1>10. Shelf(b, g.selected) = q2
  BY <1>4 DEF Shelf, StreamInv, GoodBuffers
<1> HIDE DEF a, b, q2
<1>11. Answers(a, q2, db)
  <2>1. \A x \in RowsIn(db, r.server) : x > 0 /\ x <= Len(db)
    <3>1. db \in Seq(RowType)
      BY DEF StreamInv
    <3>2. DOMAIN db = 1..Len(db) /\ Len(db) \in Nat
      BY <3>1, LengthIsDomain
    <3> QED
      BY <3>2 DEF RowsIn
  <2>2. \A i \in 1..Len(reply) : reply[i] \in RowsIn(db, r.server)
    BY <1>2, LengthIsDomain
  <2>3. \A i \in 1..Len(q2) : q2[i] <= Top(reply) => Accounted(reply, q2[i])
    BY <1>5, <1>9 DEF Seeds
  <2> HIDE DEF reply, r
  <2> QED
    BY <1>4, <1>7, <1>8, <1>9, <2>1, <2>2, <2>3 DEF Answers
<1>12. Asked(a, g)
  BY <1>3, <1>7 DEF Asked
<1>13. InStep(a, g, q2, db)
  BY <1>7, <1>11, <1>12 DEF InStep
<1>14. Orderly(handlers, issued, db, b, page, [req EXCEPT ![p] = a])
  <2> DEFINE R == [req EXCEPT ![p] = a]
  <2>1. R[p] = a /\ \A o \in Pages \ {p} : R[o] = req[o]
    BY DEF StreamInv, GoodReqs
  <2> HIDE DEF R, g
  <2>2. \A o \in Pages : InStep(R[o], page[o], Shelf(b, page[o].selected), db)
    <3> SUFFICES ASSUME NEW o \in Pages
                 PROVE  InStep(R[o], page[o], Shelf(b, page[o].selected), db)
      OBVIOUS
    <3>1. CASE o = p
      BY <1>10, <1>13, <2>1, <3>1 DEF g
    <3>2. CASE o # p
      <4>1. R[o] = req[o]
        BY <2>1, <3>2
      <4> QED
        BY <1>9, <4>1 DEF Orderly
    <3> QED
      BY <3>1, <3>2
  <2> QED
    BY <1>9, <2>2 DEF Orderly, R
<1> QED
  BY <1>6, <1>14

(* The pages.                                                                  *)
LEMMA PollInOrder ==
  ASSUME StreamInv, OrderInv, NEW p \in Pages, Poll(p) PROVE OrderInv'
<1> SUFFICES ASSUME InOrder PROVE Orderly(handlers, issued, db, buffer, page, req')
  BY DEF OrderInv, InOrder, Poll
<1> DEFINE g == page[p]
           q == Shelf(buffer, g.selected)
           r == [stage |-> "sent", server |-> g.selected, mode |-> "silent",
                 after |-> g.newest, reply |-> <<>>]
<1>1. Orderly(handlers, issued, db, buffer, page, req)
  BY DEF OrderInv
<1>2. g \in PageType /\ g.selected \in Servers
  BY PagesAndRequests DEF PageType, Poll
<1>3. req' = [req EXCEPT ![p] = r]
  BY DEF Poll, Load
<1>4. InStep(r, g, q, db)
  BY <1>2 DEF InStep, Asked
<1> HIDE DEF r
<1> QED
  BY <1>1, <1>3, <1>4, RequestInStep

LEMMA SelectInOrder ==
  ASSUME StreamInv, OrderInv, NEW p \in Pages, NEW s \in Servers, Select(p, s) PROVE OrderInv'
<1> SUFFICES ASSUME InOrder' PROVE Orderly(handlers, issued, db, buffer, page', req')
  BY DEF OrderInv, Select
<1> DEFINE g == [page[p] EXCEPT !.selected = s, !.first = TRUE, !.known = <<>>,
                                !.newest = 0, !.rows = <<>>]
           q == Shelf(buffer, s)
           r == [stage |-> "sent", server |-> s, mode |-> "replace", after |-> 0, reply |-> <<>>]
<1>1. req[p].stage = "none" /\ InOrder
  <2> DEFINE crossed == IF req[p].stage = "none" THEN spent.crossed ELSE spent.crossed + 1
  <2>1. spent' = [spent EXCEPT !.clicks = @ + 1, !.crossed = crossed]
    BY DEF Select
  <2> HIDE DEF crossed
  <2>2. /\ spent'.overlaps = spent.overlaps /\ spent'.restarts = spent.restarts
        /\ spent'.refreshes = spent.refreshes /\ spent'.crossed = crossed
    BY <2>1, CountsOfOrder
  <2>3. spent.crossed \in Nat
    BY CountsOfOrder
  <2> QED
    BY <2>2, <2>3 DEF InOrder, crossed
<1>2. Orderly(handlers, issued, db, buffer, page, req)
  BY <1>1 DEF OrderInv
<1>3. page[p] \in PageType /\ q \in Seq(Nat) /\ \A i \in 1..Len(q) : q[i] > 0
  BY PagesAndRequests, OnTheShelf
<1>4. g.selected = s /\ g.newest = 0 /\ g.known = <<>>
  BY <1>3 DEF PageType
<1>5. page' = [page EXCEPT ![p] = g] /\ req' = [req EXCEPT ![p] = r]
  <2>1. page' = [page EXCEPT ![p] = g] /\ Load(p, g, "replace")
    BY DEF Select
  <2> HIDE DEF g
  <2> QED
    BY <1>1, <1>4, <2>1 DEF Load
<1>6. InStep(r, g, q, db)
  <2> HIDE DEF g, q
  <2> QED
    BY <1>4 DEF InStep, Asked
<1> HIDE DEF g, r, q
<1>7. Follows(g, q, db)
  <2>1. Len(g.known) = 0 /\ 1..0 = {}
    BY <1>4
  <2>2. \A i \in 1..Len(q) : ~ (q[i] <= 0)
    BY <1>3, LengthIsDomain
  <2>3. Len(db) \in Nat
    BY OnTheShelf
  <2> QED
    BY <1>4, <2>1, <2>2, <2>3 DEF Follows, Reached, NearlyRising
<1> QED
  BY <1>2, <1>4, <1>5, <1>6, <1>7, PageInStep DEF q

LEMMA PauseInOrder ==
  ASSUME StreamInv, OrderInv, NEW p \in Pages, Pause(p) PROVE OrderInv'
<1> SUFFICES ASSUME InOrder' PROVE Orderly(handlers, issued, db, buffer, page', req)
  BY DEF OrderInv, Pause
<1> DEFINE g == [page[p] EXCEPT !.live = ~@]
           q == Shelf(buffer, page[p].selected)
<1>1. Orderly(handlers, issued, db, buffer, page, req)
  BY CountsOfOrder DEF OrderInv, InOrder, Pause
<1>2. /\ g.selected = page[p].selected /\ g.newest = page[p].newest
      /\ g.known = page[p].known /\ g.first = page[p].first
  BY PagesAndRequests DEF PageType
<1>3. page' = [page EXCEPT ![p] = g] /\ req = [req EXCEPT ![p] = req[p]]
  BY DEF Pause, StreamInv, GoodReqs
<1> HIDE DEF g
<1>4. Follows(page[p], q, db) /\ InStep(req[p], page[p], q, db)
  BY <1>1 DEF Orderly
<1>5. Follows(g, q, db) /\ InStep(req[p], g, q, db)
  BY <1>2, <1>4 DEF Follows, InStep, Asked
<1> QED
  BY <1>1, <1>2, <1>3, <1>5, PageInStep

LEMMA ReceiveInOrder ==
  ASSUME StreamInv, OrderInv, NEW p \in Pages, Receive(p) PROVE OrderInv'
<1> SUFFICES ASSUME InOrder PROVE Orderly(handlers, issued, db, buffer, page', req')
  BY DEF OrderInv, InOrder, Receive
<1> DEFINE g == Loaded(page[p], req[p].mode, req[p].reply)
           q == Shelf(buffer, page[p].selected)
<1>1. Orderly(handlers, issued, db, buffer, page, req)
  BY DEF OrderInv
<1>2. page' = [page EXCEPT ![p] = g] /\ req' = [req EXCEPT ![p] = NoReq]
  BY DEF Receive, Move
<1>3. Follows(page[p], q, db) /\ InStep(req[p], page[p], q, db)
  BY <1>1 DEF Orderly
<1>4. /\ page[p] \in PageType /\ req[p] \in ReqType /\ Len(req[p].reply) <= PageSize
      /\ req[p].stage = "answer" /\ q \in Seq(Nat) /\ Len(db) \in Nat
      /\ \A i \in 1..Len(q) : q[i] > 0
  BY PagesAndRequests, OnTheShelf DEF Receive
<1>5. Follows(g, q, db) /\ g.selected = page[p].selected
  <2> HIDE DEF q
  <2> QED
    BY <1>3, <1>4, LoadedFollows
<1> HIDE DEF g
<1> QED
  BY <1>1, <1>2, <1>5, NoReqInStep, PageInStep

(* Refreshes and restarts are what InOrder leaves out; a request may be lost.     *)
LEMMA RefreshInOrder == ASSUME StreamInv, NEW p \in Pages, Refresh(p) PROVE OrderInv'
<1>1. spent'.refreshes = spent.refreshes + 1 /\ spent.refreshes \in Nat
  BY CountsOfOrder DEF Refresh
<1>2. ~ InOrder'
  BY <1>1 DEF InOrder
<1> QED
  BY <1>2 DEF OrderInv

LEMMA RestartInOrder == ASSUME StreamInv, Restart PROVE OrderInv'
<1>1. spent'.restarts = spent.restarts + 1 /\ spent.restarts \in Nat
  BY CountsOfOrder DEF Restart
<1>2. ~ InOrder'
  BY <1>1 DEF InOrder
<1> QED
  BY <1>2 DEF OrderInv

LEMMA LoseInOrder ==
  ASSUME StreamInv, OrderInv, NEW p \in Pages, Lose(p) PROVE OrderInv'
<1> SUFFICES ASSUME InOrder' PROVE Orderly(handlers, issued, db, buffer, page, req')
  BY DEF OrderInv, Lose
<1>1. Orderly(handlers, issued, db, buffer, page, req)
  BY CountsOfOrder DEF OrderInv, InOrder, Lose
<1>2. req' = [req EXCEPT ![p] = NoReq]
  BY DEF Lose, Move
<1> QED
  BY <1>1, <1>2, NoReqInStep, RequestInStep

LEMMA OrderStarts == ASSUME Init PROVE OrderInv
<1> DEFINE g == [selected |-> NoServer, rows |-> <<>>, known |-> <<>>,
                 newest |-> 0, first |-> TRUE, live |-> TRUE]
<1>1. Len(<<>>) = 0 /\ 1..0 = {}
  OBVIOUS
<1>2. OneByOne({}, 0, <<>>) /\ Falling(<<>>)
  BY <1>1 DEF OneByOne, Falling
<1>3. Follows(g, <<>>, <<>>)
  BY <1>1 DEF Follows, Reached, NearlyRising
<1>4. \A p \in Pages : page[p] = g /\ req[p] = NoReq
  BY DEF Init
<1> HIDE DEF g
<1>5. \A s : Shelf(buffer, s) = <<>>
  BY DEF Shelf, Init
<1> QED
  BY <1>2, <1>3, <1>4, <1>5, NoReqInStep DEF Init, OrderInv, Orderly

LEMMA OrderStutters == ASSUME OrderInv, UNCHANGED vars PROVE OrderInv'
BY DEF OrderInv, InOrder, vars

LEMMA OrderStep == ASSUME StreamInv, OrderInv, Next PROVE OrderInv'
<1>1. ASSUME NEW s \in Servers, Insert(s) PROVE OrderInv'
  BY <1>1, InsertInOrder
<1>2. ASSUME NEW h \in handlers, Commit(h) \/ Push(h) PROVE OrderInv'
  BY <1>2, CommitInOrder, PushInOrder
<1>3. ASSUME NEW p \in Pages, Serve(p) PROVE OrderInv'
  BY <1>3, ReadBufferInOrder, QueryInOrder, FillBufferInOrder DEF Serve
<1>4. ASSUME NEW p \in Pages, Receive(p) \/ Poll(p) \/ Refresh(p) \/ Pause(p) \/ Lose(p)
      PROVE  OrderInv'
  BY <1>4, ReceiveInOrder, PollInOrder, RefreshInOrder, PauseInOrder, LoseInOrder
<1>5. ASSUME NEW p \in Pages, NEW s \in Servers, Select(p, s) PROVE OrderInv'
  BY <1>5, SelectInOrder
<1>6. ASSUME Restart PROVE OrderInv'
  BY <1>6, RestartInOrder
<1> QED
  BY <1>1, <1>2, <1>3, <1>4, <1>5, <1>6 DEF Next, Ingest

LEMMA OrderHolds == Spec => [](StreamInv /\ OrderInv)
<1>1. Init => StreamInv /\ OrderInv
  BY StreamStarts, OrderStarts
<1>2. StreamInv /\ OrderInv /\ [Next]_vars => StreamInv' /\ OrderInv'
  BY StreamStep, StreamStutters, OrderStep, OrderStutters
<1> QED
  BY <1>1, <1>2, PTL DEF Spec

\* log-stream/page.tsx polls with the highest id it has seen, and stream-buffer.ts
\* answers with the newest rows above it.  Where rows are pushed in the order of their
\* ids, and nothing restarts, refreshes or is selected under an answer, the page knows
\* every row of the buffer up to that id, or passed over it behind a full answer of
\* newer rows, whatever other pages fill the buffer with, requests fail, and the page
\* forgets of the ids it knew.
THEOREM PollsSkipNothing == Spec => []NothingSkipped
<1>1. StreamInv /\ OrderInv => NothingSkipped
  <2> SUFFICES ASSUME StreamInv, OrderInv, NEW p \in Pages, InOrder,
                      page[p].selected # NoServer,
                      NEW id \in ToSet(buffer[page[p].selected]), id <= page[p].newest
               PROVE  Contains(page[p].known, id) \/ PassedOver(page[p].known, id)
    BY DEF NothingSkipped
  <2> DEFINE g == page[p]
             q == Shelf(buffer, g.selected)
  <2>1. g.selected \in Servers /\ g.known \in Seq(Nat)
    BY PagesAndRequests DEF PageType
  <2>2. q = buffer[g.selected] /\ q \in Seq(Nat)
    BY <2>1, OnTheShelf DEF Shelf
  <2>3. Reached(g.known, g.newest, q)
    BY DEF OrderInv, Orderly, Follows
  <2>4. DOMAIN q = 1..Len(q) /\ DOMAIN g.known = 1..Len(g.known)
    BY <2>1, <2>2, LengthIsDomain
  <2>5. PICK i \in 1..Len(q) : q[i] = id
    BY <2>2, <2>4 DEF ToSet
  <2>6. Accounted(g.known, id)
    BY <2>3, <2>5 DEF Reached
  <2> QED
    BY <2>4, <2>6 DEF Accounted, Has, Contains
<1> QED
  BY <1>1, OrderHolds, PTL

-----------------------------------------------------------------------------
(* Part 5.  What the heading of the page promises: rows of the selected router, and *)
(* the newest first.  While no router is selected under an answer, a request and   *)
(* its answer are of the router its page is at.                                  *)
SelectedUnlessCrossed == spent.crossed = 0 => OnlySelected

Own(r, g, d) ==
    /\ g.rows \in Seq(RowsIn(d, g.selected))
    /\ r.stage # "none" => r.server = g.selected /\ r.reply \in Seq(RowsIn(d, g.selected))
OwnInv == spent.crossed = 0 => \A p \in Pages : Own(req[p], page[p], db)

LEMMA RowsMakeASequence ==
  ASSUME NEW n \in Nat, NEW X, NEW q \in [1..n -> X]
  PROVE  q \in Seq(X)
OBVIOUS

LEMMA LoadedShows ==
  ASSUME NEW g \in PageType, NEW mode, NEW incoming \in Seq(Nat), Len(incoming) <= PageSize,
         Knows(g), NEW X, X \subseteq Nat, incoming \in Seq(X), g.rows \in Seq(X)
  PROVE  /\ Loaded(g, mode, incoming).rows \in Seq(X)
         /\ Loaded(g, mode, incoming).selected = g.selected
<1> DEFINE top == Newest(g, incoming)
           n == [g EXCEPT !.newest = top]
<1>1. top \in Nat
  BY LargestIsAbove DEF Newest, PageType
<1> HIDE DEF top
<1>2. n \in PageType /\ n.rows = g.rows /\ n.known = g.known /\ n.selected = g.selected
  BY <1>1 DEF PageType
<1>3. Loaded(g, mode, incoming) \in {Replaced(n, incoming), Merged(n, incoming)}
  BY DEF Loaded, n, top
<1> HIDE DEF n
<1>4. Replaced(n, incoming).rows = incoming /\ Replaced(n, incoming).selected = n.selected
  BY <1>2 DEF Replaced, PageType
<1>5. Merged(n, incoming).rows \in Seq(X) /\ Merged(n, incoming).selected = n.selected
  <2>1. CASE Merged(n, incoming) = n
    BY <1>2, <2>1
  <2>2. ASSUME NEW after \in Seq(Nat), NEW shown \in Seq(Nat), MergeOf(n, incoming, after, shown)
        PROVE  Merged(n, incoming).rows \in Seq(X) /\ Merged(n, incoming).selected = n.selected
    <3>1. /\ Merged(n, incoming) = [n EXCEPT !.known = after, !.rows = shown]
          /\ \A j \in 1..Len(shown) : shown[j] \in ToSet(incoming) \cup ToSet(g.rows)
      BY <1>2, <2>2 DEF MergeOf
    <3>2. Merged(n, incoming).rows = shown /\ Merged(n, incoming).selected = n.selected
      BY <1>2, <3>1 DEF PageType
    <3>3. ToSet(incoming) \subseteq X /\ ToSet(g.rows) \subseteq X
      BY LengthIsDomain DEF ToSet
    <3>4. \A j \in 1..Len(shown) : shown[j] \in X
      BY <3>1, <3>3
    <3>5. shown \in Seq(X)
      <4>1. shown \in [1..Len(shown) -> X] /\ Len(shown) \in Nat
        BY <3>4, LengthIsDomain
      <4> QED
        BY <4>1, RowsMakeASequence
    <3> QED
      BY <3>2, <3>5
  <2>3. Recognises(n.rows, n.known)
    BY <1>2 DEF Knows
  <2> QED
    BY <1>2, <2>1, <2>2, <2>3, MergedIsRecognised
<1> QED
  BY <1>2, <1>3, <1>4, <1>5

(* A page and its request that change; what was true of the others stays so.      *)
LEMMA OwnKept ==
  ASSUME StreamInv, OwnInv, NEW p \in Pages, NEW r, NEW g, spent'.crossed = spent.crossed,
         spent.crossed = 0 => Own(r, g, db),
         req' = [req EXCEPT ![p] = r], page' = [page EXCEPT ![p] = g], db' = db
  PROVE  OwnInv'
<1> SUFFICES ASSUME spent.crossed = 0, NEW o \in Pages PROVE Own(req'[o], page'[o], db)
  BY DEF OwnInv
<1>1. CASE o = p
  <2>1. req'[o] = r /\ page'[o] = g
    BY <1>1 DEF StreamInv, GoodReqs, GoodPages
  <2> QED
    BY <2>1
<1>2. CASE o # p
  <2>1. req'[o] = req[o] /\ page'[o] = page[o]
    BY <1>2 DEF StreamInv, GoodReqs, GoodPages
  <2> QED
    BY <2>1 DEF OwnInv
<1> QED
  BY <1>1, <1>2

LEMMA OwnRequest ==
  ASSUME StreamInv, OwnInv, NEW p \in Pages, NEW r, spent'.crossed = spent.crossed,
         spent.crossed = 0 => Own(r, page[p], db),
         req' = [req EXCEPT ![p] = r], page' = page, db' = db
  PROVE  OwnInv'
<1>1. page' = [page EXCEPT ![p] = page[p]]
  BY DEF StreamInv, GoodPages
<1> QED
  BY <1>1, OwnKept

LEMMA OwnOf ==
  ASSUME StreamInv, OwnInv, spent.crossed = 0, NEW p \in Pages
  PROVE  /\ Own(req[p], page[p], db) /\ page[p].rows \in Seq(RowsIn(db, page[p].selected))
         /\ RowsIn(db, page[p].selected) \subseteq Nat
BY RowsAreNumbers DEF OwnInv, Own, StreamInv

(* The handlers, and what the service reads.                                     *)
LEMMA IngestOwn ==
  ASSUME StreamInv, OwnInv, Ingest PROVE OwnInv'
<1>1. spent'.crossed = spent.crossed /\ req' = req /\ page' = page
  BY CountsOfOrder DEF Ingest, Insert, Commit, Push
<1>2. \A s : RowsIn(db, s) \subseteq RowsIn(db', s)
  <2>1. CASE db' = db
    BY <2>1
  <2>2. ASSUME NEW h \in handlers, Commit(h) PROVE \A s : RowsIn(db, s) \subseteq RowsIn(db', s)
    <3> DEFINE x == [server |-> h.server, at |-> h.at]
    <3>1. db \in Seq(RowType) /\ h \in HandlerType /\ x \in RowType /\ db' = Append(db, x)
      BY <2>2 DEF StreamInv, GoodHandlers, HandlerType, RowType, Commit
    <3> HIDE DEF x
    <3> QED
      BY <3>1, RowsStay
  <2> QED
    BY <2>1, <2>2 DEF Ingest, Insert, Push
<1> SUFFICES ASSUME spent.crossed = 0, NEW p \in Pages PROVE Own(req[p], page[p], db')
  BY <1>1 DEF OwnInv
<1>3. Own(req[p], page[p], db)
  BY DEF OwnInv
<1> QED
  BY <1>2, <1>3, SequencesGrow DEF Own

LEMMA ReadBufferOwn ==
  ASSUME StreamInv, OwnInv, NEW p \in Pages, ReadBuffer(p) PROVE OwnInv'
<1> DEFINE r == req[p]
           rows == ReadAfter(buffer[r.server], r.after)
           X == RowsIn(db, page[p].selected)
<1>1. r \in ReqType /\ r.stage = "sent" /\ r.server \in Servers
  BY PagesAndRequests DEF GoodReq, ServerStages, ReadBuffer
<1>2. PICK q \in {Answer(r, rows), [r EXCEPT !.stage = "seeding"], [r EXCEPT !.stage = "refilling"]} :
         req' = [req EXCEPT ![p] = q]
  BY DEF ReadBuffer, Move
<1>3. ASSUME spent.crossed = 0 PROVE Own(q, page[p], db)
  <2>1. Own(r, page[p], db) /\ page[p].rows \in Seq(X)
    BY <1>3, OwnOf
  <2>2. r.server = page[p].selected /\ r.reply \in Seq(X)
    BY <1>1, <2>1 DEF Own
  <2>3. buffer[r.server] \in Seq(X)
    BY <1>1, <2>2 DEF StreamInv, GoodBuffers, Buffers
  <2> HIDE DEF X
  <2>4. FirstRows(rows) \in Seq(X)
    BY <2>3, AmongKeeps, AnswerIsOfRows DEF ReadAfter
  <2>5. q.server = r.server /\ q.reply \in {r.reply, FirstRows(rows)}
    BY <1>1 DEF Answer, ReqType
  <2>6. q.server = page[p].selected /\ q.reply \in Seq(X)
    BY <2>2, <2>4, <2>5
  <2> QED
    BY <2>1, <2>6 DEF Own, X
<1> QED
  BY <1>2, <1>3, OwnRequest DEF ReadBuffer

LEMMA QueryOwn ==
  ASSUME StreamInv, OwnInv, NEW p \in Pages, Query(p) PROVE OwnInv'
<1> DEFINE r == req[p]
           X == RowsIn(db, page[p].selected)
<1>1. r \in ReqType /\ r.after \in Nat /\ r.stage \in {"seeding", "refilling"}
  BY PagesAndRequests DEF Query
<1>2. PICK st \in {"seed", "refill"}, rows \in ByTime(r.server) \cup ById(r.server, r.after) :
         req' = [req EXCEPT ![p] = [r EXCEPT !.stage = st, !.reply = FirstRows(rows)]]
  BY DEF Query, Move
<1> DEFINE q == [r EXCEPT !.stage = st, !.reply = FirstRows(rows)]
<1>3. ASSUME spent.crossed = 0 PROVE Own(q, page[p], db)
  <2>1. Own(r, page[p], db) /\ page[p].rows \in Seq(X)
    BY <1>3, OwnOf
  <2>2. r.server = page[p].selected
    BY <1>1, <2>1 DEF Own
  <2>3. rows \in Seq(X)
    BY <1>1, <2>2, QueriedRows
  <2> HIDE DEF X
  <2>4. FirstRows(rows) \in Seq(X)
    BY <2>3, AnswerIsOfRows
  <2>5. q.server = r.server /\ q.reply = FirstRows(rows)
    BY <1>1 DEF ReqType
  <2> HIDE DEF q
  <2> QED
    BY <2>1, <2>2, <2>4, <2>5 DEF Own, X
<1>4. req' = [req EXCEPT ![p] = q]
  BY <1>2
<1> HIDE DEF q
<1> QED
  BY <1>3, <1>4, OwnRequest DEF Query

LEMMA FillBufferOwn ==
  ASSUME StreamInv, OwnInv, NEW p \in Pages, FillBuffer(p) PROVE OwnInv'
<1> DEFINE r == req[p]
           q == Answer(r, r.reply)
           X == RowsIn(db, page[p].selected)
<1>1. r \in ReqType /\ r.stage \in {"seed", "refill"}
  BY PagesAndRequests DEF FillBuffer
<1>2. ASSUME spent.crossed = 0 PROVE Own(q, page[p], db)
  <2>1. Own(r, page[p], db) /\ page[p].rows \in Seq(X)
    BY <1>2, OwnOf
  <2>2. r.server = page[p].selected /\ r.reply \in Seq(X)
    BY <1>1, <2>1 DEF Own
  <2> HIDE DEF X
  <2>3. FirstRows(r.reply) \in Seq(X)
    BY <2>2, AnswerIsOfRows
  <2>4. q.server = r.server /\ q.reply = FirstRows(r.reply)
    BY <1>1 DEF Answer, ReqType
  <2> HIDE DEF q
  <2> QED
    BY <2>1, <2>2, <2>3, <2>4 DEF Own, X
<1>3. req' = [req EXCEPT ![p] = q]
  BY DEF FillBuffer, Move
<1> HIDE DEF q
<1> QED
  BY <1>2, <1>3, OwnRequest DEF FillBuffer

(* The page.                                                                    *)
LEMMA PollOwn ==
  ASSUME StreamInv, OwnInv, NEW p \in Pages, Poll(p) \/ Refresh(p) PROVE OwnInv'
<1>1. PICK mode \in {"silent", "replace"} : Load(p, page[p], mode)
  BY DEF Poll, Refresh
<1> DEFINE r == [stage |-> "sent", server |-> page[p].selected, mode |-> mode,
                 after |-> IF mode = "silent" THEN page[p].newest ELSE 0, reply |-> <<>>]
<1>2. spent'.crossed = spent.crossed /\ page' = page /\ db' = db
  BY CountsOfOrder DEF Poll, Refresh
<1>3. CASE req' = req
  BY <1>2, <1>3 DEF OwnInv
<1>4. CASE req' = [req EXCEPT ![p] = r]
  <2>1. ASSUME spent.crossed = 0 PROVE Own(r, page[p], db)
    <3>1. page[p].rows \in Seq(RowsIn(db, page[p].selected))
      BY <2>1, OwnOf
    <3>2. r.server = page[p].selected /\ r.reply \in Seq(RowsIn(db, page[p].selected))
      OBVIOUS
    <3> HIDE DEF r
    <3> QED
      BY <3>1, <3>2 DEF Own
  <2> HIDE DEF r
  <2> QED
    BY <1>2, <1>4, <2>1, OwnRequest
<1> QED
  BY <1>1, <1>3, <1>4 DEF Load

LEMMA SelectOwn ==
  ASSUME StreamInv, OwnInv, NEW p \in Pages, NEW s \in Servers, Select(p, s) PROVE OwnInv'
<1> SUFFICES ASSUME spent'.crossed = 0 PROVE OwnInv'
  BY DEF OwnInv
<1> DEFINE g == [page[p] EXCEPT !.selected = s, !.first = TRUE, !.known = <<>>,
                                !.newest = 0, !.rows = <<>>]
           r == [stage |-> "sent", server |-> s, mode |-> "replace", after |-> 0, reply |-> <<>>]
<1>1. req[p].stage = "none" /\ spent'.crossed = spent.crossed
  <2> DEFINE crossed == IF req[p].stage = "none" THEN spent.crossed ELSE spent.crossed + 1
  <2>1. spent' = [spent EXCEPT !.clicks = @ + 1, !.crossed = crossed]
    BY DEF Select
  <2> HIDE DEF crossed
  <2>2. spent'.crossed = crossed /\ spent.crossed \in Nat
    BY <2>1, CountsOfOrder
  <2> QED
    BY <2>2 DEF crossed
<1>2. g.selected = s /\ g.rows = <<>>
  BY PagesAndRequests DEF PageType
<1>3. page' = [page EXCEPT ![p] = g] /\ req' = [req EXCEPT ![p] = r] /\ db' = db
  <2>1. page' = [page EXCEPT ![p] = g] /\ Load(p, g, "replace") /\ db' = db
    BY DEF Select
  <2> HIDE DEF g
  <2> QED
    BY <1>1, <1>2, <2>1 DEF Load
<1>4. Own(r, g, db)
  <2> HIDE DEF g
  <2> QED
    BY <1>2 DEF Own
<1> HIDE DEF g, r
<1> QED
  BY <1>1, <1>3, <1>4, OwnKept

LEMMA PauseOwn ==
  ASSUME StreamInv, OwnInv, NEW p \in Pages, Pause(p) PROVE OwnInv'
<1> DEFINE g == [page[p] EXCEPT !.live = ~@]
<1>1. g.selected = page[p].selected /\ g.rows = page[p].rows
  BY PagesAndRequests DEF PageType
<1>2. page' = [page EXCEPT ![p] = g] /\ req' = [req EXCEPT ![p] = req[p]] /\ db' = db
  BY DEF Pause, StreamInv, GoodReqs
<1>3. spent'.crossed = spent.crossed
  BY CountsOfOrder DEF Pause
<1> HIDE DEF g
<1>4. spent.crossed = 0 => Own(req[p], g, db)
  BY <1>1 DEF OwnInv, Own
<1> QED
  BY <1>2, <1>3, <1>4, OwnKept

LEMMA ReceiveOwn ==
  ASSUME StreamInv, OwnInv, NEW p \in Pages, Receive(p) PROVE OwnInv'
<1> DEFINE g == Loaded(page[p], req[p].mode, req[p].reply)
           X == RowsIn(db, page[p].selected)
<1>1. ASSUME spent.crossed = 0 PROVE Own(NoReq, g, db)
  <2>1. Own(req[p], page[p], db) /\ X \subseteq Nat
    BY <1>1, OwnOf
  <2>2. req[p].reply \in Seq(X) /\ page[p].rows \in Seq(X)
    BY <2>1 DEF Own, Receive
  <2>3. /\ page[p] \in PageType /\ Knows(page[p])
        /\ req[p].reply \in Seq(Nat) /\ Len(req[p].reply) <= PageSize
    BY PagesAndRequests DEF StreamInv, GoodPages, GoodPage
  <2> HIDE DEF X
  <2>4. g.rows \in Seq(X) /\ g.selected = page[p].selected
    BY <2>1, <2>2, <2>3, LoadedShows
  <2> HIDE DEF g
  <2> QED
    BY <2>4 DEF Own, X, NoReq
<1>2. page' = [page EXCEPT ![p] = g] /\ req' = [req EXCEPT ![p] = NoReq]
      /\ db' = db /\ spent' = spent
  BY DEF Receive, Move
<1> HIDE DEF g
<1> QED
  BY <1>1, <1>2, OwnKept

LEMMA LoseOwn ==
  ASSUME StreamInv, OwnInv, NEW p \in Pages, Lose(p) PROVE OwnInv'
<1>1. req' = [req EXCEPT ![p] = NoReq] /\ page' = page /\ db' = db
  BY DEF Lose, Move
<1>2. spent'.crossed = spent.crossed
  BY CountsOfOrder DEF Lose
<1>3. spent.crossed = 0 => Own(NoReq, page[p], db)
  BY DEF OwnInv, Own, NoReq
<1> QED
  BY <1>1, <1>2, <1>3, OwnRequest

LEMMA RestartOwn == ASSUME StreamInv, OwnInv, Restart PROVE OwnInv'
<1>1. spent'.crossed = spent.crossed /\ page' = page /\ db' = db
  BY CountsOfOrder DEF Restart
<1>2. \A p \in Pages : req'[p] \in {req[p], NoReq}
  BY DEF Restart
<1> SUFFICES ASSUME spent.crossed = 0, NEW p \in Pages PROVE Own(req'[p], page[p], db)
  BY <1>1 DEF OwnInv
<1> QED
  BY <1>2 DEF OwnInv, Own, NoReq

LEMMA OwnStep == ASSUME StreamInv, OwnInv, [Next]_vars PROVE OwnInv'
<1>1. CASE Ingest
  BY <1>1, IngestOwn
<1>2. ASSUME NEW p \in Pages, Serve(p) PROVE OwnInv'
  BY <1>2, ReadBufferOwn, QueryOwn, FillBufferOwn DEF Serve
<1>3. ASSUME NEW p \in Pages, Receive(p) \/ Poll(p) \/ Refresh(p) \/ Pause(p) \/ Lose(p)
      PROVE  OwnInv'
  BY <1>3, ReceiveOwn, PollOwn, PauseOwn, LoseOwn
<1>4. ASSUME NEW p \in Pages, NEW s \in Servers, Select(p, s) PROVE OwnInv'
  BY <1>4, SelectOwn
<1>5. CASE Restart
  BY <1>5, RestartOwn
<1>6. CASE UNCHANGED vars
  BY <1>6 DEF vars, OwnInv
<1>7. CASE Next
  BY <1>1, <1>2, <1>3, <1>4, <1>5, <1>7 DEF Next
<1> QED
  BY <1>6, <1>7

LEMMA OwnHolds == Spec => [](StreamInv /\ OwnInv)
<1>1. Init => OwnInv
  <2> SUFFICES ASSUME Init, NEW p \in Pages PROVE Own(req[p], page[p], db)
    BY DEF OwnInv
  <2>1. page[p].rows = <<>> /\ req[p].stage = "none"
    BY DEF Init, NoReq
  <2> QED
    BY <2>1 DEF Own
<1>2. StreamInv /\ OwnInv /\ [Next]_vars => OwnInv'
  BY OwnStep
<1> QED
  BY <1>1, <1>2, StreamHolds, PTL DEF Spec

\* log-stream/page.tsx handles an answer under the router that is selected when it
\* arrives.  As long as no router is selected while an answer is awaited, it shows rows
\* of the selected router only, whatever is pushed, refilled, refreshed, lost or
\* restarted: the switch under a request is the only way to rows of another router.
THEOREM OwnRowsShown == Spec => []SelectedUnlessCrossed
<1>1. StreamInv /\ OwnInv => SelectedUnlessCrossed
  <2> SUFFICES ASSUME OwnInv, spent.crossed = 0, NEW p \in Pages
               PROVE  ToSet(page[p].rows) \subseteq RowsOf(page[p].selected)
    BY DEF SelectedUnlessCrossed, OnlySelected
  <2>1. page[p].rows \in Seq(RowsIn(db, page[p].selected))
    BY DEF OwnInv, Own
  <2>2. ToSet(page[p].rows) \subseteq RowsIn(db, page[p].selected)
    BY <2>1, LengthIsDomain DEF ToSet
  <2> QED
    BY <2>2 DEF RowsOf, RowsIn
<1> QED
  BY <1>1, OwnHolds, PTL

(* The newest first.  The rows of an answer fall, and are all above what the page     *)
(* has reached; merging puts them in front of the rows on display.                *)
TopDown == InOrder => \A p \in Pages : Falling(page[p].rows)

LEMMA JoinedFalls ==
  ASSUME NEW q \in Seq(Nat), NEW rows \in Seq(Nat), Falling(q), Falling(rows), NEW m \in Nat,
         \A i \in 1..Len(q) : q[i] > m, \A i \in 1..Len(rows) : rows[i] <= m
  PROVE  Falling(q \o rows)
<1> DEFINE all == q \o rows
           n == Len(q)
<1>1. /\ Len(all) = n + Len(rows) /\ n \in Nat /\ Len(rows) \in Nat /\ Len(all) \in Nat
      /\ \A j \in 1..Len(all) : all[j] = IF j <= n THEN q[j] ELSE rows[j - n]
  BY Joined
<1>2. /\ \A i \in 1..n : q[i] \in Nat
      /\ \A i \in 1..Len(rows) : rows[i] \in Nat
  BY LengthIsDomain
<1> HIDE DEF all, n
<1> SUFFICES ASSUME NEW i \in 1..Len(all), NEW j \in 1..Len(all), i < j PROVE all[i] > all[j]
  BY DEF Falling, all
<1>3. CASE j <= n
  <2>1. i \in 1..n /\ j \in 1..n /\ all[i] = q[i] /\ all[j] = q[j]
    BY <1>1, <1>3
  <2> QED
    BY <2>1 DEF Falling, n
<1>4. CASE i <= n /\ ~ (j <= n)
  <2>1. i \in 1..n /\ j - n \in 1..Len(rows) /\ all[i] = q[i] /\ all[j] = rows[j - n]
    BY <1>1, <1>4
  <2>2. q[i] > m /\ rows[j - n] <= m
    BY <2>1 DEF n
  <2>3. q[i] \in Nat /\ rows[j - n] \in Nat
    BY <1>2, <2>1
  <2> QED
    BY <2>1, <2>2, <2>3
<1>5. CASE ~ (i <= n)
  <2>1. ~ (j <= n)
    BY <1>1, <1>5
  <2>2. /\ i - n \in 1..Len(rows) /\ j - n \in 1..Len(rows) /\ i - n < j - n
        /\ all[i] = rows[i - n] /\ all[j] = rows[j - n]
    BY <1>1, <1>5, <2>1
  <2> QED
    BY <2>2 DEF Falling
<1> QED
  BY <1>3, <1>4, <1>5

LEMMA ShownFalls ==
  ASSUME NEW all \in Seq(Nat), Falling(all)
  PROVE  Falling(SubSeq(all, 1, IF Len(all) > ShownMax THEN ShownMax ELSE Len(all)))
<1> DEFINE shown == SubSeq(all, 1, IF Len(all) > ShownMax THEN ShownMax ELSE Len(all))
<1>1. /\ shown \in Seq(Nat) /\ Len(shown) <= Len(all)
      /\ \A j \in 1..Len(shown) : shown[j] = all[j]
  BY Shown
<1>2. Len(shown) \in Nat /\ Len(all) \in Nat
  BY <1>1
<1> HIDE DEF shown
<1>3. \A j \in 1..Len(shown) : j \in 1..Len(all)
  BY <1>1, <1>2
<1>4. Falling(shown)
  BY <1>1, <1>3 DEF Falling
<1> QED
  BY <1>4 DEF shown

LEMMA LoadedFalls ==
  ASSUME NEW g \in PageType, NEW mode, NEW incoming \in Seq(Nat), Knows(g), Falling(g.rows),
         Falling(incoming), \A i \in 1..Len(incoming) : incoming[i] > g.newest
  PROVE  Falling(Loaded(g, mode, incoming).rows)
<1> DEFINE top == Newest(g, incoming)
           n == [g EXCEPT !.newest = top]
           fresh == Among(incoming, ToSet(incoming) \ ToSet(g.known))
           kept == Among(g.rows, ToSet(g.rows) \ ToSet(fresh))
           all == fresh \o kept
           shown == SubSeq(all, 1, IF Len(all) > ShownMax THEN ShownMax ELSE Len(all))
<1>0. g.newest \in Nat /\ g.rows \in Seq(Nat)
  BY DEF PageType
<1>1. top \in Nat
  BY LargestIsAbove DEF Newest, PageType
<1> HIDE DEF top
<1>2. n \in PageType /\ n.rows = g.rows /\ n.known = g.known
  BY <1>1 DEF PageType
<1>3. Loaded(g, mode, incoming) \in {Replaced(n, incoming), Merged(n, incoming)}
  BY DEF Loaded, n, top
<1> HIDE DEF n
<1>4. Replaced(n, incoming).rows = incoming
  BY <1>2 DEF Replaced, PageType
<1>5. Merged(n, incoming).rows \in {g.rows, shown}
  <2>1. Merged(n, incoming) = n \/ Merged(n, incoming) = [n EXCEPT !.known = Trimmed(Learn(@, fresh)), !.rows = shown]
    BY <1>2 DEF Merged
  <2> HIDE DEF shown, fresh
  <2> QED
    BY <1>2, <2>1 DEF PageType
<1>6. /\ fresh \in Seq(Nat) /\ Falling(fresh) /\ ToSet(fresh) \subseteq ToSet(incoming)
      /\ kept \in Seq(Nat) /\ Falling(kept) /\ ToSet(kept) \subseteq ToSet(g.rows)
  <2>1. fresh \in Seq(Nat) /\ Falling(fresh) /\ ToSet(fresh) \subseteq ToSet(incoming)
    BY AmongKeeps, AmongFalls
  <2> HIDE DEF fresh
  <2>2. kept \in Seq(Nat) /\ Falling(kept) /\ ToSet(kept) \subseteq ToSet(g.rows)
    BY <1>0, AmongKeeps, AmongFalls
  <2> QED
    BY <2>1, <2>2
<1> HIDE DEF fresh, kept
<1>7. \A i \in 1..Len(fresh) : fresh[i] > g.newest
  BY <1>6, LengthIsDomain DEF ToSet
<1>8. \A i \in 1..Len(kept) : kept[i] <= g.newest
  <2>1. \A i \in 1..Len(g.rows) : g.rows[i] <= g.newest
    BY DEF Knows
  <2>2. \A x \in ToSet(g.rows) : x <= g.newest
    BY <1>0, <2>1, LengthIsDomain DEF ToSet
  <2>3. \A i \in 1..Len(kept) : kept[i] \in ToSet(kept)
    BY <1>6, LengthIsDomain DEF ToSet
  <2> QED
    BY <1>6, <2>2, <2>3
<1>9. all \in Seq(Nat) /\ Falling(all)
  BY <1>0, <1>6, <1>7, <1>8, JoinedFalls, Joined
<1> HIDE DEF all
<1>10. Falling(shown)
  BY <1>9, ShownFalls
<1> QED
  BY <1>3, <1>4, <1>5, <1>10

LEMMA TopDownStep ==
  ASSUME StreamInv, OrderInv, TopDown, [Next]_vars PROVE TopDown'
<1> SUFFICES ASSUME InOrder', NEW p \in Pages PROVE Falling(page'[p].rows)
  BY DEF TopDown
<1>1. CASE page' = page /\ InOrder
  BY <1>1 DEF TopDown
<1>2. ASSUME NEW o \in Pages, NEW s \in Servers, Select(o, s) PROVE Falling(page'[p].rows)
  <2>1. page'[p].rows \in {page[p].rows, <<>>}
    BY <1>2, PagesAndRequests DEF Select, PageType, StreamInv, GoodPages
  <2>2. InOrder
    <3> DEFINE crossed == IF req[o].stage = "none" THEN spent.crossed ELSE spent.crossed + 1
    <3>1. spent' = [spent EXCEPT !.clicks = @ + 1, !.crossed = crossed]
      BY <1>2 DEF Select
    <3> HIDE DEF crossed
    <3>2. /\ spent'.overlaps = spent.overlaps /\ spent'.restarts = spent.restarts
          /\ spent'.refreshes = spent.refreshes /\ spent'.crossed = crossed
      BY <3>1, CountsOfOrder
    <3>3. spent.crossed \in Nat
      BY CountsOfOrder
    <3> QED
      BY <3>2, <3>3 DEF InOrder, crossed
  <2>3. Falling(page[p].rows) /\ Falling(<<>>)
    BY <2>2 DEF TopDown, Falling
  <2> QED
    BY <2>1, <2>3
<1>3. ASSUME NEW o \in Pages, Pause(o) PROVE Falling(page'[p].rows)
  <2>1. page'[p].rows = page[p].rows
    BY <1>3, PagesAndRequests DEF Pause, PageType, StreamInv, GoodPages
  <2>2. InOrder
    BY <1>3, CountsOfOrder DEF Pause, InOrder
  <2> QED
    BY <2>1, <2>2 DEF TopDown
<1>4. ASSUME NEW o \in Pages, Receive(o) PROVE Falling(page'[p].rows)
  <2> DEFINE g == Loaded(page[o], req[o].mode, req[o].reply)
  <2>1. InOrder /\ page' = [page EXCEPT ![o] = g] /\ req[o].stage = "answer"
    BY <1>4 DEF Receive, InOrder
  <2>2. /\ InStep(req[o], page[o], Shelf(buffer, page[o].selected), db)
        /\ Falling(page[o].rows) /\ Falling(page[p].rows)
    BY <2>1 DEF OrderInv, Orderly, TopDown
  <2>3. /\ Falling(req[o].reply)
        /\ \A i \in 1..Len(req[o].reply) : req[o].reply[i] > page[o].newest
    BY <2>1, <2>2 DEF InStep, Asked, Answers
  <2>4. page[o] \in PageType /\ Knows(page[o]) /\ req[o].reply \in Seq(Nat)
    BY PagesAndRequests DEF StreamInv, GoodPages, GoodPage
  <2>5. Falling(g.rows)
    BY <2>2, <2>3, <2>4, LoadedFalls
  <2> HIDE DEF g
  <2>6. page'[p] = IF p = o THEN g ELSE page[p]
    BY <2>1 DEF StreamInv, GoodPages
  <2> QED
    BY <2>2, <2>5, <2>6
<1>5. ASSUME NEW s \in Servers, Insert(s) PROVE Falling(page'[p].rows)
  <2>1. page' = page /\ InOrder
    BY <1>5, CountsOfOrder DEF Insert, InOrder
  <2> QED
    BY <1>1, <2>1
<1>6. ASSUME NEW o \in Pages, Refresh(o) \/ Lose(o) PROVE Falling(page'[p].rows)
  <2>1. page' = page /\ InOrder
    BY <1>6, CountsOfOrder DEF Refresh, Lose, InOrder
  <2> QED
    BY <1>1, <2>1
<1>7. CASE Restart
  <2>1. page' = page /\ InOrder
    BY <1>7, CountsOfOrder DEF Restart, InOrder
  <2> QED
    BY <1>1, <2>1
<1>8. ASSUME page' = page, spent' = spent PROVE Falling(page'[p].rows)
  BY <1>1, <1>8 DEF InOrder
<1>9. CASE Next
  <2>1. ASSUME NEW h \in handlers, Commit(h) \/ Push(h) PROVE page' = page /\ spent' = spent
    BY <2>1 DEF Commit, Push
  <2>2. ASSUME NEW o \in Pages, Serve(o) \/ Poll(o) PROVE page' = page /\ spent' = spent
    BY <2>2 DEF Serve, ReadBuffer, Query, FillBuffer, Poll
  <2> QED
    BY <1>2, <1>3, <1>4, <1>5, <1>6, <1>7, <1>8, <1>9, <2>1, <2>2 DEF Next, Ingest
<1>10. CASE UNCHANGED vars
  BY <1>8, <1>10 DEF vars
<1> QED
  BY <1>9, <1>10

\* "Live syslog from the selected MikroTik, newest first" (log-stream/page.tsx): where
\* rows are pushed in the order of their ids, and nothing restarts, refreshes or is
\* selected under an answer, the rows of a page have falling ids and none is shown twice,
\* however many answers were merged, whatever requests were lost and other pages filled.
THEOREM NewestRowsFirst == Spec => []TopDown
<1>1. Init => TopDown
  <2> SUFFICES ASSUME Init, NEW p \in Pages PROVE Falling(page[p].rows)
    BY DEF TopDown
  <2>1. page[p].rows = <<>>
    BY DEF Init
  <2> QED
    BY <2>1 DEF Falling
<1>2. StreamInv /\ OrderInv /\ TopDown /\ [Next]_vars => TopDown'
  BY TopDownStep
<1> QED
  BY <1>1, <1>2, OrderHolds, PTL DEF Spec
=============================================================================
