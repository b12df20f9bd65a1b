------------------------------ MODULE AdminPages ------------------------------
(* The pages where accounts, roles, the routers of each user and the routers    *)
(* themselves are edited.  Each lists entries, edits one of them in a draft, and *)
(* loads the list again after every request.  Requests of one page overlap as   *)
(* far as its busy flags allow, the row selected may change while one is        *)
(* answered, and another administrator writes too.  setServers writes in two    *)
(* steps.                                                                      *)
EXTENDS Integers, FiniteSets

CONSTANTS
    Entries, Own,        \* what is listed; the administrator's own account, his role
    EntryNames, Parts,   \* names; the menus of a role or the routers of a user
    Asks, Nothing,       \* requests in progress
    MaxAsks, MaxUpsets   \* bounds: requests; failures and what others write

ASSUME AdminAssumption ==
    /\ Own \in Entries /\ Nothing \notin Entries
    /\ {MaxAsks, MaxUpsets} \subseteq Nat

VARIABLES
    kind,       \* which of the pages it is
    stored,     \* the entries in the database
    listing,    \* the entries as the page lists them
    loading,    \* the page shows that it is loading, in place of its list
    chosen,     \* the entry that is selected
    draft,      \* its fields as the administrator has them
    base,       \* the parts that count as saved
    filled,     \* history: the entries that the three were last filled from
    switched,   \* history: parts became saved while another entry was selected
    ask,        \* requests: each a write followed by a load of the list
    behind,     \* history: the list shown is older than a write or a load that will
                \* not change it any more
    meant,      \* history: the parts last chosen for each entry
    disturbed,  \* history: entries whose parts two requests wrote at once, or one in half
    taken       \* what has been used of the bounds

adminVars == <<kind, stored, listing, loading, chosen, draft, base, filled, switched, ask, behind, meant,
               disturbed, taken>>
drafting == <<chosen, draft, base, filled, switched>>
database == <<stored, meant, disturbed>>
listShown == <<listing, loading>>

Pages == {"users", "roles", "access", "servers"}

(* mark: an account has a role; a router is enabled.                            *)
Entry == [name : EntryNames, mark : BOOLEAN, parts : SUBSET Parts]
Fresh(name, mark) == [name |-> name, mark |-> mark, parts |-> {}]
NoEntry == Fresh(Nothing, FALSE)
Existing(list) == {e \in Entries : list[e] # NoEntry}
AtRest == [pc |-> "idle", op |-> "none", entry |-> Nothing, value |-> NoEntry,
             seen |-> [e \in Entries |-> NoEntry], older |-> FALSE]

AdminInit ==
    /\ kind \in Pages
    /\ \E n \in EntryNames :
           stored \in {s \in [Entries -> {NoEntry, Fresh(n, TRUE)}] : s[Own] # NoEntry}
    /\ listing = [e \in Entries |-> NoEntry]
    /\ loading = TRUE
    /\ chosen = Nothing /\ draft = NoEntry /\ base = {}
    /\ filled = [details |-> Nothing, parts |-> Nothing, base |-> Nothing]
    /\ switched = FALSE
    /\ \E a \in Asks : ask = [x \in Asks |-> IF x = a THEN [AtRest EXCEPT !.pc = "load"] ELSE AtRest]
    /\ behind = TRUE
    /\ meant = [e \in Entries |-> {}] /\ disturbed = {}
    /\ taken = [asks |-> 0, upsets |-> 0]

Takes(what, max) == taken[what] < max /\ taken' = [taken EXCEPT ![what] = @ + 1]

-----------------------------------------------------------------------------
(* What the administrator does at any of the pages.                            *)
Fill(e, value) ==
    /\ chosen' = e /\ draft' = value /\ base' = value.parts
    /\ filled' = [details |-> e, parts |-> e, base |-> e]
    /\ switched' = FALSE

Select(e) ==
    /\ ~loading /\ e \in Existing(listing) /\ e # chosen
    /\ Fill(e, listing[e])
    /\ UNCHANGED <<kind, listShown, ask, behind, database, taken>>

Edit(name, mark) ==
    /\ chosen # Nothing
    /\ draft' = [draft EXCEPT !.name = name, !.mark = mark]
    /\ UNCHANGED <<kind, listShown, chosen, base, filled, switched, ask, behind, database, taken>>

PickParts(parts) ==
    /\ chosen \in Existing(listing)
    /\ draft' = [draft EXCEPT !.parts = parts]
    /\ UNCHANGED <<kind, listShown, chosen, base, filled, switched, ask, behind, database, taken>>

DiscardParts ==
    /\ chosen \in Existing(listing) /\ draft.parts # base
    /\ draft' = [draft EXCEPT !.parts = base]
    /\ filled' = [filled EXCEPT !.parts = filled.base]
    /\ UNCHANGED <<kind, listShown, chosen, base, switched, ask, behind, database, taken>>

(* The busy flags: accounts and routers are saved one at a time, and so are the *)
(* details and the parts of a role, each by itself.  The page of the routers    *)
(* does not wait for the list.                                                 *)
Together(op) ==
    CASE kind \in {"users", "servers"} /\ op \in {"create", "details"} -> {"create", "details"}
      [] kind = "servers" -> {"toggle", "remove"}
      [] OTHER -> {op}
Blocked(op) ==
    \E a \in Asks : /\ ask[a].op \in Together(op)
                    /\ kind = "servers" => ask[a].pc \in {"write", "answer"}

Request(a, op, e, value) ==
    /\ ask[a].pc = "idle" /\ ~Blocked(op)
    /\ Takes("asks", MaxAsks)
    /\ ask' = [ask EXCEPT ![a] = [AtRest EXCEPT !.pc = "write", !.op = op, !.entry = e,
                                                  !.value = value]]
    /\ UNCHANGED <<kind, listShown, behind, database>>
Asked(a, op, e, value) == Request(a, op, e, value) /\ UNCHANGED drafting

Dirty == /\ chosen \in Existing(listing)
         /\ <<draft.name, draft.mark>> # <<listing[chosen].name, listing[chosen].mark>>
PartsDirty == chosen \in Existing(listing) /\ draft.parts # base

-----------------------------------------------------------------------------
(* users/page.tsx.                                                             *)
SelectUser(e) == kind = "users" /\ Select(e)
EditUser(name, mark) == kind = "users" /\ Edit(name, mark)
DiscardUser ==
    /\ kind = "users" /\ Dirty
    /\ Fill(chosen, listing[chosen])
    /\ UNCHANGED <<kind, listShown, ask, behind, database, taken>>
CreateUser(a, name) == kind = "users" /\ Asked(a, "create", Nothing, Fresh(name, TRUE))
SaveUser(a) == kind = "users" /\ Dirty /\ Asked(a, "details", chosen, draft)
DeleteUser(a) ==
    /\ kind = "users" /\ chosen \in Existing(listing) \ {Own}
    /\ Asked(a, "remove", chosen, NoEntry)

(* roles/page.tsx.                                                             *)
SelectRole(e) == kind = "roles" /\ Select(e)
EditRole(name) == kind = "roles" /\ Edit(name, draft.mark)
PickMenus(menus) == kind = "roles" /\ PickParts(menus)
DiscardMenus == kind = "roles" /\ DiscardParts
CreateRole(a, name) == kind = "roles" /\ Asked(a, "create", Nothing, Fresh(name, TRUE))
SaveRole(a) == kind = "roles" /\ Dirty /\ Asked(a, "details", chosen, draft)
SaveMenus(a) == kind = "roles" /\ PartsDirty /\ Asked(a, "parts", chosen, draft)
DeleteRole(a) ==
    /\ kind = "roles" /\ chosen \in Existing(listing) \ {Own}
    /\ Asked(a, "remove", chosen, NoEntry)

(* user-servers/page.tsx.                                                      *)
SelectAccess(e) == kind = "access" /\ Select(e)
PickRouters(routers) == kind = "access" /\ PickParts(routers)
DiscardRouters == kind = "access" /\ DiscardParts
SaveAccess(a) == kind = "access" /\ PartsDirty /\ Asked(a, "parts", chosen, draft)

(* servers/page.tsx: the form is open for an entry, or for a new one.          *)
StartEdit(e) ==
    /\ kind = "servers" /\ e \in Existing(listing)
    /\ Fill(e, listing[e])
    /\ UNCHANGED <<kind, listShown, ask, behind, database, taken>>
EditRouter(name) == kind = "servers" /\ Edit(name, draft.mark)
AddRouter(a, name) ==
    /\ kind = "servers" /\ Request(a, "create", Nothing, Fresh(name, TRUE))
    /\ chosen' = Nothing /\ UNCHANGED <<draft, base, filled, switched>>
SaveRouter(a) == kind = "servers" /\ chosen # Nothing /\ Asked(a, "details", chosen, draft)
ToggleRouter(a, e) == kind = "servers" /\ e \in Existing(listing) /\ Asked(a, "toggle", e, NoEntry)
DeleteRouter(a, e) == kind = "servers" /\ e \in Existing(listing) /\ Asked(a, "remove", e, NoEntry)

-----------------------------------------------------------------------------
(* The server.  A write that the page will not load for makes its list, and the *)
(* lists on their way, old.                                                    *)
Proceeds(a, r, unseen) ==
    /\ ask' = [x \in Asks |-> IF x = a THEN r
                              ELSE [ask[x] EXCEPT !.older = @ \/ (unseen /\ ask[x].pc = "show")]]
    /\ behind' = (behind \/ unseen)
    /\ UNCHANGED <<kind, listShown, drafting, taken>>

Puts(a, e, value, r) ==
    /\ stored' = [stored EXCEPT ![e] = value]
    /\ Proceeds(a, [r EXCEPT !.entry = e], r.op = "other")
Written(a) == [ask[a] EXCEPT !.pc = "answer"]

DoCreate(a) ==
    /\ ask[a].pc = "write" /\ ask[a].op = "create"
    /\ \E e \in Entries \ Existing(stored) :
           /\ Puts(a, e, ask[a].value, Written(a))
           /\ meant' = [meant EXCEPT ![e] = {}]
    /\ UNCHANGED disturbed

(* The form sends the role it shows, changed or not; no role is not sent.      *)
OwnRole(a) == kind = "users" /\ ask[a].entry = Own /\ ask[a].value.mark
CanDo(a) == ask[a].entry \in Existing(stored) /\ ~(ask[a].op = "details" /\ OwnRole(a))

Done(e, r) ==
    CASE r.op = "details" -> [stored[e] EXCEPT !.name = r.value.name,
                                               !.mark = @ \/ (kind = "users" /\ r.value.mark)]
      [] r.op = "parts" -> [stored[e] EXCEPT !.parts = r.value.parts]
      [] r.op = "toggle" -> [stored[e] EXCEPT !.mark = ~@]
      [] r.op = "remove" -> NoEntry

DoWrite(a) ==
    LET r == ask[a] IN
    /\ r.pc = "write" /\ CanDo(a)
    /\ r.op \in {"details", "toggle", "remove"} \cup (IF kind = "roles" THEN {"parts"} ELSE {})
    /\ Puts(a, r.entry, Done(r.entry, r), Written(a))
    /\ meant' = IF r.op = "parts" THEN [meant EXCEPT ![r.entry] = r.value.parts] ELSE meant
    /\ UNCHANGED disturbed

(* setServers: deleteMany, then createMany in one statement, which fails when   *)
(* one of its routers is there already.                                        *)
Filling(e) == {a \in Asks : ask[a].pc = "fill" /\ ask[a].entry = e}

ClearsNothing(a) ==
    /\ kind = "access" /\ ask[a].pc = "write" /\ CanDo(a)
    /\ Proceeds(a, [ask[a] EXCEPT !.pc = "fill"], FALSE)
    /\ meant' = [meant EXCEPT ![ask[a].entry] = ask[a].value.parts]
    /\ UNCHANGED <<stored, disturbed>>
ClearParts(a) ==
    LET r == ask[a]
        e == r.entry
    IN  /\ kind = "access" /\ r.pc = "write" /\ CanDo(a)
        /\ Puts(a, e, [stored[e] EXCEPT !.parts = {}],
                [r EXCEPT !.pc = IF r.value.parts = {} THEN "answer" ELSE "fill"])
        /\ meant' = [meant EXCEPT ![e] = r.value.parts]
        /\ disturbed' = IF Filling(e) # {} THEN disturbed \cup {e} ELSE disturbed
CanFill(a) == CanDo(a) /\ stored[ask[a].entry].parts \cap ask[a].value.parts = {}
FillParts(a) ==
    LET r == ask[a]
        e == r.entry
    IN  /\ r.pc = "fill" /\ CanFill(a)
        /\ Puts(a, e, [stored[e] EXCEPT !.parts = @ \cup r.value.parts], Written(a))
        /\ UNCHANGED <<meant, disturbed>>

(* What the server refuses, and a query, a request or an answer that fails: the *)
(* page shows an error, and does not load.                                     *)
GivesUp(a) ==
    /\ stored' = stored /\ meant' = meant
    /\ disturbed' = IF ask[a].pc = "fill" THEN disturbed \cup {ask[a].entry} ELSE disturbed
RefuseAsk(a) ==
    /\ \/ ask[a].pc = "write" /\ IF ask[a].op = "create" THEN Existing(stored) = Entries ELSE ~CanDo(a)
       \/ ask[a].pc = "fill" /\ ~CanFill(a)
    /\ Proceeds(a, AtRest, ask[a].pc = "fill")
    /\ GivesUp(a)
Slip(a) ==
    /\ ask[a].pc # "idle" /\ ask[a].op # "other"
    /\ Takes("upsets", MaxUpsets)
    /\ ask' = [x \in Asks |-> IF x = a THEN AtRest
                              ELSE [ask[x] EXCEPT !.older = @ \/ (ask[a].pc # "write" /\ ask[x].pc = "show")]]
    /\ behind' = (behind \/ ask[a].pc # "write")
    /\ IF ask[a].pc \in {"load", "show"}
       THEN /\ listing' = IF kind = "servers" THEN [e \in Entries |-> NoEntry] ELSE listing
            /\ loading' = FALSE
       ELSE UNCHANGED listShown
    /\ GivesUp(a)
    /\ UNCHANGED <<kind, drafting>>

(* Another administrator, at a page of his own.                                *)
OtherAssigns(a, e, parts) ==
    /\ kind = "access" /\ ask[a].pc = "idle" /\ Takes("upsets", MaxUpsets)
    /\ ask' = [ask EXCEPT ![a] = [AtRest EXCEPT !.pc = "write", !.op = "other", !.entry = e,
                                                  !.value = [Fresh(Nothing, FALSE) EXCEPT !.parts = parts]]]
    /\ UNCHANGED <<kind, listShown, drafting, behind, database>>
OtherAssigned(a) ==
    /\ ask[a].pc = "answer" /\ ask[a].op = "other"
    /\ Proceeds(a, AtRest, FALSE) /\ UNCHANGED database
OtherRemoves(e) ==
    /\ e \in Existing(stored) \ {Own} /\ Takes("upsets", MaxUpsets)
    /\ stored' = [stored EXCEPT ![e] = NoEntry]
    /\ ask' = [x \in Asks |-> [ask[x] EXCEPT !.older = @ \/ ask[x].pc = "show"]]
    /\ behind' = TRUE
    /\ UNCHANGED <<kind, listShown, drafting, meant, disturbed>>

-----------------------------------------------------------------------------
(* The answer to a write: parts sent become the saved ones, whichever entry is  *)
(* selected by now; the form of a router closes.  Then the list is loaded.     *)
AnsweredUnloaded(a) ==
    LET r == ask[a] IN
    /\ r.pc = "answer" /\ r.op # "other"
    /\ ask' = [ask EXCEPT ![a] = AtRest]
    /\ base' = IF r.op = "parts" THEN r.value.parts ELSE base
    /\ filled' = IF r.op = "parts" THEN [filled EXCEPT !.base = r.entry] ELSE filled
    /\ switched' = (switched \/ (r.op = "parts" /\ chosen # r.entry))
    /\ chosen' = IF \/ kind # "servers" /\ r.op = "remove"
                    \/ kind = "servers" /\ r.op \in {"create", "details"}
                 THEN Nothing ELSE chosen
    /\ loading' = (loading \/ kind # "servers")
    /\ UNCHANGED <<kind, listing, draft, behind, database, taken>>
Answered(a) ==
    LET r == ask[a] IN
    /\ r.pc = "answer" /\ r.op # "other"
    /\ ask' = [ask EXCEPT ![a].pc = "load"]
    /\ base' = IF r.op = "parts" THEN r.value.parts ELSE base
    /\ filled' = IF r.op = "parts" THEN [filled EXCEPT !.base = r.entry] ELSE filled
    /\ switched' = (switched \/ (r.op = "parts" /\ chosen # r.entry))
    /\ chosen' = IF \/ kind # "servers" /\ r.op = "remove"
                    \/ kind = "servers" /\ r.op \in {"create", "details"}
                 THEN Nothing ELSE chosen
    /\ loading' = (loading \/ kind # "servers")
    /\ UNCHANGED <<kind, listing, draft, behind, database, taken>>

ReadList(a) ==
    /\ ask[a].pc = "load"
    /\ ask' = [x \in Asks |-> IF x = a THEN [ask[a] EXCEPT !.pc = "show", !.seen = stored]
                              ELSE [ask[x] EXCEPT !.older = @ \/ ask[x].pc = "show"]]
    /\ UNCHANGED <<kind, listShown, drafting, behind, database, taken>>

(* The entry that the load was for is selected, or else any there is (users[0]). *)
Lands(a, e) ==
    LET there == Existing(ask[a].seen) IN
    e \in there /\ (ask[a].entry \in there => e = ask[a].entry)

SelectOnly(a, e) == /\ Lands(a, e) /\ chosen' = e
                    /\ UNCHANGED <<draft, base, filled, switched>>
SelectAndFill(a, e) == Lands(a, e) /\ Fill(e, ask[a].seen[e])

Shown(a) ==
    /\ ask[a].pc = "show"
    /\ listing' = ask[a].seen /\ behind' = ask[a].older
    /\ loading' = FALSE
    /\ ask' = [ask EXCEPT ![a] = AtRest]
    /\ UNCHANGED <<kind, database, taken>>

ShowUsers(a) == kind = "users" /\ Shown(a) /\ \E e \in Entries : SelectAndFill(a, e)
ShowRoles(a) == kind = "roles" /\ Shown(a) /\ \E e \in Entries : SelectAndFill(a, e)
ShowAccess(a) == kind = "access" /\ Shown(a) /\ \E e \in Entries : SelectAndFill(a, e)
ShowRouters(a) == kind = "servers" /\ Shown(a) /\ UNCHANGED drafting

-----------------------------------------------------------------------------
Administrator ==
    \/ \E e \in Entries : SelectUser(e) \/ SelectRole(e) \/ SelectAccess(e) \/ StartEdit(e)
    \/ \E n \in EntryNames :
           \/ \E mark \in BOOLEAN : EditUser(n, mark)
           \/ EditRole(n) \/ EditRouter(n)
    \/ \E parts \in SUBSET Parts : PickMenus(parts) \/ PickRouters(parts)
    \/ DiscardUser \/ DiscardMenus \/ DiscardRouters

Submits(a) ==
    \/ \E n \in EntryNames : CreateUser(a, n) \/ CreateRole(a, n) \/ AddRouter(a, n)
    \/ SaveUser(a) \/ SaveRole(a) \/ SaveMenus(a) \/ SaveAccess(a) \/ SaveRouter(a)
    \/ DeleteUser(a) \/ DeleteRole(a)
    \/ \E e \in Entries : ToggleRouter(a, e) \/ DeleteRouter(a, e)

AdminNext ==
    \/ Administrator
    \/ \E e \in Entries : OtherRemoves(e)
    \/ \E a \in Asks :
           \/ Submits(a)
           \/ \E e \in Entries, parts \in SUBSET Parts : OtherAssigns(a, e, parts)
           \/ DoCreate(a) \/ DoWrite(a) \/ ClearParts(a) \/ FillParts(a) \/ RefuseAsk(a)
           \/ Slip(a) \/ OtherAssigned(a) \/ Answered(a) \/ ReadList(a)
           \/ ShowUsers(a) \/ ShowRoles(a) \/ ShowAccess(a) \/ ShowRouters(a)

AdminSpec == AdminInit /\ [][AdminNext]_adminVars

-----------------------------------------------------------------------------
\* When a page rests it lists what is stored, however its requests overlapped, unless a
\* load failed, someone else wrote, or two loads were shown in another order than they
\* read: then the older list stays.
ListIsStored == (\A a \in Asks : ask[a].pc = "idle") /\ ~behind => listing = stored

Begins(a) == ask[a].pc = "idle" /\ ask'[a].pc = "write"

\* What is saved for an entry was filled in from that entry, though loads select entries
\* behind the administrator's back.  (Not the parts after `switched`: they then count as
\* saved for another entry, and if the load fails, Discard puts them into this one.)
SentToItsEntry ==
    [][\A a \in Asks : Begins(a) =>
          /\ ask'[a].op = "details" => filled.details = ask'[a].entry
          /\ ask'[a].op = "parts" => filled.parts = ask'[a].entry \/ switched]_adminVars

\* A user has the routers last chosen for him, and a role its menus, once no request is
\* half done: except where two assignments of a user overlapped or one failed between
\* its two writes.
PartsAsChosen ==
    \A e \in Existing(stored) \ disturbed : Filling(e) = {} => stored[e].parts = meant[e]

\* An administrator's change of his own account is refused with 'You cannot change your
\* own role' (users.service.ts:115) only if he changed the role.
RefusedForItsReason ==
    \A a \in Asks :
        LET r == ask[a] IN
        r.pc = "write" /\ r.op = "details" /\ r.entry \in Existing(stored) /\ ~CanDo(a)
            => r.value.mark # stored[r.entry].mark
=============================================================================
