------------------------------ MODULE PagedLists ------------------------------
(* Search Log and Activity Logs: a list ordered by time, newest first, that a    *)
(* browser walks through page by page while rows arrive and old ones are purged. *)
(* A page is a skip and a take; Search Log reads one row more to know whether    *)
(* there is another page, Activity Logs counts in a query of its own.           *)
EXTENDS Integers, FiniteSets, Sequences

CONSTANTS
    Tags, AnyTag,             \* what a filter tells apart; no filter
    PageLength, LastPage,     \* rows of a page; clampPage's highest page
    Loads,                    \* requests in progress
    MaxLogged, MaxLoads, MaxTroubles   \* bounds: rows; requests; purges, failures, edits

ASSUME PagedAssumption ==
    /\ AnyTag \notin Tags
    /\ PageLength \in Nat \ {0} /\ LastPage \in Nat \ {0}
    /\ {MaxLogged, MaxLoads, MaxTroubles} \subseteq Nat

VARIABLES
    view,       \* "search" or "activity"
    logged,     \* rows in the order they became visible
    filter,     \* the filter as it is in the form
    label,      \* the page number shown
    total,      \* the number of rows that the last answer told
    loading,    \* the flag that disables the buttons
    load,       \* requests
    walk,       \* history: the pages walked since the last search: its filter, the rows
                \* that matched then, the rows shown since, and whether it is one search
    troubles

pagedVars == <<view, logged, filter, label, total, loading, load, walk, troubles>>

Row == [at : 1..MaxLogged, tag : Tags, kept : BOOLEAN]
Kept == {i \in DOMAIN logged : logged[i].kept}
Match(f) == {i \in Kept : f \in {AnyTag, logged[i].tag}}
Latest == IF logged = <<>> THEN 1 ELSE logged[CHOOSE i \in DOMAIN logged :
                                          \A j \in DOMAIN logged : logged[j].at <= logged[i].at].at

(* orderBy time, descending: rows of one time come in any order.                *)
NewestFirst(S) ==
    {s \in [1..Cardinality(S) -> S] :
        \A j, k \in 1..Cardinality(S) : j < k => s[j] # s[k] /\ logged[s[j]].at >= logged[s[k]].at}

Clamped(p) == IF p < 1 THEN 1 ELSE IF p > LastPage THEN LastPage ELSE p
PageCount(n) == IF n = 0 THEN 1 ELSE (n + PageLength - 1) \div PageLength

Unasked == [pc |-> "idle", page |-> 1, filter |-> AnyTag, first |-> FALSE, count |-> 0,
            torn |-> FALSE]
NoWalk == [filter |-> AnyTag, due |-> {}, seen |-> {}, one |-> FALSE]

PagedInit ==
    /\ view \in {"search", "activity"}
    /\ logged = <<>>
    /\ filter = AnyTag /\ label = 1 /\ total = 0 /\ loading = FALSE
    /\ load = [q \in Loads |-> Unasked]
    /\ walk = NoWalk
    /\ troubles = [loads |-> 0, others |-> 0]

Trouble(what, max) == troubles[what] < max /\ troubles' = [troubles EXCEPT ![what] = @ + 1]

-----------------------------------------------------------------------------
(* A row gets its time before it becomes visible, so a later one may overtake it. *)
Appears(tag, at) ==
    /\ Len(logged) < MaxLogged /\ at \in (Latest - 1)..(Latest + 1) /\ at \in 1..MaxLogged
    /\ logged' = Append(logged, [at |-> at, tag |-> tag, kept |-> TRUE])
    /\ load' = [q \in Loads |-> [load[q] EXCEPT !.torn = @ \/ (load[q].pc = "rows" /\ view = "activity")]]
    /\ UNCHANGED <<view, filter, label, total, loading, walk, troubles>>

(* The nightly purge, of rows up to a time.                                    *)
PurgeOld(at) ==
    /\ Trouble("others", MaxTroubles)
    /\ \E i \in Kept : logged[i].at <= at
    /\ logged' = [i \in DOMAIN logged |-> [logged[i] EXCEPT !.kept = @ /\ logged[i].at > at]]
    /\ UNCHANGED <<view, filter, label, total, loading, load, walk>>

(* runSearch shows the number of the page that it asks for.                    *)
AskPage(q, p, f, first) ==
    /\ load[q].pc = "idle" /\ Trouble("loads", MaxLoads)
    /\ load' = [load EXCEPT ![q] = [Unasked EXCEPT !.pc = IF view = "search" THEN "rows" ELSE "count",
                                                   !.page = p, !.filter = f, !.first = first]]
    /\ loading' = TRUE
    /\ label' = IF view = "search" THEN p ELSE label
    /\ walk' = [walk EXCEPT !.one = @ /\ f = walk.filter /\ \A x \in Loads : load[x].pc = "idle"]
    /\ UNCHANGED <<view, logged, total>>

Submit(q) == /\ view = "search" => ~loading
             /\ AskPage(q, 1, filter, TRUE) /\ UNCHANGED filter
NextPage(q) == /\ total > 0 /\ ~loading /\ label < PageCount(total)
               /\ AskPage(q, label + 1, filter, FALSE) /\ UNCHANGED filter
PreviousPage(q) == /\ total > 0 /\ ~loading /\ label > 1
                   /\ AskPage(q, label - 1, filter, FALSE) /\ UNCHANGED filter

EditFilter(f) ==
    /\ f # filter /\ filter' = f
    /\ Trouble("others", MaxTroubles)
    /\ UNCHANGED <<view, logged, label, total, loading, load, walk>>

(* Activity Logs searches as soon as another type is selected, and on Clear.    *)
SelectType(q, f) ==
    /\ view = "activity" /\ f # filter /\ filter' = f
    /\ AskPage(q, 1, f, TRUE)

(* Clear all: an answer on its way is shown all the same.                      *)
ClearFilters ==
    /\ view = "search" /\ Trouble("others", MaxTroubles)
    /\ filter' = AnyTag /\ label' = 1 /\ total' = 0
    /\ walk' = NoWalk
    /\ UNCHANGED <<view, logged, loading, load>>

(* audit.count; the search has no count of its own.                            *)
CountRows(q) ==
    /\ load[q].pc = "count"
    /\ load' = [load EXCEPT ![q].pc = "rows", ![q].count = Cardinality(Match(load[q].filter))]
    /\ UNCHANGED <<view, logged, filter, label, total, loading, walk, troubles>>

Skipped(q) == (Clamped(load[q].page) - 1) * PageLength
PageRows(q, s) == {s[i] : i \in {j \in DOMAIN s : Skipped(q) < j /\ j <= Skipped(q) + PageLength}}
HasTwoMore(q, s) == Len(s) > Skipped(q) + PageLength + 1
HasMore(q, s) == Len(s) > Skipped(q) + PageLength
Told(q, s) ==
    IF view = "activity" THEN load[q].count
    ELSE Skipped(q) + Cardinality(PageRows(q, s)) + (IF HasMore(q, s) THEN 1 ELSE 0)

Walked(q, rows) ==
    IF load[q].first
    THEN [filter |-> load[q].filter, due |-> Match(load[q].filter), seen |-> rows,
          one |-> ~load[q].torn /\ \A x \in Loads \ {q} : load[x].pc = "idle"]
    ELSE [walk EXCEPT !.seen = @ \cup rows, !.one = @ /\ ~load[q].torn]

(* The rows are read and shown.                                                *)
ShowPage(q) ==
    /\ load[q].pc = "rows"
    /\ \E s \in NewestFirst(Match(load[q].filter)) :
           /\ total' = Told(q, s)
           /\ walk' = Walked(q, PageRows(q, s))
    /\ label' = IF view = "activity" THEN Clamped(load[q].page) ELSE label
    /\ load' = [load EXCEPT ![q] = Unasked]
    /\ loading' = FALSE
    /\ UNCHANGED <<view, logged, filter, troubles>>

(* Refused, failed: the rows go, and in Search Log the total.                   *)
PageFails(q) ==
    /\ load[q].pc # "idle" /\ Trouble("others", MaxTroubles)
    /\ load' = [load EXCEPT ![q] = Unasked]
    /\ loading' = FALSE
    /\ total' = IF view = "search" THEN 0 ELSE total
    /\ walk' = NoWalk
    /\ UNCHANGED <<view, logged, filter, label>>

PagedNext ==
    \/ \E t \in Tags, at \in 1..MaxLogged : Appears(t, at)
    \/ \E at \in 1..MaxLogged : PurgeOld(at)
    \/ ClearFilters
    \/ \E f \in Tags \cup {AnyTag} : EditFilter(f)
    \/ \E q \in Loads :
           \/ Submit(q) \/ NextPage(q) \/ PreviousPage(q)
           \/ \E f \in Tags \cup {AnyTag} : SelectType(q, f)
           \/ CountRows(q) \/ ShowPage(q) \/ PageFails(q)

PagedSpec == PagedInit /\ [][PagedNext]_pagedVars

-----------------------------------------------------------------------------
Tied(i) == \E j \in DOMAIN logged : j # i /\ logged[j].at = logged[i].at

\* Who walks one search to its last page has been shown every row that matched when it
\* began and is still kept, though rows arrive and are purged between the pages: except
\* rows that share their time with another, whose order no page can rely on, and those
\* after clampPage's highest page, which Search Log shows again under the next numbers.
\* A search by user name is left out: ipsForUserName looks its addresses up anew for
\* every page (logs.service.ts:79-88), so what matches changes while it is walked.
WalkSkipsNothing ==
    walk.one /\ (\A q \in Loads : load[q].pc = "idle") /\ label \in PageCount(total)..LastPage
        => \A i \in walk.due \cap Kept : Tied(i) \/ i \in walk.seen
=============================================================================
