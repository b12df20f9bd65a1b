-------------------------------- MODULE SignIn --------------------------------
(* Signing in: the limit on attempts, which is checked before a password is      *)
(* compared and counted after, while other attempts do the same; and the browser, *)
(* which proxy.ts sends away by the presence of a cookie and Shell.tsx by what    *)
(* the API says of it.                                                          *)
EXTENDS Integers, FiniteSets

CONSTANTS
    Logins,                   \* an address and a user name each
    Attempts,                 \* attempts that can be in progress
    MaxAttempts, WindowTicks, \* MAX_ATTEMPTS; WINDOW_MS
    PruneBuckets,             \* the size at which expired buckets are removed
    NoLogin,
    MaxTries, MaxTurns        \* bounds: attempts; what happens to a session

ASSUME SignInAssumption ==
    /\ IsFiniteSet(Attempts) /\ NoLogin \notin Logins
    /\ MaxAttempts \in Nat \ {0} /\ WindowTicks \in Nat \ {0}
    /\ {PruneBuckets, MaxTries, MaxTurns} \subseteq Nat

VARIABLES
    bucket,   \* by login: failures, and the time left; no time left is expired
    attempt,  \* attempts: their step, their login, whether it is the browser's
    cookie,   \* the browser's access_token: "none", "good", or "refused" by the API
    place,    \* the page it is at
    screen,   \* what it shows
    tries, turns

throttle == <<bucket, attempt, tries>>
browser == <<cookie, place, screen, turns>>
signInVars == <<throttle, browser>>

NoBucket == [count |-> 0, left |-> 0]
NoAttempt == [pc |-> "idle", login |-> NoLogin, mine |-> FALSE]
Buckets == {k \in Logins : bucket[k] # NoBucket}

SignInInit ==
    /\ bucket = [k \in Logins |-> NoBucket]
    /\ attempt = [a \in Attempts |-> NoAttempt]
    /\ cookie = "none" /\ place = "login" /\ screen = "form"
    /\ tries = 0 /\ turns = 0

-----------------------------------------------------------------------------
(* assertLoginAllowed, with the prune before it.                               *)
AllowedAtMost(k) == bucket[k].left = 0 \/ bucket[k].count <= MaxAttempts
Allowed(k) == bucket[k].left = 0 \/ bucket[k].count < MaxAttempts

PrunedBuckets ==
    IF Cardinality(Buckets) < PruneBuckets THEN bucket
    ELSE [k \in Logins |-> IF bucket[k].left = 0 THEN NoBucket ELSE bucket[k]]

Try(a, k, mine) ==
    /\ attempt[a].pc = "idle" /\ tries < MaxTries /\ Allowed(k)
    /\ bucket' = PrunedBuckets
    /\ attempt' = [attempt EXCEPT ![a] = [pc |-> "compare", login |-> k, mine |-> mine]]
    /\ tries' = tries + 1

TryElsewhere(a, k) == Try(a, k, FALSE) /\ UNCHANGED browser
TryHere(a, k) ==
    /\ screen = "form" /\ Try(a, k, TRUE)
    /\ screen' = "busy" /\ UNCHANGED <<cookie, place, turns>>

(* recordLoginFailure, for a wrong password or a query that fails.             *)
Failed(k) ==
    IF bucket[k].left = 0 THEN [count |-> 1, left |-> WindowTicks]
    ELSE [bucket[k] EXCEPT !.count = @ + 1]

Ends(a, b) ==
    /\ attempt[a].pc = "compare"
    /\ bucket' = [bucket EXCEPT ![attempt[a].login] = b]
    /\ attempt' = [attempt EXCEPT ![a] = NoAttempt]
    /\ UNCHANGED tries

Fail(a) ==
    /\ Ends(a, Failed(attempt[a].login))
    /\ screen' = IF attempt[a].mine THEN "form" ELSE screen
    /\ UNCHANGED <<cookie, place, turns>>

(* clearLoginFailures and the cookie; the page then goes to the dashboard.     *)
Succeed(a) ==
    /\ Ends(a, NoBucket)
    /\ IF attempt[a].mine
       THEN cookie' = "good" /\ place' = "page" /\ screen' = "asking"
       ELSE UNCHANGED <<cookie, place, screen>>
    /\ UNCHANGED turns

TimePasses ==
    /\ \E k \in Logins : bucket[k].left > 0
    /\ bucket' = [k \in Logins |-> [bucket[k] EXCEPT !.left = IF @ = 0 THEN 0 ELSE @ - 1]]
    /\ UNCHANGED <<attempt, tries, browser>>

-----------------------------------------------------------------------------
(* proxy.ts: without a cookie to the sign-in page, with one away from it.      *)
ProxiedEverywhere ==
    /\ screen = "asking"
    /\ IF cookie = "none" THEN place' = "login" /\ screen' = "asking"
       ELSE place' = "page" /\ screen' = "loading"
    /\ UNCHANGED <<throttle, cookie, turns>>
Proxied ==
    /\ screen = "asking"
    /\ IF cookie = "none" THEN place' = "login" /\ screen' = "form"
       ELSE place' = "page" /\ screen' = "loading"
    /\ UNCHANGED <<throttle, cookie, turns>>

Goes(p) == place' = p /\ screen' = "asking" /\ UNCHANGED <<throttle, cookie>>

(* Shell asks who it is for; refused, it goes to the sign-in page.             *)
Welcome ==
    /\ screen = "loading" /\ cookie = "good"
    /\ screen' = "shown" /\ UNCHANGED <<throttle, cookie, place, turns>>
SentAway == screen = "loading" /\ cookie # "good" /\ Goes("login") /\ UNCHANGED turns

Turn == turns < MaxTurns /\ turns' = turns + 1

(* Any other error leaves the page loading.                                    *)
NeverLoads ==
    /\ screen = "loading" /\ Turn
    /\ screen' = "stuck" /\ UNCHANGED <<throttle, cookie, place>>

(* The session ends: the account is disabled, the token or the cookie expires.  *)
SessionEnds(c) ==
    /\ cookie # "none" /\ c # cookie /\ c \in {"none", "refused"} /\ Turn
    /\ cookie' = c /\ UNCHANGED <<throttle, place, screen>>

(* A request of the page itself is answered 401 (api.ts).                      *)
RequestRefused == screen = "shown" /\ cookie # "good" /\ Goes("login") /\ UNCHANGED turns

LogOut(answered) ==
    /\ screen = "shown" /\ Turn
    /\ cookie' = IF answered THEN "none" ELSE cookie
    /\ place' = "login" /\ screen' = "asking" /\ UNCHANGED throttle

Navigate(p) == screen \in {"form", "shown", "stuck"} /\ Turn /\ Goes(p)

SignInNext ==
    \/ \E a \in Attempts : \/ \E k \in Logins : TryElsewhere(a, k) \/ TryHere(a, k)
                           \/ Fail(a) \/ Succeed(a)
    \/ TimePasses
    \/ Proxied \/ Welcome \/ SentAway \/ NeverLoads \/ RequestRefused
    \/ \E c \in {"none", "refused"} : SessionEnds(c)
    \/ \E answered \in BOOLEAN : LogOut(answered)
    \/ \E p \in {"login", "page"} : Navigate(p)

(* A browser follows a redirect, and the API answers.                          *)
SignInAnswers == \/ Proxied \/ Welcome \/ SentAway
                 \/ \E a \in Attempts : attempt[a].mine /\ (Fail(a) \/ Succeed(a))
SignInFairness == WF_signInVars(SignInAnswers)

SignInSpec == SignInInit /\ [][SignInNext]_signInVars /\ SignInFairness

-----------------------------------------------------------------------------
SignInTypeOK ==
    /\ bucket \in [Logins -> [count : Nat, left : Nat]]
    /\ attempt \in [Attempts -> [pc : {"idle", "compare"}, login : Logins \cup {NoLogin}, mine : BOOLEAN]]
    /\ \A a \in Attempts : attempt[a].pc = "compare" => attempt[a].login \in Logins
    /\ cookie \in {"none", "good", "refused"} /\ place \in {"login", "page"}
    /\ screen \in {"form", "busy", "asking", "loading", "shown", "stuck"}
    /\ tries \in Nat /\ turns \in Nat

Comparing(k) == {a \in Attempts : attempt[a].pc = "compare" /\ attempt[a].login = k}
Failures(k) == IF bucket[k].left = 0 THEN 0 ELSE bucket[k].count

\* The limit bounds what can be tried in a window: failures and comparisons in progress
\* never exceed it by more than the attempts that can be in progress, less one, though
\* it is checked before a comparison and counted after.
AttemptsBounded ==
    \A k \in Logins :
        Failures(k) + Cardinality(Comparing(k)) <= MaxAttempts + Cardinality(Attempts) - 1

\* The browser comes to rest again and again, at the sign-in form or on a page, however
\* the session ends: unless its cookie is refused, for then proxy.ts sends it away from
\* the form and Shell.tsx back to it, for ever.
BrowserSettles == []<>(screen \notin {"busy", "asking", "loading"} \/ cookie = "refused")
=============================================================================
