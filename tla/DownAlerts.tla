----------------------------- MODULE DownAlerts -----------------------------
(* The connectivity check, the alerts it sends and their daily limit.  Every two *)
(* minutes JobsService reads the routers and looks, router by router, for rows of *)
(* the last ten minutes; ingest sets a router online meanwhile.  An alert goes   *)
(* out by e-mail and SMS; test messages of administrators use the same counter. *)
EXTENDS Integers, FiniteSets

CONSTANTS
    Routers, NoRouter,
    Handlers,           \* ingest handlers with a row inserted
    Checks, Tests,      \* runs of the check, and requests for a test message, in progress
    DailyMax,           \* SMS_DAILY_LIMIT
    MaxDays, MaxEdits, MaxFaults    \* bounds: midnights, edits of the registry, faults

ASSUME AlertsAssumption ==
    /\ NoRouter \notin Routers /\ Checks \cap Tests = {}
    /\ DailyMax \in Nat
    /\ {MaxDays, MaxEdits, MaxFaults} \subseteq Nat

VARIABLES
    router,     \* what the server table says of each router
    recent,     \* routers that have a row of the last ten minutes
    handler,    \* the router whose row a handler has inserted, NoRouter if none
    checking,   \* JobsService.checking
    check,      \* the runs of the check
    sms,        \* the messages being sent, by run or request
    company,    \* smsSentToday, and whether lastSmsSend is of today
    saved,      \* the two as the company file has them
    sent,       \* history: messages the provider delivered today, up to one too many
    uncounted,  \* history: sends of today overlapped, or one was delivered but not counted,
                \* or a restart brought back an older count
    fell,       \* history: routers set offline and not reported yet
    faulted,    \* history: a check was cut short
    spent       \* what has been used of the bounds

registry == <<router, recent, handler>>
messages == <<sms, company, saved, sent, uncounted>>
vars == <<registry, checking, check, messages, fell, faulted, spent>>

Senders == Checks \cup Tests
NoRead == [id |-> NoRouter, online |-> FALSE]
Resting == [pc |-> "idle", todo |-> {}, since |-> {}, cur |-> NoRead]
Silent == [pc |-> "idle", count |-> 0, today |-> FALSE, delivered |-> FALSE]

Enabled == {s \in Routers : router[s].there /\ ~router[s].disabled}
Sending == {t \in Senders : sms[t].pc # "idle"}

Init ==
    /\ \E there \in BOOLEAN :
           router = [s \in Routers |-> [there |-> there, disabled |-> FALSE, online |-> FALSE]]
    /\ recent = {} /\ handler = [h \in Handlers |-> NoRouter]
    /\ checking = FALSE /\ check = [c \in Checks |-> Resting]
    /\ sms = [t \in Senders |-> Silent]
    /\ company = [count |-> 0, today |-> FALSE] /\ saved = company
    /\ sent = 0 /\ uncounted = FALSE
    /\ fell = {} /\ faulted = FALSE
    /\ spent = [days |-> 0, edits |-> 0, faults |-> 0]

Spend(what, max) == /\ spent[what] < max
                    /\ spent' = [spent EXCEPT ![what] = @ + 1]

-----------------------------------------------------------------------------
(* Ingest and registry.                                                       *)
Insert(h, s) ==
    /\ handler[h] = NoRouter /\ s \in Enabled
    /\ handler' = [handler EXCEPT ![h] = s]
    /\ recent' = recent \cup {s}
    /\ check' = [c \in Checks |-> IF check[c].pc = "idle" THEN check[c]
                                ELSE [check[c] EXCEPT !.since = @ \cup {s}]]
    /\ UNCHANGED <<router, checking, messages, fell, faulted, spent>>

(* updateMany: of a router that is gone, nothing.                             *)
SetOnline(s, online) == router' = [router EXCEPT ![s].online = online]

MarkOnline(h) ==
    LET s == handler[h] IN
    /\ s # NoRouter
    /\ handler' = [handler EXCEPT ![h] = NoRouter]
    /\ IF router[s].there THEN SetOnline(s, TRUE) ELSE UNCHANGED router
    /\ UNCHANGED <<recent, checking, check, messages, fell, faulted, spent>>

Age(s) ==
    /\ s \in recent
    /\ recent' = recent \ {s}
    /\ UNCHANGED <<router, handler, checking, check, messages, fell, faulted, spent>>

Toggle(s) ==
    /\ router[s].there
    /\ router' = [router EXCEPT ![s].disabled = ~@]
    /\ Spend("edits", MaxEdits)
    /\ UNCHANGED <<recent, handler, checking, check, messages, fell, faulted>>

(* Rows go with their router.                                                 *)
Remove(s) ==
    /\ router[s].there
    /\ router' = [router EXCEPT ![s].there = FALSE]
    /\ recent' = recent \ {s}
    /\ check' = [c \in Checks |-> [check[c] EXCEPT !.since = @ \ {s}]]
    /\ Spend("edits", MaxEdits)
    /\ UNCHANGED <<handler, checking, messages, fell, faulted>>

-----------------------------------------------------------------------------
(* checkMikroTikLinks.  `since` holds the routers with a row that is not older  *)
(* than the run's own cutoff.                                                 *)
Go(c, r) == check' = [check EXCEPT ![c] = r]
Read == {[id |-> s, online |-> router[s].online] : s \in Enabled}

(* The run goes on with the routers it has not looked at, or ends.             *)
GoOnHeld(c, todo) ==
    /\ Go(c, IF todo = {} THEN Resting ELSE [check[c] EXCEPT !.pc = "look", !.todo = todo, !.cur = NoRead])
    /\ UNCHANGED checking
GoOn(c, todo) ==
    IF todo = {} THEN Go(c, Resting) /\ checking' = FALSE
    ELSE /\ Go(c, [check[c] EXCEPT !.pc = "look", !.todo = todo, !.cur = NoRead])
         /\ UNCHANGED checking

StartUnchecked(c) ==
    /\ check[c].pc = "idle" /\ Read # {}
    /\ Go(c, [Resting EXCEPT !.pc = "look", !.todo = Read, !.since = recent])
    /\ checking' = TRUE
    /\ UNCHANGED <<registry, messages, fell, faulted, spent>>
Start(c) ==
    /\ check[c].pc = "idle" /\ ~checking /\ Read # {}
    /\ Go(c, [Resting EXCEPT !.pc = "look", !.todo = Read, !.since = recent])
    /\ checking' = TRUE
    /\ UNCHANGED <<registry, messages, fell, faulted, spent>>

LookForSilence(c) ==
    /\ check[c].pc = "look"
    /\ \E r \in check[c].todo :
         LET rest == check[c].todo \ {r} IN
         IF r.online /\ r.id \notin check[c].since
         THEN /\ Go(c, [check[c] EXCEPT !.pc = "update", !.todo = rest, !.cur = r])
              /\ UNCHANGED checking
         ELSE GoOn(c, rest)
    /\ UNCHANGED <<registry, messages, fell, faulted, spent>>
Look(c) ==
    /\ check[c].pc = "look"
    /\ \E r \in check[c].todo :
         LET rest == check[c].todo \ {r} IN
         IF (r.id \in check[c].since) # r.online
         THEN /\ Go(c, [check[c] EXCEPT !.pc = "update", !.todo = rest, !.cur = r])
              /\ UNCHANGED checking
         ELSE GoOn(c, rest)
    /\ UNCHANGED <<registry, messages, fell, faulted, spent>>

(* The update of a router that is gone throws, and ends the run.               *)
End(c) == Go(c, Resting) /\ checking' = FALSE

UpdateOnly(c) ==
    LET r == check[c].cur IN
    /\ check[c].pc = "update" /\ router[r.id].there
    /\ SetOnline(r.id, ~r.online) /\ UNCHANGED fell
    /\ GoOn(c, check[c].todo)
    /\ UNCHANGED <<recent, handler, messages, faulted, spent>>
Update(c) ==
    LET r == check[c].cur IN
    /\ check[c].pc = "update" /\ router[r.id].there
    /\ SetOnline(r.id, ~r.online)
    /\ fell' = IF router[r.id].online /\ r.online THEN fell \cup {r.id} ELSE fell
    /\ IF r.online THEN Go(c, [check[c] EXCEPT !.pc = "alert"]) /\ UNCHANGED checking
       ELSE GoOn(c, check[c].todo)
    /\ UNCHANGED <<recent, handler, messages, faulted, spent>>
UpdateGone(c) ==
    /\ check[c].pc = "update" /\ ~router[check[c].cur.id].there
    /\ End(c)
    /\ UNCHANGED <<registry, messages, fell, faulted, spent>>

-----------------------------------------------------------------------------
(* Messages.                                                                  *)
Put(t, m) == sms' = [sms EXCEPT ![t] = m]

(* sendSms: the counter as it was read, if its last message is of today.       *)
SentToday(m) == IF m.today THEN m.count ELSE 0

SendOneMore(t, m) ==
    Put(t, IF SentToday(m) > DailyMax THEN Silent
           ELSE [m EXCEPT !.pc = "sending", !.count = SentToday(m), !.today = TRUE])
Send(t, m) ==
    Put(t, IF SentToday(m) >= DailyMax THEN Silent
           ELSE [m EXCEPT !.pc = "sending", !.count = SentToday(m), !.today = TRUE])

(* A message that is under way while the counter is read is not counted yet.   *)
Notice(t) == uncounted' = (uncounted \/ (sms'[t].pc # "idle" /\ Sending \ {t} # {}))

Company == [Silent EXCEPT !.pc = "email", !.count = company.count, !.today = company.today]

(* alertMikroTikDown: what is switched on is the administrators' choice.  The   *)
(* e-mail is sent first, with the company as it was read.                      *)
Alert(c) ==
    /\ check[c].pc = "alert"
    /\ fell' = fell \ {check[c].cur.id}
    /\ \/ /\ Put(c, Company) \/ Send(c, Company)
          /\ Notice(c)
          /\ Go(c, [check[c] EXCEPT !.pc = "message"])
          /\ UNCHANGED checking
       \/ GoOn(c, check[c].todo) /\ UNCHANGED <<sms, uncounted>>
    /\ UNCHANGED <<registry, company, saved, sent, faulted, spent>>

MailEnds(c) ==
    /\ sms[c].pc = "email"
    /\ Send(c, sms[c]) \/ Put(c, Silent)
    /\ UNCHANGED <<registry, checking, check, company, saved, sent, uncounted, fell, faulted, spent>>

AskTest(q) ==
    /\ sms[q].pc = "idle"
    /\ Send(q, Company) /\ Notice(q)
    /\ UNCHANGED <<registry, checking, check, company, saved, sent, fell, faulted, spent>>

Deliver(t) ==
    /\ sms[t].pc = "sending" /\ ~sms[t].delivered
    /\ Put(t, [sms[t] EXCEPT !.delivered = TRUE])
    /\ sent' = IF sent > DailyMax THEN sent ELSE sent + 1
    /\ UNCHANGED <<registry, checking, check, company, saved, uncounted, fell, faulted, spent>>
Answer(t) ==
    /\ sms[t].pc = "sending" /\ sms[t].delivered
    /\ Put(t, [sms[t] EXCEPT !.pc = "count"])
    /\ UNCHANGED <<registry, checking, check, company, saved, sent, uncounted, fell, faulted, spent>>

Counted(t) == [count |-> sms[t].count + 1, today |-> TRUE]

Count(t) ==
    /\ sms[t].pc = "count"
    /\ company' = Counted(t) /\ Put(t, Silent)
    /\ UNCHANGED <<registry, checking, check, saved, sent, uncounted, fell, faulted, spent>>

(* A timeout, a refusal, or an error of the database.                          *)
SendFails(t) ==
    /\ sms[t].pc \in {"sending", "count"}
    /\ Put(t, Silent)
    /\ uncounted' = (uncounted \/ sms[t].delivered)
    /\ UNCHANGED <<registry, checking, check, company, saved, sent, fell, faulted, spent>>

(* persistCurrent, whenever settings or the license key are saved.             *)
Save ==
    /\ saved' = company
    /\ UNCHANGED <<registry, checking, check, sms, company, sent, uncounted, fell, faulted, spent>>

(* The run goes on when its message is out of the way.                         *)
Alerted(c) ==
    /\ check[c].pc = "message" /\ sms[c].pc = "idle"
    /\ GoOn(c, check[c].todo)
    /\ UNCHANGED <<registry, messages, fell, faulted, spent>>

Midnight ==
    /\ Spend("days", MaxDays)
    /\ company' = [company EXCEPT !.today = FALSE] /\ saved' = [saved EXCEPT !.today = FALSE]
    /\ sms' = [t \in Senders |-> IF sms[t].pc = "email" THEN [sms[t] EXCEPT !.today = FALSE] ELSE sms[t]]
    /\ sent' = 0
    /\ uncounted' = \E t, u \in Sending : t # u
    /\ UNCHANGED <<registry, checking, check, fell, faulted>>

-----------------------------------------------------------------------------
(* A query of a run fails, or the process restarts, and restores the company   *)
(* from its file.                                                             *)
QueryFails(c) ==
    /\ check[c].pc \in {"look", "update", "alert"}
    /\ End(c)
    /\ faulted' = TRUE
    /\ Spend("faults", MaxFaults)
    /\ UNCHANGED <<registry, messages, fell>>

Restart ==
    /\ handler' = [h \in Handlers |-> NoRouter]
    /\ checking' = FALSE /\ check' = [c \in Checks |-> Resting]
    /\ sms' = [t \in Senders |-> Silent]
    /\ company' = saved
    /\ uncounted' = (uncounted \/ saved # company \/ \E t \in Senders : sms[t].delivered)
    /\ faulted' = TRUE
    /\ Spend("faults", MaxFaults)
    /\ UNCHANGED <<router, recent, saved, sent, fell>>

RunStep(c) == Look(c) \/ Update(c) \/ UpdateGone(c) \/ Alert(c) \/ MailEnds(c) \/ Alerted(c)
SendStep(t) == Deliver(t) \/ Answer(t) \/ Count(t) \/ SendFails(t)
Environment ==
    \/ \E s \in Routers : Age(s) \/ Toggle(s) \/ Remove(s) \/ \E h \in Handlers : Insert(h, s)
    \/ \E q \in Tests : AskTest(q)
    \/ \E c \in Checks : QueryFails(c)
    \/ Save \/ Midnight \/ Restart

Next ==
    \/ \E c \in Checks : Start(c) \/ RunStep(c)
    \/ \E t \in Senders : SendStep(t)
    \/ \E h \in Handlers : MarkOnline(h)
    \/ Environment

Spec == Init /\ [][Next]_vars

(* The timer fires; a query, a mail or a message ends, one way or another.      *)
Fairness ==
    /\ \A c \in Checks : WF_vars(RunStep(c))
    /\ WF_vars(\E c \in Checks : Start(c))
    /\ \A t \in Senders : WF_vars(SendStep(t))
    /\ \A h \in Handlers : WF_vars(MarkOnline(h))
FairSpec == Spec /\ Fairness

-----------------------------------------------------------------------------
TypeOK ==
    /\ router \in [Routers -> [there : BOOLEAN, disabled : BOOLEAN, online : BOOLEAN]]
    /\ recent \subseteq Routers
    /\ handler \in [Handlers -> Routers \cup {NoRouter}]
    /\ checking = \E c \in Checks : check[c].pc # "idle"
    /\ check \in [Checks ->
          [pc : {"idle", "look", "update", "alert", "message"},
           todo : SUBSET [id : Routers, online : BOOLEAN], since : SUBSET Routers,
           cur : [id : Routers \cup {NoRouter}, online : BOOLEAN]]]
    /\ sms \in [Senders -> [pc : {"idle", "email", "sending", "count"}, count : Nat,
                            today : BOOLEAN, delivered : BOOLEAN]]
    /\ {company, saved} \subseteq [count : Nat, today : BOOLEAN]
    /\ sent \in Nat /\ uncounted \in BOOLEAN /\ faulted \in BOOLEAN
    /\ fell \subseteq Routers
    /\ spent \in [days : Nat, edits : Nat, faults : Nat]

\* No more messages a day than SMS_DAILY_LIMIT, unless two sends overlap, one is
\* delivered without the service learning of it, or a restart brings back an older count.
DailyLimit == ~uncounted => sent <= DailyMax

Reports(c, s) == check[c].pc = "alert" /\ check[c].cur.id = s

\* Every alert is for a fall of its own: the router was online when the check set it
\* offline, and nobody else reports that, however ingest, checks and restarts interleave.
OneAlertPerOutage ==
    \A s \in Routers, c \in Checks :
        Reports(c, s) => s \in fell /\ \A d \in Checks \ {c} : ~Reports(d, s)

\* A router that is online and goes silent for good is reported, unless a check is cut
\* short by an error or a restart: such a check may have set it offline already.
SilenceReported ==
    \A s \in Routers :
        [](/\ router[s].online
           /\ [](s \in Enabled /\ s \notin recent /\ ~faulted)
           => <>(\E c \in Checks : Reports(c, s)))

\* What a router shows follows what it sends, although the check writes what it saw before.
StatusFollows ==
    \A s \in Routers :
        /\ <>[](s \in Enabled \cap recent) => <>[](router[s].online)
        /\ <>[](s \in Enabled /\ s \notin recent) => <>[](~router[s].online)
=============================================================================
