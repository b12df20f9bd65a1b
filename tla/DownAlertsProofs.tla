-------------------------- MODULE DownAlertsProofs --------------------------
(* Types, single alerts and the daily limit of DownAlerts, for any number of    *)
(* routers, runs and requests.                                                *)
EXTENDS DownAlerts, TLAPS

Entry == [there : BOOLEAN, disabled : BOOLEAN, online : BOOLEAN]
Row == [id : Routers, online : BOOLEAN]
Run == [pc : {"idle", "look", "update", "alert", "message"}, todo : SUBSET Row, since : SUBSET Routers,
        cur : [id : Routers \cup {NoRouter}, online : BOOLEAN]]
Message == [pc : {"idle", "email", "sending", "count"}, count : Nat, today : BOOLEAN, delivered : BOOLEAN]
Counter == [count : Nat, today : BOOLEAN]

(* TypeOK by parts.                                                           *)
WorldOK == /\ router \in [Routers -> Entry] /\ recent \subseteq Routers
           /\ handler \in [Handlers -> Routers \cup {NoRouter}]
MessagesOK == /\ sms \in [Senders -> Message] /\ company \in Counter /\ saved \in Counter
              /\ sent \in Nat /\ uncounted \in BOOLEAN
RestOK == /\ fell \subseteq Routers /\ faulted \in BOOLEAN
          /\ spent \in [days : Nat, edits : Nat, faults : Nat]

(* What a run read and knows: a router it read as online is online, since nobody *)
(* else sets routers offline meanwhile.                                       *)
Fresh(r, table, down) ==
    /\ \A a \in r.todo : a.online => table[a.id].online
    /\ \A a, b \in r.todo : a.id = b.id => a = b
    /\ r.pc \in {"update", "alert"} => r.cur \in Row /\ \A a \in r.todo : a.id # r.cur.id
    /\ r.pc = "update" /\ r.cur.online => table[r.cur.id].online
    /\ r.pc = "alert" => r.cur.id \in down

(* One run at a time; a run waits for its message.                             *)
RunsOK ==
    /\ check \in [Checks -> Run]
    /\ checking = \E c \in Checks : check[c].pc # "idle"
    /\ \A c, d \in Checks : check[c].pc # "idle" /\ check[d].pc # "idle" => c = d
    /\ \A c \in Checks : check[c].pc # "idle" => Fresh(check[c], router, fell)
    /\ \A c \in Checks : sms[c].pc # "idle" => check[c].pc = "message"

RunInv == WorldOK /\ MessagesOK /\ RestOK /\ RunsOK

-----------------------------------------------------------------------------
(* While no send overlapped another, the counter, or the message under way, knows *)
(* of every message delivered today.                                          *)
Lonely == \A t, u \in Sending : t = u
Known(m) ==
    /\ SentToday(company) <= SentToday(m)
    /\ m.delivered => sent <= SentToday(m) + 1

Limited(m) == /\ m.pc \in {"sending", "count"} => m.today /\ m.count < DailyMax
              /\ m.pc = "count" => m.delivered
              /\ m.delivered => m.pc \in {"sending", "count"}

CountInv ==
    /\ \A t \in Senders : Limited(sms[t])
    /\ company.count <= DailyMax /\ saved.count <= DailyMax
    /\ ~uncounted => /\ Lonely
                     /\ \A t \in Sending : Known(sms[t])
                     /\ (\A t \in Senders : ~sms[t].delivered) => sent <= SentToday(company)

Inv == RunInv /\ CountInv

-----------------------------------------------------------------------------
LEMMA Parts == WorldOK /\ MessagesOK /\ RestOK /\ RunsOK => TypeOK
    BY DEF WorldOK, MessagesOK, RestOK, RunsOK, TypeOK, Entry, Row, Run, Message, Counter

LEMMA InitInv == Init => Inv
<1> SUFFICES ASSUME Init PROVE Inv
    OBVIOUS
<1>1. WorldOK /\ RestOK
    <2>1. PICK there \in BOOLEAN :
              router = [s \in Routers |-> [there |-> there, disabled |-> FALSE, online |-> FALSE]]
        BY DEF Init
    <2>2. router \in [Routers -> Entry]
        BY <2>1 DEF Entry
    <2> QED
        BY <2>2, AlertsAssumption DEF Init, WorldOK, RestOK, Entry
<1>2. /\ Silent \in Message /\ Silent.pc = "idle" /\ ~Silent.delivered
      /\ Resting \in Run /\ Resting.pc = "idle"
    BY DEF Silent, Message, Resting, Run, NoRead
<1>3. \A t \in Senders : sms[t] = Silent
    BY DEF Init
<1>4. MessagesOK
    BY <1>2 DEF Init, MessagesOK, Counter
<1>5. RunsOK
    BY <1>2, <1>3 DEF Init, RunsOK, Senders
<1>6. \A t \in Senders : Limited(sms[t]) /\ t \notin Sending
    BY <1>2, <1>3 DEF Limited, Sending
<1>7. CountInv
    BY <1>6, AlertsAssumption DEF Init, CountInv, Sending, Lonely, SentToday
<1> QED
    BY <1>1, <1>4, <1>5, <1>7 DEF Inv, RunInv

(* Another run moves, the others being idle.                                   *)
LEMMA RunMoves ==
    ASSUME RunInv, NEW c \in Checks, NEW r \in Run, check' = [check EXCEPT ![c] = r],
           \A d \in Checks \ {c} : check[d].pc = "idle",
           checking' = (r.pc # "idle"),
           r.pc # "idle" => Fresh(r, router', fell'),
           \A d \in Checks : sms'[d].pc # "idle" => d = c /\ r.pc = "message"
    PROVE  RunsOK'
<1>1. check \in [Checks -> Run]
    BY DEF RunInv, RunsOK
<1>2. \A d \in Checks : check'[d] = IF d = c THEN r ELSE check[d]
    BY <1>1
<1>3. check' \in [Checks -> Run]
    BY <1>1
<1>4. checking' = \E d \in Checks : check'[d].pc # "idle"
    BY <1>2
<1>5. \A d, e \in Checks : check'[d].pc # "idle" /\ check'[e].pc # "idle" => d = e
    BY <1>2
<1>6. \A d \in Checks : check'[d].pc # "idle" => Fresh(check'[d], router', fell')
    BY <1>2
<1>7. \A d \in Checks : sms'[d].pc # "idle" => check'[d].pc = "message"
    BY <1>2
<1> QED
    BY <1>3, <1>4, <1>5, <1>6, <1>7 DEF RunsOK

(* A run is alone.                                                            *)
LEMMA OthersRest ==
    ASSUME RunInv, NEW c \in Checks, check[c].pc # "idle"
    PROVE  \A d \in Checks \ {c} : check[d].pc = "idle" /\ sms[d].pc = "idle"
    BY DEF RunInv, RunsOK

LEMMA Rests == Resting \in Run /\ Resting.pc = "idle"
    BY DEF Resting, Run, NoRead

LEMMA GoesOn ==
    ASSUME RunInv, NEW c \in Checks, check[c].pc # "idle", NEW todo \in SUBSET check[c].todo,
           GoOn(c, todo), \A a \in todo : a.online => router'[a.id].online,
           \A d \in Checks : sms'[d].pc = "idle"
    PROVE  RunsOK'
<1>1. \A d \in Checks \ {c} : check[d].pc = "idle"
    BY OthersRest
<1>2. CASE todo = {}
    BY <1>1, <1>2, RunMoves, Rests DEF GoOn, Go
<1>3. CASE todo # {}
  <2> DEFINE r == [check[c] EXCEPT !.pc = "look", !.todo = todo, !.cur = NoRead]
  <2>1. check[c] \in Run /\ Fresh(check[c], router, fell)
    BY DEF RunInv, RunsOK
  <2>2. r \in Run /\ r.pc = "look" /\ r.todo = todo
    BY <2>1 DEF Run, NoRead
  <2>3. Fresh(r, router', fell')
    BY <2>1, <2>2 DEF Fresh
  <2>4. checking' = TRUE
    BY <1>3 DEF GoOn, RunInv, RunsOK
  <2>5. check' = [check EXCEPT ![c] = r]
    BY <1>3 DEF GoOn, Go
  <2> HIDE DEF r
  <2> QED
    BY <1>1, <2>2, <2>3, <2>4, <2>5, RunMoves
<1> QED
    BY <1>2, <1>3

(* A step that takes no router offline and moves no run.                       *)
LEMMA RunsStay ==
    ASSUME RunInv, check' \in [Checks -> Run],
           \A c \in Checks : /\ check'[c].pc = check[c].pc /\ check'[c].todo = check[c].todo
                             /\ check'[c].cur = check[c].cur,
           UNCHANGED <<checking, fell>>,
           \A s \in Routers : router[s].online => router'[s].online,
           \A c \in Checks : sms'[c].pc # "idle" => sms[c].pc # "idle"
    PROVE  RunsOK'
<1>1. ASSUME NEW c \in Checks, check'[c].pc # "idle" PROVE Fresh(check'[c], router', fell')
  <2>1. check[c] \in Run /\ Fresh(check[c], router, fell) /\ fell' = fell
    BY <1>1 DEF RunInv, RunsOK
  <2>2. /\ check'[c].pc = check[c].pc /\ check'[c].todo = check[c].todo
        /\ check'[c].cur = check[c].cur
    OBVIOUS
  <2>3. \A a \in check[c].todo : a.id \in Routers
    BY <2>1 DEF Run, Row
  <2>4. check[c].cur \in Row => check[c].cur.id \in Routers
    BY DEF Row
  <2> QED
    BY <2>1, <2>2, <2>3, <2>4 DEF Fresh
<1>2. checking' = \E c \in Checks : check'[c].pc # "idle"
    BY DEF RunInv, RunsOK
<1>3. \A c \in Checks : sms'[c].pc # "idle" => check'[c].pc = "message"
    BY DEF RunInv, RunsOK
<1>4. \A c, d \in Checks : check'[c].pc # "idle" /\ check'[d].pc # "idle" => c = d
    BY DEF RunInv, RunsOK
<1> QED
    BY <1>1, <1>2, <1>3, <1>4 DEF RunsOK

-----------------------------------------------------------------------------
(* Ingest and registry.                                                       *)
LEMMA Spending ==
    ASSUME RestOK, NEW what \in {"days", "edits", "faults"}, NEW max, Spend(what, max)
    PROVE  spent' \in [days : Nat, edits : Nat, faults : Nat]
    BY DEF RestOK, Spend

LEMMA RegistryStep ==
    ASSUME RunInv, WorldOK', UNCHANGED <<checking, messages, fell, faulted>>,
           spent' \in [days : Nat, edits : Nat, faults : Nat],
           \A s \in Routers : router[s].online => router'[s].online,
           check' \in [Checks -> Run],
           \A c \in Checks : /\ check'[c].pc = check[c].pc /\ check'[c].todo = check[c].todo
                             /\ check'[c].cur = check[c].cur
    PROVE  RunInv'
<1>1. MessagesOK' /\ RestOK'
    BY DEF RunInv, MessagesOK, RestOK, messages
<1>2. RunsOK'
    BY RunsStay DEF messages
<1> QED
    BY <1>1, <1>2 DEF RunInv

LEMMA SinceMoves ==
    ASSUME NEW r \in Run, NEW S \in SUBSET Routers
    PROVE  /\ [r EXCEPT !.since = S] \in Run /\ [r EXCEPT !.since = S].pc = r.pc
           /\ [r EXCEPT !.since = S].todo = r.todo /\ [r EXCEPT !.since = S].cur = r.cur
    BY DEF Run

LEMMA IngestStep ==
    ASSUME RunInv, NEW s \in Routers,
           Age(s) \/ Toggle(s) \/ Remove(s) \/ \E h \in Handlers : Insert(h, s)
    PROVE  RunInv'
<1>1. /\ router \in [Routers -> Entry] /\ recent \subseteq Routers
      /\ handler \in [Handlers -> Routers \cup {NoRouter}] /\ check \in [Checks -> Run]
      /\ spent \in [days : Nat, edits : Nat, faults : Nat]
    BY DEF RunInv, WorldOK, RunsOK, RestOK
<1>2. ASSUME NEW h \in Handlers, Insert(h, s) PROVE RunInv'
  <2>1. WorldOK'
    BY <1>1, <1>2 DEF Insert, WorldOK
  <2>2. \A c \in Checks : check'[c] = IF check[c].pc = "idle" THEN check[c]
                                      ELSE [check[c] EXCEPT !.since = @ \cup {s}]
    BY <1>2 DEF Insert
  <2>3. \A c \in Checks : /\ check'[c] \in Run /\ check'[c].pc = check[c].pc
                          /\ check'[c].todo = check[c].todo /\ check'[c].cur = check[c].cur
    <3> SUFFICES ASSUME NEW c \in Checks
                 PROVE  /\ check'[c] \in Run /\ check'[c].pc = check[c].pc
                        /\ check'[c].todo = check[c].todo /\ check'[c].cur = check[c].cur
      OBVIOUS
    <3>1. check[c] \in Run /\ check[c].since \cup {s} \in SUBSET Routers
      BY <1>1 DEF Run
    <3>2. check'[c] = check[c] \/ check'[c] = [check[c] EXCEPT !.since = check[c].since \cup {s}]
      BY <2>2
    <3>3. CASE check'[c] = [check[c] EXCEPT !.since = check[c].since \cup {s}]
      BY <3>1, <3>3, SinceMoves
    <3> QED
      BY <3>1, <3>2, <3>3
  <2>4. check' \in [Checks -> Run]
    BY <1>2, <2>3 DEF Insert
  <2> QED
    BY <1>1, <1>2, <2>1, <2>3, <2>4, RegistryStep DEF Insert
<1>3. ASSUME Age(s) PROVE RunInv'
  <2>1. WorldOK'
    BY <1>1, <1>3 DEF Age, WorldOK
  <2> QED
    BY <1>1, <1>3, <2>1, RegistryStep DEF Age
<1>4. ASSUME Toggle(s) PROVE RunInv'
  <2>1. router'[s] = [router[s] EXCEPT !.disabled = ~router[s].disabled]
    BY <1>1, <1>4 DEF Toggle
  <2>2. router'[s] \in Entry /\ router'[s].online = router[s].online
    <3>1. router[s] \in Entry
      BY <1>1
    <3> QED
      BY <2>1, <3>1 DEF Entry
  <2>3. router' \in [Routers -> Entry] /\ \A x \in Routers : router'[x].online = router[x].online
    BY <1>1, <1>4, <2>2 DEF Toggle
  <2>4. WorldOK'
    BY <1>1, <1>4, <2>3 DEF Toggle, WorldOK
  <2>5. spent' \in [days : Nat, edits : Nat, faults : Nat]
    BY <1>4, Spending DEF Toggle, RunInv
  <2> QED
    BY <1>1, <1>4, <2>3, <2>4, <2>5, RegistryStep DEF Toggle
<1>5. ASSUME Remove(s) PROVE RunInv'
  <2>1. router'[s] = [router[s] EXCEPT !.there = FALSE]
    BY <1>1, <1>5 DEF Remove
  <2>2. router'[s] \in Entry /\ router'[s].online = router[s].online
    <3>1. router[s] \in Entry
      BY <1>1
    <3> QED
      BY <2>1, <3>1 DEF Entry
  <2>3. router' \in [Routers -> Entry] /\ \A x \in Routers : router'[x].online = router[x].online
    BY <1>1, <1>5, <2>2 DEF Remove
  <2>4. WorldOK'
    BY <1>1, <1>5, <2>3 DEF Remove, WorldOK
  <2>5. spent' \in [days : Nat, edits : Nat, faults : Nat]
    BY <1>5, Spending DEF Remove, RunInv
  <2>6. \A c \in Checks : check'[c] = [check[c] EXCEPT !.since = @ \ {s}]
    BY <1>5 DEF Remove
  <2>7. \A c \in Checks : /\ check'[c] \in Run /\ check'[c].pc = check[c].pc
                          /\ check'[c].todo = check[c].todo /\ check'[c].cur = check[c].cur
    <3> SUFFICES ASSUME NEW c \in Checks
                 PROVE  /\ check'[c] \in Run /\ check'[c].pc = check[c].pc
                        /\ check'[c].todo = check[c].todo /\ check'[c].cur = check[c].cur
      OBVIOUS
    <3>1. check[c] \in Run /\ check[c].since \ {s} \in SUBSET Routers
      BY <1>1 DEF Run
    <3>2. check'[c] = [check[c] EXCEPT !.since = check[c].since \ {s}]
      BY <2>6
    <3> QED
      BY <3>1, <3>2, SinceMoves
  <2>8. check' \in [Checks -> Run]
    BY <1>5, <2>7 DEF Remove
  <2> QED
    BY <1>1, <1>5, <2>3, <2>4, <2>5, <2>7, <2>8, RegistryStep DEF Remove
<1> QED
    BY <1>2, <1>3, <1>4, <1>5

LEMMA MarkStep ==
    ASSUME RunInv, NEW h \in Handlers, MarkOnline(h)
    PROVE  RunInv'
<1> DEFINE s == handler[h]
<1>1. /\ router \in [Routers -> Entry] /\ recent \subseteq Routers
      /\ handler \in [Handlers -> Routers \cup {NoRouter}] /\ check \in [Checks -> Run]
      /\ spent \in [days : Nat, edits : Nat, faults : Nat]
    BY DEF RunInv, WorldOK, RunsOK, RestOK
<1>2. s \in Routers
    BY <1>1 DEF MarkOnline
<1>3. router' = router \/ router' = [router EXCEPT ![s].online = TRUE]
    BY DEF MarkOnline, SetOnline
<1>4. router' \in [Routers -> Entry] /\ \A x \in Routers : router[x].online => router'[x].online
    BY <1>1, <1>2, <1>3 DEF Entry
<1>5. WorldOK'
    BY <1>1, <1>4 DEF MarkOnline, WorldOK
<1> QED
    BY <1>1, <1>4, <1>5, RegistryStep DEF MarkOnline

-----------------------------------------------------------------------------
(* Messages.                                                                  *)
LEMMA Telling == Company \in Message => /\ Company.pc = "email" /\ ~Company.delivered
                                        /\ SentToday(Company) = SentToday(company)
    BY DEF Company, Message, SentToday, Silent

LEMMA CompanyIsMessage == RunInv => Company \in Message
    BY DEF RunInv, MessagesOK, Counter, Company, Message, Silent

LEMMA SilentIsMessage == Silent \in Message /\ Silent.pc = "idle" /\ ~Silent.delivered
    BY DEF Silent, Message

LEMMA Counts == ASSUME NEW m \in Message \cup Counter PROVE SentToday(m) \in Nat
    BY DEF Message, Counter, SentToday

(* What sendSms makes of a message.                                           *)
LEMMA Sends ==
    ASSUME NEW t \in Senders, NEW m \in Message, Send(t, m)
    PROVE  \/ Put(t, Silent)
           \/ \E n \in Message : /\ Put(t, n) /\ n.pc = "sending" /\ n.today
                                 /\ n.count = SentToday(m) /\ n.count < DailyMax
                                 /\ n.delivered = m.delivered
<1> DEFINE n == [m EXCEPT !.pc = "sending", !.count = SentToday(m), !.today = TRUE]
<1>1. SentToday(m) \in Nat
    BY Counts
<1>2. n \in Message /\ n.pc = "sending" /\ n.today /\ n.count = SentToday(m) /\ n.delivered = m.delivered
    BY <1>1 DEF Message
<1>3. CASE SentToday(m) >= DailyMax
    BY <1>3 DEF Send
<1>4. CASE ~(SentToday(m) >= DailyMax)
  <2>1. Put(t, n) /\ SentToday(m) < DailyMax
    BY <1>1, <1>4, AlertsAssumption DEF Send
  <2> HIDE DEF n
  <2> QED
    BY <1>2, <2>1
<1> QED
    BY <1>3, <1>4

(* A message that is under way, or of a request, moves.                        *)
LEMMA MessageStep ==
    ASSUME RunInv, NEW t \in Senders, NEW m \in Message, Put(t, m),
           UNCHANGED <<registry, checking, check, fell, faulted, spent>>,
           company' \in Counter, saved' \in Counter, sent' \in Nat, uncounted' \in BOOLEAN,
           m.pc # "idle" => t \in Tests \/ sms[t].pc # "idle"
    PROVE  RunInv'
<1>1. sms \in [Senders -> Message] /\ check \in [Checks -> Run]
    BY DEF RunInv, MessagesOK, RunsOK
<1>2. \A u \in Senders : sms'[u] = IF u = t THEN m ELSE sms[u]
    BY <1>1 DEF Put
<1>3. MessagesOK'
    BY <1>1 DEF MessagesOK, Put
<1>4. WorldOK' /\ RestOK'
    BY DEF RunInv, WorldOK, RestOK, registry
<1>5. \A c \in Checks : sms'[c].pc # "idle" => sms[c].pc # "idle"
    BY <1>2, AlertsAssumption DEF Senders
<1>6. RunsOK'
    BY <1>1, <1>5, RunsStay DEF registry
<1> QED
    BY <1>3, <1>4, <1>6 DEF RunInv

LEMMA SendSteps ==
    ASSUME RunInv, NEW t \in Senders, SendStep(t)
    PROVE  RunInv'
<1>1. /\ sms[t] \in Message /\ company \in Counter /\ saved \in Counter
      /\ sent \in Nat /\ uncounted \in BOOLEAN
    BY DEF RunInv, MessagesOK
<1>2. CASE Deliver(t)
  <2> DEFINE m == [sms[t] EXCEPT !.delivered = TRUE]
  <2>1. m \in Message /\ sms[t].pc # "idle"
    BY <1>1, <1>2 DEF Message, Deliver
  <2>2. sent' \in Nat
    BY <1>1, <1>2 DEF Deliver
  <2>3. Put(t, m) /\ UNCHANGED <<registry, checking, check, company, saved, uncounted, fell, faulted, spent>>
    BY <1>2 DEF Deliver
  <2> HIDE DEF m
  <2> QED
    BY <1>1, <2>1, <2>2, <2>3, MessageStep
<1>3. CASE Answer(t)
  <2> DEFINE m == [sms[t] EXCEPT !.pc = "count"]
  <2>1. m \in Message /\ sms[t].pc # "idle"
    BY <1>1, <1>3 DEF Message, Answer
  <2>2. Put(t, m) /\ UNCHANGED <<registry, checking, check, company, saved, sent, uncounted, fell, faulted, spent>>
    BY <1>3 DEF Answer
  <2> HIDE DEF m
  <2> QED
    BY <1>1, <2>1, <2>2, MessageStep
<1>4. CASE Count(t)
  <2>1. company' \in Counter
    BY <1>1, <1>4 DEF Count, Counted, Message, Counter
  <2> QED
    BY <1>1, <1>4, <2>1, MessageStep, SilentIsMessage DEF Count
<1>5. CASE SendFails(t)
  <2>1. uncounted' \in BOOLEAN
    BY <1>1, <1>5 DEF SendFails, Message
  <2> QED
    BY <1>1, <1>5, <2>1, MessageStep, SilentIsMessage DEF SendFails
<1> QED
    BY <1>2, <1>3, <1>4, <1>5 DEF SendStep

LEMMA AskStep ==
    ASSUME RunInv, NEW q \in Tests, AskTest(q)
    PROVE  RunInv'
<1>1. /\ company \in Counter /\ saved \in Counter /\ sent \in Nat /\ q \in Senders
      /\ Company \in Message
    BY CompanyIsMessage DEF RunInv, MessagesOK, Senders
<1>2. uncounted' \in BOOLEAN
    BY DEF AskTest, Notice
<1>3. \E m \in Message : Put(q, m)
    BY <1>1, Sends, SilentIsMessage DEF AskTest
<1> QED
    BY <1>1, <1>2, <1>3, MessageStep DEF AskTest

LEMMA MailStep ==
    ASSUME RunInv, NEW c \in Checks, MailEnds(c)
    PROVE  RunInv'
<1>1. /\ company \in Counter /\ saved \in Counter /\ sent \in Nat /\ uncounted \in BOOLEAN
      /\ c \in Senders /\ sms[c] \in Message
    BY DEF RunInv, MessagesOK, Senders
<1>2. \E m \in Message : Put(c, m)
    BY <1>1, Sends, SilentIsMessage DEF MailEnds
<1> QED
    BY <1>1, <1>2, MessageStep DEF MailEnds

LEMMA SaveStep == RunInv /\ Save => RunInv'
<1> SUFFICES ASSUME RunInv, Save PROVE RunInv'
    OBVIOUS
<1>1. WorldOK' /\ MessagesOK' /\ RestOK'
    BY DEF RunInv, WorldOK, MessagesOK, RestOK, Save, registry
<1>2. check \in [Checks -> Run]
    BY DEF RunInv, RunsOK
<1>3. RunsOK'
    BY <1>2, RunsStay DEF Save, registry
<1> QED
    BY <1>1, <1>3 DEF RunInv

(* What midnight leaves of a message.                                         *)
LEMMA MidnightMoves ==
    ASSUME RunInv, Midnight
    PROVE  /\ sms' \in [Senders -> Message]
           /\ \A t \in Senders : /\ sms'[t].pc = sms[t].pc /\ sms'[t].delivered = sms[t].delivered
                                 /\ sms[t].pc # "email" => sms'[t] = sms[t]
<1>1. \A t \in Senders : sms[t] \in Message
    BY DEF RunInv, MessagesOK
<1>2. \A t \in Senders : sms'[t] = IF sms[t].pc = "email" THEN [sms[t] EXCEPT !.today = FALSE] ELSE sms[t]
    BY DEF Midnight
<1>3. ASSUME NEW m \in Message
      PROVE  /\ [m EXCEPT !.today = FALSE] \in Message
             /\ [m EXCEPT !.today = FALSE].pc = m.pc
             /\ [m EXCEPT !.today = FALSE].delivered = m.delivered
    BY DEF Message
<1>4. ASSUME NEW t \in Senders
      PROVE  /\ sms'[t] \in Message /\ sms'[t].pc = sms[t].pc /\ sms'[t].delivered = sms[t].delivered
             /\ sms[t].pc # "email" => sms'[t] = sms[t]
  <2>1. CASE sms[t].pc = "email"
    <3>1. sms'[t] = [sms[t] EXCEPT !.today = FALSE] /\ sms[t] \in Message
      BY <1>1, <1>2, <2>1
    <3> QED
      BY <1>3, <2>1, <3>1
  <2>2. CASE sms[t].pc # "email"
    BY <1>1, <1>2, <2>2
  <2> QED
    BY <2>1, <2>2
<1>5. sms' \in [Senders -> Message]
    BY <1>4 DEF Midnight
<1> QED
    BY <1>4, <1>5

LEMMA MidnightStep == RunInv /\ Midnight => RunInv'
<1> SUFFICES ASSUME RunInv, Midnight PROVE RunInv'
    OBVIOUS
<1>1. spent' \in [days : Nat, edits : Nat, faults : Nat]
    BY Spending DEF Midnight, RunInv
<1>2. company' \in Counter /\ saved' \in Counter
    BY DEF Midnight, RunInv, MessagesOK, Counter
<1>3. WorldOK' /\ MessagesOK' /\ RestOK'
    BY <1>1, <1>2, MidnightMoves DEF RunInv, WorldOK, MessagesOK, RestOK, Midnight, registry
<1>4. check \in [Checks -> Run]
    BY DEF RunInv, RunsOK
<1>5. \A c \in Checks : sms'[c].pc # "idle" => sms[c].pc # "idle"
    BY MidnightMoves DEF Senders
<1>6. RunsOK'
    BY <1>4, <1>5, RunsStay DEF Midnight, registry
<1> QED
    BY <1>3, <1>6 DEF RunInv

-----------------------------------------------------------------------------
(* The runs of the check.                                                     *)
LEMMA ReadRows ==
    ASSUME RunInv
    PROVE  /\ Read \subseteq Row
           /\ \A a \in Read : a.online => router[a.id].online
           /\ \A a, b \in Read : a.id = b.id => a = b
<1>1. \A s \in Routers : router[s].online \in BOOLEAN
    BY DEF RunInv, WorldOK, Entry
<1>2. \A a \in Read : \E s \in Routers : a = [id |-> s, online |-> router[s].online]
    BY DEF Read, Enabled
<1>3. Read \subseteq Row
    BY <1>1, <1>2 DEF Row
<1>4. \A a \in Read : a.online = router[a.id].online
    BY <1>2
<1>5. \A a, b \in Read : a.id = b.id => a = b
    BY <1>2
<1> QED
    BY <1>3, <1>4, <1>5

LEMMA StartStep ==
    ASSUME RunInv, NEW c \in Checks, Start(c)
    PROVE  RunInv'
<1> DEFINE r == [Resting EXCEPT !.pc = "look", !.todo = Read, !.since = recent]
<1>1. /\ MessagesOK' /\ WorldOK' /\ RestOK'
    BY DEF RunInv, WorldOK, MessagesOK, RestOK, Start, registry, messages
<1>2. Read \in SUBSET Row /\ recent \in SUBSET Routers
    BY ReadRows DEF RunInv, WorldOK
<1>3. r \in Run /\ r.pc = "look" /\ r.todo = Read
    BY <1>2, Rests DEF Run
<1>4. Fresh(r, router', fell')
    BY <1>3, ReadRows DEF Fresh, Start, registry
<1>5. \A d \in Checks : check[d].pc = "idle" /\ sms'[d].pc = "idle"
    BY DEF RunInv, RunsOK, Start, messages
<1>6. check' = [check EXCEPT ![c] = r] /\ checking' = TRUE
    BY DEF Start, Go
<1> HIDE DEF r
<1>7. RunsOK'
    BY <1>3, <1>4, <1>5, <1>6, RunMoves
<1> QED
    BY <1>1, <1>7 DEF RunInv

(* The run that is at work, and the rows it has left.                          *)
LEMMA AtWork ==
    ASSUME RunInv, NEW c \in Checks, check[c].pc # "idle"
    PROVE  /\ check[c] \in Run /\ Fresh(check[c], router, fell) /\ checking
           /\ \A d \in Checks \ {c} : check[d].pc = "idle" /\ sms[d].pc = "idle"
           /\ check[c].pc # "message" => \A d \in Checks : sms[d].pc = "idle"
    BY OthersRest DEF RunInv, RunsOK

LEMMA LookStep ==
    ASSUME RunInv, NEW c \in Checks, Look(c)
    PROVE  RunInv'
<1>1. /\ MessagesOK' /\ WorldOK' /\ RestOK'
    BY DEF RunInv, WorldOK, MessagesOK, RestOK, Look, registry, messages
<1>2. /\ check[c] \in Run /\ Fresh(check[c], router, fell) /\ checking
      /\ \A d \in Checks \ {c} : check[d].pc = "idle"
      /\ \A d \in Checks : sms'[d].pc = "idle"
    BY AtWork DEF Look, messages
<1>3. PICK a \in check[c].todo :
         IF (a.id \in check[c].since) # a.online
         THEN /\ Go(c, [check[c] EXCEPT !.pc = "update", !.todo = check[c].todo \ {a}, !.cur = a])
              /\ UNCHANGED checking
         ELSE GoOn(c, check[c].todo \ {a})
    BY DEF Look
<1> DEFINE rest == check[c].todo \ {a}
           r == [check[c] EXCEPT !.pc = "update", !.todo = rest, !.cur = a]
<1>4. a \in Row /\ rest \in SUBSET check[c].todo /\ check[c].todo \subseteq Row
    BY <1>2 DEF Run
<1>5. UNCHANGED <<router, fell>>
    BY DEF Look, registry
<1>6. CASE GoOn(c, rest)
  <2>1. \A b \in rest : b.online => router'[b.id].online
    BY <1>2, <1>5 DEF Fresh
  <2>2. RunsOK'
    BY <1>2, <1>4, <1>6, <2>1, GoesOn DEF Look
  <2> QED
    BY <1>1, <2>2 DEF RunInv
<1>7. CASE Go(c, r) /\ UNCHANGED checking
  <2>1. r \in Run /\ r.pc = "update" /\ r.todo = rest /\ r.cur = a
    BY <1>2, <1>4 DEF Run, Row
  <2>2. a.online => router'[a.id].online
    BY <1>2, <1>5 DEF Fresh
  <2>3. \A b \in rest : b.id # a.id /\ (b.online => router'[b.id].online)
    BY <1>2, <1>5 DEF Fresh
  <2>4. \A b, d \in rest : b.id = d.id => b = d
    BY <1>2 DEF Fresh
  <2>5. Fresh(r, router', fell')
    BY <1>4, <2>1, <2>2, <2>3, <2>4 DEF Fresh
  <2>6. check' = [check EXCEPT ![c] = r] /\ checking' = TRUE
    BY <1>2, <1>7 DEF Go, RunInv, RunsOK
  <2> HIDE DEF r
  <2>7. RunsOK'
    BY <1>2, <2>1, <2>5, <2>6, RunMoves
  <2> QED
    BY <1>1, <2>7 DEF RunInv
<1> QED
    BY <1>3, <1>6, <1>7

LEMMA UpdateStep ==
    ASSUME RunInv, NEW c \in Checks, Update(c)
    PROVE  RunInv'
<1> DEFINE a == check[c].cur
<1>1. /\ check[c] \in Run /\ Fresh(check[c], router, fell) /\ checking = TRUE
      /\ \A d \in Checks \ {c} : check[d].pc = "idle"
      /\ \A d \in Checks : sms'[d].pc = "idle"
    BY AtWork DEF Update, messages, RunInv, RunsOK
<1>2. /\ a \in Row /\ a.id \in Routers /\ a.online \in BOOLEAN
      /\ \A b \in check[c].todo : b.id # a.id /\ b.id \in Routers
    BY <1>1 DEF Fresh, Run, Row, Update
<1>3. router \in [Routers -> Entry] /\ router' = [router EXCEPT ![a.id].online = ~a.online]
    BY DEF RunInv, WorldOK, Update, SetOnline
<1>4. /\ router' \in [Routers -> Entry]
      /\ router'[a.id].online = ~a.online
      /\ \A s \in Routers \ {a.id} : router'[s] = router[s]
    BY <1>2, <1>3 DEF Entry
<1>5. a.online => fell' = fell \cup {a.id}
    BY <1>1 DEF Update, Fresh
<1>6. fell' \subseteq Routers
    BY <1>2 DEF Update, RunInv, RestOK
<1>7. WorldOK' /\ MessagesOK' /\ RestOK'
    BY <1>4, <1>6 DEF RunInv, WorldOK, MessagesOK, RestOK, Update, messages
<1>8. \A b \in check[c].todo : b.online => router'[b.id].online
    BY <1>1, <1>2, <1>4 DEF Fresh
<1>9. CASE a.online
  <2> DEFINE r == [check[c] EXCEPT !.pc = "alert"]
  <2>1. r \in Run /\ r.pc = "alert" /\ r.todo = check[c].todo /\ r.cur = a
    BY <1>1 DEF Run
  <2>2. Fresh(r, router', fell')
    BY <1>1, <1>2, <1>5, <1>8, <1>9, <2>1 DEF Fresh
  <2>3. check' = [check EXCEPT ![c] = r] /\ checking' = TRUE
    BY <1>1, <1>9 DEF Update, Go
  <2> HIDE DEF r
  <2>4. RunsOK'
    BY <1>1, <2>1, <2>2, <2>3, RunMoves
  <2> QED
    BY <1>7, <2>4 DEF RunInv
<1>10. CASE ~a.online
  <2>1. RunsOK'
    BY <1>1, <1>8, <1>10, GoesOn DEF Update
  <2> QED
    BY <1>7, <2>1 DEF RunInv
<1> QED
    BY <1>9, <1>10

LEMMA EndStep ==
    ASSUME RunInv, NEW c \in Checks, End(c), check[c].pc \in {"look", "update", "alert"},
           UNCHANGED <<registry, messages, fell>>, RestOK'
    PROVE  RunInv'
<1>1. WorldOK' /\ MessagesOK'
    BY DEF RunInv, WorldOK, MessagesOK, registry, messages
<1>2. /\ \A d \in Checks \ {c} : check[d].pc = "idle"
      /\ \A d \in Checks : sms'[d].pc = "idle"
    BY AtWork DEF messages
<1>3. RunsOK'
    BY <1>2, Rests, RunMoves DEF End, Go
<1> QED
    BY <1>1, <1>3 DEF RunInv

LEMMA AlertStep ==
    ASSUME RunInv, NEW c \in Checks, Alert(c)
    PROVE  RunInv'
<1>1. /\ check[c] \in Run /\ Fresh(check[c], router, fell) /\ checking = TRUE
      /\ \A d \in Checks \ {c} : check[d].pc = "idle"
      /\ \A d \in Checks : sms[d].pc = "idle"
    BY AtWork DEF Alert, RunInv, RunsOK
<1>2. WorldOK' /\ RestOK'
    BY DEF Alert, RunInv, WorldOK, RestOK, registry
<1>3. CASE GoOn(c, check[c].todo) /\ UNCHANGED <<sms, uncounted>>
  <2>1. MessagesOK'
    BY <1>3 DEF Alert, RunInv, MessagesOK
  <2>2. \A a \in check[c].todo : a.online => router'[a.id].online
    BY <1>1 DEF Fresh, Alert, registry
  <2>3. RunsOK'
    BY <1>1, <1>3, <2>2, GoesOn DEF Alert
  <2> QED
    BY <1>2, <2>1, <2>3 DEF RunInv
<1>4. CASE /\ Put(c, Company) \/ Send(c, Company)
           /\ Notice(c)
           /\ Go(c, [check[c] EXCEPT !.pc = "message"])
           /\ UNCHANGED checking
  <2>1. c \in Senders /\ Company \in Message
    BY CompanyIsMessage DEF Senders
  <2>2. PICK m \in Message : Put(c, m)
    BY <1>4, <2>1, Sends, SilentIsMessage
  <2>3. MessagesOK'
    BY <1>4, <2>2 DEF Alert, RunInv, MessagesOK, Put, Notice
  <2> DEFINE r == [check[c] EXCEPT !.pc = "message"]
  <2>4. r \in Run /\ r.pc = "message" /\ r.todo = check[c].todo
    BY <1>1 DEF Run
  <2>5. Fresh(r, router', fell')
    BY <1>1, <2>4 DEF Fresh, Alert, registry
  <2>6. check' = [check EXCEPT ![c] = r] /\ checking' = TRUE
    BY <1>1, <1>4 DEF Go
  <2>7. \A d \in Checks : sms'[d].pc # "idle" => d = c
    BY <1>1, <2>2 DEF Put, RunInv, MessagesOK, Senders
  <2> HIDE DEF r
  <2>8. RunsOK'
    BY <1>1, <2>4, <2>5, <2>6, <2>7, RunMoves
  <2> QED
    BY <1>2, <2>3, <2>8 DEF RunInv
<1> QED
    BY <1>3, <1>4 DEF Alert

LEMMA AlertedStep ==
    ASSUME RunInv, NEW c \in Checks, Alerted(c)
    PROVE  RunInv'
<1>1. /\ Fresh(check[c], router, fell)
      /\ \A d \in Checks : sms'[d].pc = "idle"
    BY AtWork DEF Alerted, messages
<1>2. WorldOK' /\ MessagesOK' /\ RestOK'
    BY DEF Alerted, RunInv, WorldOK, MessagesOK, RestOK, registry, messages
<1>3. \A a \in check[c].todo : a.online => router'[a.id].online
    BY <1>1 DEF Fresh, Alerted, registry
<1>4. RunsOK'
    BY <1>1, <1>3, GoesOn DEF Alerted
<1> QED
    BY <1>2, <1>4 DEF RunInv

LEMMA RestartStep == RunInv /\ Restart => RunInv'
<1> SUFFICES ASSUME RunInv, Restart PROVE RunInv'
    OBVIOUS
<1>1. spent' \in [days : Nat, edits : Nat, faults : Nat]
    BY Spending DEF Restart, RunInv
<1>2. WorldOK'
    BY DEF Restart, RunInv, WorldOK
<1>3. MessagesOK'
    BY SilentIsMessage DEF Restart, RunInv, MessagesOK
<1>4. RestOK'
    BY <1>1 DEF Restart, RunInv, RestOK
<1>5. \A c \in Checks : check'[c] = Resting /\ sms'[c].pc = "idle"
    BY SilentIsMessage DEF Restart, Senders
<1>6. RunsOK'
    BY <1>5, Rests DEF Restart, RunsOK
<1> QED
    BY <1>2, <1>3, <1>4, <1>6 DEF RunInv

LEMMA RunSteps == RunInv /\ [Next]_vars => RunInv'
<1> SUFFICES ASSUME RunInv, [Next]_vars PROVE RunInv'
    OBVIOUS
<1>1. ASSUME NEW c \in Checks, RunStep(c) PROVE RunInv'
  <2>1. ASSUME UpdateGone(c) PROVE RunInv'
    BY <2>1, EndStep DEF UpdateGone, RunInv, RestOK
  <2> QED
    BY <1>1, <2>1, LookStep, UpdateStep, AlertStep, MailStep, AlertedStep DEF RunStep
<1>2. ASSUME NEW c \in Checks, QueryFails(c) PROVE RunInv'
  <2>1. RestOK'
    BY <1>2, Spending DEF QueryFails, RunInv, RestOK
  <2> QED
    BY <1>2, <2>1, EndStep DEF QueryFails
<1>3. CASE Environment
  <2>1. ASSUME NEW s \in Routers, Age(s) \/ Toggle(s) \/ Remove(s) \/ \E h \in Handlers : Insert(h, s)
        PROVE  RunInv'
    BY <2>1, IngestStep
  <2>2. ASSUME NEW q \in Tests, AskTest(q) PROVE RunInv'
    BY <2>2, AskStep
  <2> QED
    BY <1>2, <1>3, <2>1, <2>2, SaveStep, MidnightStep, RestartStep DEF Environment
<1>4. CASE UNCHANGED vars
    BY <1>4 DEF vars, registry, messages, RunInv, WorldOK, MessagesOK, RestOK, RunsOK
<1> QED
    BY <1>1, <1>3, <1>4, StartStep, SendSteps, MarkStep DEF Next

-----------------------------------------------------------------------------
(* The counter.                                                               *)
LEMMA Typed ==
    ASSUME RunInv
    PROVE  /\ sms \in [Senders -> Message] /\ company \in Counter /\ saved \in Counter
           /\ sent \in Nat /\ uncounted \in BOOLEAN /\ SentToday(company) \in Nat
           /\ DailyMax \in Nat
    BY Counts, AlertsAssumption DEF RunInv, MessagesOK

(* One message changes to m; no other is under way when m is.                  *)
LEMMA CountMoves ==
    ASSUME Inv, NEW t \in Senders, NEW m \in Message, Put(t, m), Limited(m),
           company'.count <= DailyMax, saved'.count <= DailyMax,
           ~uncounted' => /\ ~uncounted
                          /\ m.pc # "idle" => /\ Sending \subseteq {t}
                                              /\ SentToday(company)' <= SentToday(m)
                                              /\ m.delivered => sent' <= SentToday(m) + 1
                                              /\ ~m.delivered => sent' <= SentToday(company)'
                          /\ m.pc = "idle" => \/ UNCHANGED <<company, sent>> /\ ~sms[t].delivered
                                              \/ Sending \subseteq {t} /\ sent' <= SentToday(company)'
    PROVE  CountInv'
<1>1. \A u \in Senders : sms'[u] = IF u = t THEN m ELSE sms[u]
    BY Typed DEF Put, Inv
<1>2. \A u \in Senders : Limited(sms'[u])
    BY <1>1 DEF Inv, CountInv
<1>3. \A u \in Senders : sms[u].delivered => u \in Sending
    BY DEF Inv, CountInv, Limited, Sending
<1>4. m.delivered => m.pc # "idle"
    BY DEF Limited
<1>5. ASSUME ~uncounted'
      PROVE  /\ Lonely' /\ \A u \in Sending' : Known(sms[u])'
             /\ (\A u \in Senders : ~sms'[u].delivered) => sent' <= SentToday(company)'
  <2>1. CASE m.pc # "idle"
    <3>1. Sending' = {t}
      BY <1>1, <1>5, <2>1 DEF Sending
    <3>2. Known(m)'
      BY <1>5, <2>1 DEF Known, SentToday
    <3> QED
      BY <1>1, <1>5, <2>1, <3>1 DEF Known, Lonely, SentToday
  <2>2. CASE m.pc = "idle" /\ UNCHANGED <<company, sent>> /\ ~sms[t].delivered
    <3>1. Sending' \subseteq Sending /\ \A u \in Sending' : u \in Senders /\ sms'[u] = sms[u]
      BY <1>1, <2>2 DEF Sending
    <3>2. Lonely /\ (\A u \in Sending : Known(sms[u]))
          /\ ((\A u \in Senders : ~sms[u].delivered) => sent <= SentToday(company))
      BY <1>5 DEF Inv, CountInv
    <3>3. \A u \in Sending' : Known(sms[u])'
      BY <2>2, <3>1, <3>2 DEF Known, SentToday
    <3>4. (\A u \in Senders : ~sms'[u].delivered) => \A u \in Senders : ~sms[u].delivered
      BY <1>1, <2>2
    <3> QED
      BY <2>2, <3>1, <3>2, <3>3, <3>4 DEF Lonely, SentToday
  <2>3. CASE m.pc = "idle" /\ Sending \subseteq {t} /\ sent' <= SentToday(company)'
    <3>1. Sending' = {}
      BY <1>1, <2>3 DEF Sending
    <3> QED
      BY <2>3, <3>1 DEF Lonely
  <2> QED
    BY <1>5, <2>1, <2>2, <2>3
<1> QED
    BY <1>2, <1>5 DEF CountInv

LEMMA Alone ==
    ASSUME Inv, ~uncounted, NEW t \in Senders, sms[t].pc # "idle"
    PROVE  /\ Sending = {t}
           /\ SentToday(company) <= SentToday(sms[t])
           /\ sms[t].delivered => sent <= SentToday(sms[t]) + 1
           /\ ~sms[t].delivered => sent <= SentToday(company)
<1>1. t \in Sending /\ Lonely /\ Known(sms[t])
    BY DEF Inv, CountInv, Sending
<1>2. Sending = {t}
    BY <1>1 DEF Lonely
<1>3. \A u \in Senders \ {t} : ~sms[u].delivered
    BY <1>2 DEF Inv, CountInv, Limited, Sending
<1> QED
    BY <1>1, <1>2, <1>3 DEF Known, Inv, CountInv

LEMMA NoneDelivered ==
    ASSUME Inv, ~uncounted, Sending = {}
    PROVE  sent <= SentToday(company)
    BY DEF Inv, CountInv, Limited, Sending

(* A message reads the counter.                                               *)
LEMMA ReadCounts ==
    ASSUME Inv, NEW t \in Senders, sms[t].pc = "idle", Put(t, Company) \/ Send(t, Company),
           Notice(t), UNCHANGED <<company, saved, sent>>
    PROVE  CountInv'
<1>1. /\ Company \in Message /\ sms \in [Senders -> Message] /\ company \in Counter
      /\ sent \in Nat /\ SentToday(company) \in Nat /\ DailyMax \in Nat /\ uncounted \in BOOLEAN
    BY Typed, CompanyIsMessage DEF Inv
<1>2. Company.pc = "email" /\ ~Company.delivered /\ SentToday(Company) = SentToday(company)
    BY <1>1, Telling
<1>3. PICK m \in Message :
         /\ Put(t, m) /\ ~m.delivered /\ m.pc \in {"idle", "email", "sending"}
         /\ m.pc # "idle" => SentToday(m) = SentToday(company)
         /\ m.pc = "sending" => m.today /\ m.count < DailyMax
  <2>1. CASE Put(t, Company)
    BY <1>1, <1>2, <2>1
  <2>2. CASE Put(t, Silent)
    BY <2>2, SilentIsMessage
  <2>3. ASSUME NEW m \in Message, Put(t, m), m.pc = "sending", m.today,
               m.count = SentToday(Company), m.count < DailyMax, m.delivered = Company.delivered
        PROVE  /\ Put(t, m) /\ ~m.delivered /\ m.pc \in {"idle", "email", "sending"}
               /\ m.pc # "idle" => SentToday(m) = SentToday(company)
               /\ m.pc = "sending" => m.today /\ m.count < DailyMax
    BY <1>2, <2>3 DEF SentToday
  <2> QED
    BY <1>1, <2>1, <2>2, <2>3, Sends
<1>4. sms'[t] = m
    BY <1>1, <1>3 DEF Put
<1>5. Limited(m) /\ company'.count <= DailyMax /\ saved'.count <= DailyMax
    BY <1>3 DEF Limited, Inv, CountInv
<1>6. ASSUME ~uncounted' PROVE ~uncounted /\ (m.pc # "idle" => Sending = {})
    BY <1>4, <1>6 DEF Notice, Sending
<1>7. ~sms[t].delivered
    BY DEF Inv, CountInv, Limited
<1>8. ASSUME ~uncounted', m.pc # "idle"
      PROVE  sent' <= SentToday(company)' /\ SentToday(company)' <= SentToday(m)
  <2>1. sent <= SentToday(company)
    BY <1>6, <1>8, NoneDelivered
  <2> QED
    BY <1>1, <1>3, <1>8, <2>1 DEF SentToday
<1> QED
    BY <1>3, <1>5, <1>6, <1>7, <1>8, CountMoves

LEMMA MailCounts ==
    ASSUME Inv, NEW c \in Checks, MailEnds(c)
    PROVE  CountInv'
<1>1. /\ c \in Senders /\ sms[c] \in Message /\ sms \in [Senders -> Message] /\ company \in Counter
      /\ sent \in Nat /\ SentToday(company) \in Nat /\ DailyMax \in Nat
      /\ SentToday(sms[c]) \in Nat
    BY Typed, Counts DEF Inv, Senders
<1>2. ~sms[c].delivered /\ sms[c].pc # "idle"
    BY <1>1 DEF MailEnds, Inv, CountInv, Limited
<1>3. company'.count <= DailyMax /\ saved'.count <= DailyMax
    BY DEF MailEnds, Inv, CountInv
<1>4. ~uncounted' => ~uncounted /\ UNCHANGED <<company, sent>>
    BY DEF MailEnds
<1>5. CASE Put(c, Silent)
    BY <1>1, <1>2, <1>3, <1>4, <1>5, SilentIsMessage, CountMoves DEF Limited
<1>6. ASSUME NEW m \in Message, Put(c, m), m.pc = "sending", m.today,
             m.count = SentToday(sms[c]), m.count < DailyMax, m.delivered = sms[c].delivered
      PROVE  CountInv'
  <2>1. Limited(m) /\ SentToday(m) = SentToday(sms[c]) /\ ~m.delivered
    BY <1>2, <1>6 DEF Limited, SentToday
  <2>2. ASSUME ~uncounted'
        PROVE  /\ ~uncounted /\ Sending \subseteq {c}
               /\ SentToday(company)' <= SentToday(m) /\ sent' <= SentToday(company)'
    <3>1. /\ Sending = {c} /\ SentToday(company) <= SentToday(sms[c])
          /\ sent <= SentToday(company)
      BY <1>1, <1>2, <1>4, <2>2, Alone
    <3> QED
      BY <1>4, <2>1, <2>2, <3>1 DEF SentToday
  <2> QED
    BY <1>1, <1>3, <1>6, <2>1, <2>2, CountMoves
<1> QED
    BY <1>1, <1>5, <1>6, Sends DEF MailEnds

LEMMA SendCounts ==
    ASSUME Inv, NEW t \in Senders, SendStep(t)
    PROVE  CountInv'
<1>1. /\ sms[t] \in Message /\ sms \in [Senders -> Message] /\ company \in Counter
      /\ sent \in Nat /\ DailyMax \in Nat /\ SentToday(sms[t]) \in Nat
      /\ SentToday(company) \in Nat /\ uncounted \in BOOLEAN
    BY Typed, Counts DEF Inv
<1>2. Limited(sms[t]) /\ company.count <= DailyMax /\ saved.count <= DailyMax
    BY DEF Inv, CountInv
<1>3. ASSUME ~uncounted, sms[t].pc # "idle"
      PROVE  /\ Sending = {t} /\ SentToday(company) <= SentToday(sms[t])
             /\ sms[t].delivered => sent <= SentToday(sms[t]) + 1
             /\ ~sms[t].delivered => sent <= SentToday(company)
    BY <1>3, Alone
<1>4. CASE Deliver(t)
  <2> DEFINE m == [sms[t] EXCEPT !.delivered = TRUE]
  <2>1. /\ m \in Message /\ m.pc = sms[t].pc /\ m.delivered
        /\ m.today = sms[t].today /\ m.count = sms[t].count
    BY <1>1 DEF Message
  <2>2. /\ Put(t, m) /\ UNCHANGED <<company, saved, uncounted>>
        /\ sms[t].pc = "sending" /\ ~sms[t].delivered /\ sent' <= sent + 1
    BY <1>1, <1>4 DEF Deliver
  <2> HIDE DEF m
  <2>3. Limited(m) /\ SentToday(m) = SentToday(sms[t]) /\ SentToday(company)' = SentToday(company)
    BY <1>2, <2>1, <2>2 DEF Limited, SentToday
  <2>4. ASSUME ~uncounted'
        PROVE  /\ ~uncounted /\ Sending \subseteq {t} /\ SentToday(company)' <= SentToday(m)
               /\ sent' <= SentToday(m) + 1
    <3>1. /\ Sending = {t} /\ SentToday(company) <= SentToday(sms[t])
          /\ sent <= SentToday(company)
      BY <1>3, <2>2, <2>4
    <3>2. sent' \in Nat
      BY <1>1, <1>4 DEF Deliver
    <3> QED
      BY <1>1, <2>2, <2>3, <2>4, <3>1, <3>2
  <2> QED
    BY <1>2, <2>1, <2>2, <2>3, <2>4, CountMoves
<1>5. CASE Answer(t)
  <2> DEFINE m == [sms[t] EXCEPT !.pc = "count"]
  <2>1. /\ m \in Message /\ m.pc = "count" /\ m.delivered = sms[t].delivered
        /\ m.today = sms[t].today /\ m.count = sms[t].count
    BY <1>1 DEF Message
  <2>2. /\ Put(t, m) /\ UNCHANGED <<company, saved, uncounted, sent>>
        /\ sms[t].pc = "sending" /\ sms[t].delivered
    BY <1>5 DEF Answer
  <2> HIDE DEF m
  <2>3. Limited(m) /\ SentToday(m) = SentToday(sms[t]) /\ SentToday(company)' = SentToday(company)
    BY <1>2, <2>1, <2>2 DEF Limited, SentToday
  <2>4. ASSUME ~uncounted'
        PROVE  /\ ~uncounted /\ Sending \subseteq {t} /\ SentToday(company)' <= SentToday(m)
               /\ sent' <= SentToday(m) + 1
    BY <1>3, <2>2, <2>3, <2>4
  <2> QED
    BY <1>2, <2>1, <2>2, <2>3, <2>4, CountMoves
<1>6. CASE Count(t)
  <2>1. /\ Put(t, Silent) /\ UNCHANGED <<saved, uncounted, sent>>
        /\ company' = [count |-> sms[t].count + 1, today |-> TRUE]
        /\ sms[t].pc = "count"
    BY <1>6 DEF Count, Counted
  <2>2. sms[t].delivered /\ sms[t].today /\ sms[t].count < DailyMax /\ sms[t].count \in Nat
    BY <1>1, <1>2, <2>1 DEF Limited, Message
  <2>3. company'.count <= DailyMax /\ SentToday(company)' = SentToday(sms[t]) + 1
    BY <1>1, <2>1, <2>2 DEF SentToday
  <2>4. Limited(Silent)
    BY SilentIsMessage DEF Limited
  <2>5. ~uncounted' => ~uncounted /\ Sending \subseteq {t} /\ sent' <= SentToday(company)'
    BY <1>3, <2>1, <2>2, <2>3
  <2> QED
    BY <1>2, <2>1, <2>3, <2>4, <2>5, SilentIsMessage, CountMoves
<1>7. CASE SendFails(t)
  <2>1. /\ Put(t, Silent) /\ UNCHANGED <<company, saved, sent>>
        /\ uncounted' = (uncounted \/ sms[t].delivered)
    BY <1>7 DEF SendFails
  <2>2. Limited(Silent)
    BY SilentIsMessage DEF Limited
  <2> QED
    BY <1>2, <2>1, <2>2, SilentIsMessage, CountMoves
<1> QED
    BY <1>4, <1>5, <1>6, <1>7 DEF SendStep

LEMMA MidnightCounts == Inv /\ Midnight => CountInv'
<1> SUFFICES ASSUME Inv, Midnight PROVE CountInv'
    OBVIOUS
<1>1. /\ sms' \in [Senders -> Message]
      /\ \A t \in Senders : /\ sms'[t].pc = sms[t].pc /\ sms'[t].delivered = sms[t].delivered
                            /\ sms[t].pc # "email" => sms'[t] = sms[t]
    BY MidnightMoves DEF Inv
<1>2. \A t \in Senders : Limited(sms[t])
    BY DEF Inv, CountInv
<1>3. \A t \in Senders : Limited(sms'[t])
    BY <1>1, <1>2 DEF Limited
<1>4. company \in Counter /\ saved \in Counter
    BY Typed DEF Inv
<1>5. /\ company'.count = company.count /\ ~company'.today /\ saved'.count = saved.count
      /\ sent' = 0
    BY <1>4 DEF Midnight, Counter
<1>6. Sending' = Sending
    BY <1>1 DEF Sending
<1>7. ~uncounted' => Lonely'
    BY <1>6 DEF Midnight, Lonely
<1>8. SentToday(company)' = 0
    BY <1>5 DEF SentToday
<1>9. ASSUME NEW t \in Senders PROVE Known(sms[t])'
  <2>1. SentToday(sms'[t]) \in Nat
    BY <1>1, Counts
  <2> QED
    BY <1>5, <1>8, <2>1 DEF Known, SentToday
<1>10. \A t \in Sending' : Known(sms[t])'
    BY <1>9 DEF Sending
<1> QED
    BY <1>3, <1>5, <1>7, <1>8, <1>10 DEF CountInv, Inv

LEMMA RestartCounts == Inv /\ Restart => CountInv'
<1> SUFFICES ASSUME Inv, Restart PROVE CountInv'
    OBVIOUS
<1>1. \A t \in Senders : sms'[t] = Silent
    BY DEF Restart
<1>2. Sending' = {} /\ \A t \in Senders : Limited(sms'[t])
    BY <1>1, SilentIsMessage DEF Sending, Limited
<1>3. company'.count <= DailyMax /\ saved'.count <= DailyMax
    BY DEF Restart, Inv, CountInv
<1>4. ASSUME ~uncounted' PROVE sent' <= SentToday(company)'
  <2>1. ~uncounted /\ saved = company /\ \A t \in Senders : ~sms[t].delivered
    BY <1>4 DEF Restart
  <2>2. sent <= SentToday(company)
    BY <2>1 DEF Inv, CountInv
  <2> QED
    BY <2>1, <2>2 DEF Restart, SentToday
<1> QED
    BY <1>2, <1>3, <1>4 DEF CountInv, Lonely

LEMMA CountsStay ==
    ASSUME Inv, UNCHANGED <<sms, company, sent, uncounted>>,
           saved' = saved \/ saved' = company
    PROVE  CountInv'
    BY DEF Inv, CountInv, Lonely, Known, Limited, Sending, SentToday

LEMMA CountSteps == Inv /\ [Next]_vars => CountInv'
<1> SUFFICES ASSUME Inv, [Next]_vars PROVE CountInv'
    OBVIOUS
<1>1. ASSUME NEW c \in Checks, Start(c) \/ RunStep(c) PROVE CountInv'
  <2>1. CASE Start(c) \/ Look(c) \/ Update(c) \/ UpdateGone(c) \/ Alerted(c)
    BY <2>1, CountsStay DEF Start, Look, Update, UpdateGone, Alerted, messages
  <2>2. CASE Alert(c)
    <3>1. c \in Senders /\ sms[c].pc = "idle"
      BY <2>2, AtWork DEF Alert, Senders, Inv
    <3> QED
      BY <2>2, <3>1, ReadCounts, CountsStay DEF Alert
  <2>3. CASE MailEnds(c)
    BY <2>3, MailCounts
  <2> QED
    BY <1>1, <2>1, <2>2, <2>3 DEF RunStep
<1>2. ASSUME NEW s \in Routers, Age(s) \/ Toggle(s) \/ Remove(s) \/ \E h \in Handlers : Insert(h, s)
      PROVE  CountInv'
    BY <1>2, CountsStay DEF Age, Toggle, Remove, Insert, messages
<1>3. ASSUME NEW q \in Tests, AskTest(q) PROVE CountInv'
    BY <1>3, ReadCounts DEF AskTest, Senders
<1>4. ASSUME NEW c \in Checks, QueryFails(c) PROVE CountInv'
    BY <1>4, CountsStay DEF QueryFails, messages
<1>5. CASE Save
    BY <1>5, CountsStay DEF Save
<1>6. CASE Environment
    BY <1>2, <1>3, <1>4, <1>5, <1>6, MidnightCounts, RestartCounts DEF Environment
<1>7. ASSUME NEW h \in Handlers, MarkOnline(h) PROVE CountInv'
    BY <1>7, CountsStay DEF MarkOnline, messages
<1>8. CASE UNCHANGED vars
    BY <1>8, CountsStay DEF vars, messages
<1> QED
    BY <1>1, <1>6, <1>7, <1>8, SendCounts DEF Next

-----------------------------------------------------------------------------
\* Inv holds throughout: one run at a time, fresh rows, and a counter that knows of every
\* delivery unless `uncounted` says otherwise.
THEOREM Invariance == Spec => []Inv
<1>1. Inv /\ [Next]_vars => Inv'
    BY RunSteps, CountSteps DEF Inv
<1> QED
    BY InitInv, <1>1, PTL DEF Spec

\* The check's flag, its runs, the messages and the counters keep their types.
THEOREM AlertTypes == Spec => []TypeOK
<1>1. Inv => TypeOK
    BY Parts DEF Inv, RunInv
<1> QED
    BY Invariance, <1>1, PTL

\* An alert is sent for a router the check found online and set offline, by one run,
\* however many runs, routers and handlers there are (checkMikroTikLinks).
THEOREM AlertsAreSingle == Spec => []OneAlertPerOutage
<1>1. Inv => OneAlertPerOutage
  <2> SUFFICES ASSUME Inv, NEW s \in Routers, NEW c \in Checks, Reports(c, s)
               PROVE  s \in fell /\ \A d \in Checks \ {c} : ~Reports(d, s)
    BY DEF OneAlertPerOutage
  <2>1. Fresh(check[c], router, fell) /\ \A d \in Checks \ {c} : check[d].pc = "idle"
    BY AtWork DEF Inv, Reports
  <2> QED
    BY <2>1 DEF Fresh, Reports
<1> QED
    BY Invariance, <1>1, PTL

\* Whatever SMS_DAILY_LIMIT is, and however many runs and requests send, the provider
\* delivers no more messages a day, unless sends overlap, a delivery goes uncounted, or a
\* restart restores an older count (sendSms).
THEOREM SmsAreLimited == Spec => []DailyLimit
<1>1. Inv => DailyLimit
  <2> SUFFICES ASSUME Inv, ~uncounted PROVE sent <= DailyMax
    BY DEF DailyLimit
  <2>1. /\ sent \in Nat /\ DailyMax \in Nat /\ company \in Counter
        /\ sms \in [Senders -> Message]
    BY Typed DEF Inv
  <2>2. SentToday(company) <= DailyMax
    BY <2>1 DEF SentToday, Inv, CountInv, Counter
  <2>3. CASE \A t \in Senders : ~sms[t].delivered
    BY <2>1, <2>2, <2>3 DEF Inv, CountInv, SentToday, Counter
  <2>4. ASSUME NEW t \in Senders, sms[t].delivered PROVE sent <= DailyMax
    <3>1. Limited(sms[t]) /\ sms[t] \in Message
      BY <2>1 DEF Inv, CountInv
    <3>2. sms[t].pc # "idle" /\ sms[t].today /\ sms[t].count < DailyMax /\ sms[t].count \in Nat
      BY <2>4, <3>1 DEF Limited, Message
    <3>3. sent <= SentToday(sms[t]) + 1
      BY <2>4, <3>2, Alone
    <3> QED
      BY <2>1, <3>2, <3>3 DEF SentToday
  <2> QED
    BY <2>3, <2>4
<1> QED
    BY Invariance, <1>1, PTL
=============================================================================
