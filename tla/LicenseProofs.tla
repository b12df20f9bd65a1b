---------------------------- MODULE LicenseProofs -----------------------------
(* The license service keeps a server locked until the manager has called a key *)
(* valid, and has nothing to fall back on after a refusal, for any keys and any *)
(* number of requests that overlap, calls that fail and restarts.               *)
EXTENDS License, TLAPS

TaskType ==
    [kind : {"none", "activate", "deactivate"}, pc : Calls \cup {"idle", "write"},
     key : Keys \cup {NoKey}, via : Keys \cup {NoKey}, reply : Replies]

(* What nobody has confirmed is nowhere: not in memory, not in the database,    *)
(* not in the SDK's cache, and not in the hands of a request about to write it. *)
Unconfirmed ==
    confirmed = {} =>
        /\ ~allowed /\ storedKey = NoKey /\ dbKey = NoKey
        /\ \A k \in Keys : lastValid[k] = "none"
        /\ \A t \in Tasks : task[t].pc = "write" => task[t].key = NoKey

LicenseInv == TypeOK /\ Unconfirmed /\ NoGraceAfterNegative

(* The parts of the type invariant, one membership each.                        *)
LEMMA Types ==
  TypeOK <=> /\ client \in Keys \cup {NoKey} /\ storedKey \in Keys \cup {NoKey}
             /\ dbKey \in Keys \cup {NoKey}
             /\ allowed \in BOOLEAN /\ up \in BOOLEAN /\ deactivated \in BOOLEAN
             /\ lastValid \in [Keys -> {"none", "grace", "expired"}]
             /\ task \in [Tasks -> TaskType]
             /\ \A t \in Tasks : task[t].pc \in Calls => task[t].via \in Keys
             /\ active \subseteq Keys /\ installed \subseteq Keys /\ confirmed \subseteq Keys
             /\ standing \in [Keys -> {"none", "valid", "negative"}]
  BY DEF TypeOK, TaskType

(* It holds at first: an installed server starts with a key that was confirmed. *)
LEMMA LicenseInit == Init => LicenseInv
<1> SUFFICES ASSUME Init PROVE LicenseInv
  OBVIOUS
<1>1. Idle \in TaskType /\ Idle.pc = "idle" /\ "idle" \notin Calls
  BY DEF Idle, TaskType, Replies, Calls
<1>2. TypeOK
  <2>1. task \in [Tasks -> TaskType] /\ \A t \in Tasks : task[t].pc \notin Calls
    BY <1>1 DEF Init
  <2> QED
    BY <2>1, Types DEF Init
<1>3. Unconfirmed
  BY <1>1 DEF Init, Unconfirmed
<1>4. NoGraceAfterNegative
  BY DEF Init, NoGraceAfterNegative
<1> QED
  BY <1>2, <1>3, <1>4 DEF LicenseInv

-----------------------------------------------------------------------------
(* Tasks.                                                                       *)
LEMMA Becomes ==
  ASSUME NEW t \in Tasks, NEW r \in TaskType, Become(t, r), task \in [Tasks -> TaskType],
         \A u \in Tasks : task[u].pc \in Calls => task[u].via \in Keys,
         r.pc \in Calls => r.via \in Keys
  PROVE  /\ task' \in [Tasks -> TaskType]
         /\ \A u \in Tasks : task'[u].pc \in Calls => task'[u].via \in Keys
         /\ \A u \in Tasks : u # t => task'[u] = task[u]
         /\ task'[t] = r
  BY DEF Become

LEMMA IdleTask == /\ Idle \in TaskType /\ Idle.pc = "idle"
                  /\ Idle.pc \notin Calls /\ Idle.pc # "write"
  BY DEF Idle, TaskType, Replies, Calls

LEMMA Records ==
  /\ \A r \in TaskType :
        LET w == [r EXCEPT !.pc = "write", !.reply = "none"]
        IN  w \in TaskType /\ w.pc = "write" /\ w.key = r.key
  /\ LET w == [Idle EXCEPT !.kind = "deactivate", !.pc = "write"]
     IN  w \in TaskType /\ w.pc = "write" /\ w.key = NoKey
  /\ \A r \in TaskType, v \in Replies :
        LET a == [r EXCEPT !.reply = v]
        IN  a \in TaskType /\ a.pc = r.pc /\ a.via = r.via /\ a.key = r.key
  /\ "write" \notin Calls
  BY DEF Idle, TaskType, Replies, Calls

(* An answer brings the SDK's cache and what it says in line: a refusal clears  *)
(* what the key could fall back on, and only a confirmation grants it.          *)
LEMMA Receives ==
  ASSUME LicenseInv, NEW t \in Tasks, NEW op \in Calls, Received(t, op)
  PROVE  /\ task[t] \in TaskType /\ task[t].via \in Keys
         /\ lastValid' \in [Keys -> {"none", "grace", "expired"}]
         /\ standing' \in [Keys -> {"none", "valid", "negative"}]
         /\ confirmed' \subseteq Keys /\ confirmed \subseteq confirmed'
         /\ NoGraceAfterNegative'
         /\ confirmed' = {} => \A k \in Keys : lastValid'[k] = "none"
         /\ Result(t) = "VALID" => confirmed' # {}
<1>1. /\ task[t] \in TaskType /\ task[t].via \in Keys
      /\ lastValid \in [Keys -> {"none", "grace", "expired"}]
      /\ standing \in [Keys -> {"none", "valid", "negative"}]
      /\ confirmed \subseteq Keys
  BY Types DEF LicenseInv, Received
<1>2. task[t].reply \in {"lost", "VALID"} \cup Negative
  BY <1>1 DEF TaskType, Replies, Received
<1> DEFINE k == task[t].via
<1>3. CASE task[t].reply = "VALID"
  <2>1. /\ lastValid' = [lastValid EXCEPT ![k] = "grace"]
        /\ standing' = [standing EXCEPT ![k] = "valid"]
        /\ confirmed' = confirmed \cup {k}
    BY <1>3 DEF Received, Cached
  <2> QED
    BY <1>1, <2>1 DEF LicenseInv, NoGraceAfterNegative
<1>4. CASE task[t].reply \in Negative
  <2>1. /\ lastValid' = [lastValid EXCEPT ![k] = "none"]
        /\ standing' = [standing EXCEPT ![k] = "negative"]
        /\ confirmed' = confirmed /\ Result(t) # "VALID"
    BY <1>4 DEF Received, Cached, Negative, Result
  <2> QED
    BY <1>1, <2>1 DEF LicenseInv, NoGraceAfterNegative, Unconfirmed
<1>5. CASE task[t].reply = "lost"
  <2>1. /\ lastValid' = lastValid /\ standing' = standing /\ confirmed' = confirmed
        /\ Result(t) = "VALID" => lastValid[k] # "none"
    BY <1>5 DEF Received, Cached, Negative, Result
  <2> QED
    BY <1>1, <2>1 DEF LicenseInv, NoGraceAfterNegative, Unconfirmed
<1> QED
  BY <1>2, <1>3, <1>4, <1>5

(* apply unlocks only what was confirmed: by this answer, or by a stored key.   *)
LEMMA Applies ==
  ASSUME LicenseInv, NEW t \in Tasks, NEW op \in Calls, Received(t, op), Apply(Result(t))
  PROVE  allowed' \in BOOLEAN /\ (allowed' => confirmed' # {})
<1>1. confirmed \subseteq confirmed' /\ (Result(t) = "VALID" => confirmed' # {})
  BY Receives
<1>2. storedKey # NoKey => confirmed # {}
  BY DEF LicenseInv, Unconfirmed
<1> QED
  BY <1>1, <1>2 DEF Apply, AllowedAfter

(* How a task goes on after an answer, whatever the caller was.                 *)
Moved(t) ==
    /\ client' \in Keys \cup {NoKey} /\ storedKey' \in Keys \cup {NoKey}
    /\ task' \in [Tasks -> TaskType]
    /\ \A u \in Tasks : task'[u].pc \in Calls => task'[u].via \in Keys
    /\ \A u \in Tasks : u # t => task'[u] = task[u]

LEMMA Returns ==
  ASSUME TypeOK, NEW t \in Tasks, Return(t), task[t].pc \in Calls, allowed' \in BOOLEAN
  PROVE  /\ Moved(t)
         /\ ~allowed' => storedKey' = storedKey /\ task'[t].pc # "write"
<1>1. /\ task[t] \in TaskType /\ task[t].key \in Keys \cup {NoKey} /\ task \in [Tasks -> TaskType]
      /\ client \in Keys \cup {NoKey} /\ storedKey \in Keys \cup {NoKey}
      /\ \A u \in Tasks : task[u].pc \in Calls => task[u].via \in Keys
  BY Types DEF TaskType
<1> DEFINE w == [task[t] EXCEPT !.pc = "write", !.reply = "none"]
<1>2. w \in TaskType /\ w.pc = "write" /\ w.pc \notin Calls
  BY <1>1, Records
<1> HIDE DEF w
<1>3. CASE task[t].kind = "activate" /\ allowed'
  <2>1. Become(t, w) /\ storedKey' = task[t].key /\ client' = client
    BY <1>3 DEF Return, w
  <2> QED
    BY <1>1, <1>2, <1>3, <2>1, Becomes DEF Moved
<1>4. CASE ~(task[t].kind = "activate" /\ allowed')
  <2>1. Become(t, Idle) /\ storedKey' = storedKey /\ client' \in {client, NoKey}
    BY <1>4 DEF Return
  <2> QED
    BY <1>1, <2>1, Becomes, IdleTask DEF Moved
<1> QED
  BY <1>3, <1>4

LEMMA GoesOn ==
  ASSUME TypeOK, NEW t \in Tasks, NEW op \in Calls, GoOn(t, op)
  PROVE  Moved(t) /\ storedKey' = storedKey /\ task'[t].pc # "write"
<1>1. /\ task[t] \in TaskType /\ task \in [Tasks -> TaskType]
      /\ client \in Keys \cup {NoKey} /\ storedKey \in Keys \cup {NoKey}
      /\ \A u \in Tasks : task[u].pc \in Calls => task[u].via \in Keys
  BY Types
<1>2. CASE client = NoKey
  <2>1. Become(t, Idle) /\ storedKey' = storedKey /\ client' \in {client, NoKey}
    BY <1>2 DEF GoOn, Throw
  <2> QED
    BY <1>1, <2>1, Becomes, IdleTask DEF Moved
<1>3. CASE client # NoKey
  <2> DEFINE c == [task[t] EXCEPT !.pc = op, !.via = client, !.reply = "pending"]
  <2>1. c \in TaskType /\ c.pc = op /\ c.via = client /\ client \in Keys
    BY <1>1, <1>3 DEF TaskType, Replies
  <2>2. Become(t, c) /\ client' = client /\ storedKey' = storedKey
    BY <1>3 DEF GoOn, Calling
  <2> HIDE DEF c
  <2>3. Moved(t) /\ task'[t] = c
    BY <1>1, <2>1, <2>2, Becomes DEF Moved
  <2>4. task'[t].pc # "write"
    BY <2>1, <2>3 DEF Calls
  <2> QED
    BY <2>2, <2>3, <2>4
<1> QED
  BY <1>2, <1>3

-----------------------------------------------------------------------------
(* After an answer, the task has it in hand and the cache is in line with it:   *)
(* what is left to see is where the caller goes on.                             *)
LEMMA AfterAnswer ==
  ASSUME LicenseInv, NEW t \in Tasks, NEW op \in Calls, Received(t, op), Moved(t),
         allowed' \in BOOLEAN, allowed' => confirmed' # {},
         storedKey' # NoKey => storedKey' = storedKey \/ confirmed' # {},
         task'[t].pc = "write" => task'[t].key = NoKey \/ confirmed' # {},
         up' \in BOOLEAN, deactivated' \in BOOLEAN, UNCHANGED <<dbKey, manager>>
  PROVE  LicenseInv'
<1>0. /\ lastValid' \in [Keys -> {"none", "grace", "expired"}]
      /\ standing' \in [Keys -> {"none", "valid", "negative"}]
      /\ confirmed' \subseteq Keys /\ confirmed \subseteq confirmed'
      /\ NoGraceAfterNegative'
      /\ confirmed' = {} => \A k \in Keys : lastValid'[k] = "none"
  BY Receives
<1>1. TypeOK
  BY DEF LicenseInv
<1>2. /\ dbKey \in Keys \cup {NoKey} /\ active \subseteq Keys /\ installed \subseteq Keys
  BY <1>1, Types
<1>3. TypeOK'
  <2>1. /\ dbKey' = dbKey /\ active' = active /\ installed' = installed
    BY DEF manager
  <2> QED
    BY <1>0, <1>2, <2>1 DEF Moved, TypeOK, TaskType
<1>4. Unconfirmed'
  <2> SUFFICES ASSUME confirmed' = {}
               PROVE  /\ ~allowed' /\ storedKey' = NoKey /\ dbKey' = NoKey
                      /\ \A k \in Keys : lastValid'[k] = "none"
                      /\ \A u \in Tasks : task'[u].pc = "write" => task'[u].key = NoKey
    BY DEF Unconfirmed
  <2>1. /\ storedKey = NoKey /\ dbKey = NoKey
        /\ \A u \in Tasks : task[u].pc = "write" => task[u].key = NoKey
    BY <1>0 DEF LicenseInv, Unconfirmed
  <2> QED
    BY <1>0, <2>1 DEF Moved
<1> QED
  BY <1>0, <1>3, <1>4 DEF LicenseInv

(* The steps of a task.                                                         *)
LEMMA TaskSteps ==
  ASSUME LicenseInv, NEW t \in Tasks, Step(t) \/ Lose(t) \/ BreakOff(t)
  PROVE  LicenseInv'
<1>0. /\ client \in Keys \cup {NoKey} /\ storedKey \in Keys \cup {NoKey}
      /\ dbKey \in Keys \cup {NoKey}
      /\ allowed \in BOOLEAN /\ up \in BOOLEAN /\ deactivated \in BOOLEAN
      /\ lastValid \in [Keys -> {"none", "grace", "expired"}]
      /\ task \in [Tasks -> TaskType] /\ task[t] \in TaskType
      /\ \A u \in Tasks : task[u].pc \in Calls => task[u].via \in Keys
      /\ active \subseteq Keys /\ installed \subseteq Keys /\ confirmed \subseteq Keys
      /\ standing \in [Keys -> {"none", "valid", "negative"}]
      /\ TypeOK /\ Unconfirmed /\ NoGraceAfterNegative
  BY Types DEF LicenseInv
<1>1. ASSUME NEW v \in Replies, Become(t, [task[t] EXCEPT !.reply = v]), installed' \subseteq Keys,
             UNCHANGED <<service, up, dbKey, lastValid, active, history>>
      PROVE  LicenseInv'
  <2> DEFINE a == [task[t] EXCEPT !.reply = v]
  <2>1. a \in TaskType /\ a.pc = task[t].pc /\ a.via = task[t].via /\ a.key = task[t].key
    BY <1>0, Records
  <2>2. Become(t, a)
    BY <1>1
  <2> HIDE DEF a
  <2>3. /\ task' \in [Tasks -> TaskType]
        /\ \A u \in Tasks : task'[u].pc \in Calls => task'[u].via \in Keys
        /\ \A u \in Tasks : task'[u].pc = task[u].pc /\ task'[u].key = task[u].key
    BY <1>0, <2>1, <2>2, Becomes
  <2>4. TypeOK'
    BY <1>0, <1>1, <2>3 DEF TypeOK, TaskType, service, history
  <2>5. Unconfirmed' /\ NoGraceAfterNegative'
    BY <1>0, <1>1, <2>3 DEF Unconfirmed, NoGraceAfterNegative, service, history
  <2> QED
    BY <2>4, <2>5 DEF LicenseInv
<1>2. CASE Answer(t)
  <2>1. Verdict(task[t].pc, task[t].via) \in Replies
    BY DEF Verdict, Replies, Negative
  <2>2. installed' \subseteq Keys
    BY <1>0, <1>2 DEF Answer, Verdict
  <2> QED
    BY <1>1, <1>2, <2>1, <2>2 DEF Answer
<1>3. CASE Lose(t) \/ BreakOff(t)
  <2>1. {"lost", "cut"} \subseteq Replies
    BY DEF Replies
  <2> QED
    BY <1>0, <1>1, <1>3, <2>1 DEF Lose, BreakOff, manager
<1>4. CASE Claimed(t)
  <2>1. Received(t, "claim") /\ "claim" \in Calls /\ "validate" \in Calls
    BY <1>4 DEF Claimed, Calls
  <2>2. allowed' \in BOOLEAN /\ (allowed' => confirmed' # {})
    BY <1>4, <2>1, Applies DEF Claimed
  <2>3. task[t].pc \in Calls
    BY <2>1 DEF Received
  <2>4. /\ Moved(t)
        /\ storedKey' # NoKey => storedKey' = storedKey \/ confirmed' # {}
        /\ task'[t].pc = "write" => confirmed' # {}
    <3>1. CASE allowed'
      <4>1. GoOn(t, "validate")
        BY <1>4, <3>1 DEF Claimed
      <4> QED
        BY <1>0, <2>1, <4>1, GoesOn
    <3>2. CASE ~allowed'
      <4>1. Return(t)
        BY <1>4, <3>2 DEF Claimed
      <4> QED
        BY <1>0, <2>2, <2>3, <3>2, <4>1, Returns
    <3> QED
      BY <3>1, <3>2
  <2>5. up' \in BOOLEAN /\ deactivated' \in BOOLEAN /\ UNCHANGED <<dbKey, manager>>
    BY <1>0, <1>4 DEF Claimed
  <2> QED
    BY <2>1, <2>2, <2>4, <2>5, AfterAnswer
<1>5. CASE Validated(t)
  <2>1. Received(t, "validate") /\ "validate" \in Calls /\ "reclaim" \in Calls
    BY <1>5 DEF Validated, Calls
  <2>2. task[t].pc \in Calls
    BY <2>1 DEF Received
  <2>3. confirmed' # {} \/ ~allowed
    BY <1>0, <2>1, Receives DEF Unconfirmed
  <2>4. /\ Moved(t) /\ allowed' \in BOOLEAN /\ (allowed' => confirmed' # {})
        /\ storedKey' # NoKey => storedKey' = storedKey \/ confirmed' # {}
        /\ task'[t].pc = "write" => confirmed' # {}
    <3>1. CASE Result(t) = "NOT_ACTIVATED"
      <4>1. GoOn(t, "reclaim") /\ allowed' = allowed
        BY <1>5, <3>1 DEF Validated
      <4> QED
        BY <1>0, <2>1, <2>3, <4>1, GoesOn
    <3>2. CASE Result(t) # "NOT_ACTIVATED"
      <4>1. Apply(Result(t)) /\ Return(t)
        BY <1>5, <3>2 DEF Validated
      <4>2. allowed' \in BOOLEAN /\ (allowed' => confirmed' # {})
        BY <2>1, <4>1, Applies
      <4> QED
        BY <1>0, <2>2, <4>1, <4>2, Returns
    <3> QED
      BY <3>1, <3>2
  <2>5. up' \in BOOLEAN /\ deactivated' \in BOOLEAN /\ UNCHANGED <<dbKey, manager>>
    BY <1>0, <1>5 DEF Validated
  <2> QED
    BY <2>1, <2>4, <2>5, AfterAnswer
<1>6. CASE Reclaimed(t)
  <2>1. Received(t, "reclaim") /\ "reclaim" \in Calls
    BY <1>6 DEF Reclaimed, Calls
  <2>2. task[t].pc \in Calls
    BY <2>1 DEF Received
  <2>3. allowed' \in BOOLEAN /\ (allowed' => confirmed' # {})
    BY <1>6, <2>1, Applies DEF Reclaimed
  <2>4. /\ Moved(t)
        /\ storedKey' # NoKey => storedKey' = storedKey \/ confirmed' # {}
        /\ task'[t].pc = "write" => confirmed' # {}
    BY <1>0, <1>6, <2>2, <2>3, Returns DEF Reclaimed
  <2>5. up' \in BOOLEAN /\ deactivated' \in BOOLEAN /\ UNCHANGED <<dbKey, manager>>
    BY <1>0, <1>6 DEF Reclaimed
  <2> QED
    BY <2>1, <2>3, <2>4, <2>5, AfterAnswer
<1>7. CASE Released(t)
  <2> DEFINE w == [Idle EXCEPT !.kind = "deactivate", !.pc = "write"]
  <2>1. w \in TaskType /\ w.pc = "write" /\ w.key = NoKey /\ w.pc \notin Calls
    BY Records
  <2>2. Received(t, "release") /\ "release" \in Calls /\ Become(t, w)
    BY <1>7 DEF Released, Calls
  <2> HIDE DEF w
  <2>3. Moved(t) /\ task'[t] = w /\ storedKey' = NoKey /\ allowed' = FALSE
    BY <1>0, <1>7, <2>1, <2>2, Becomes DEF Moved, Released
  <2>4. up' \in BOOLEAN /\ deactivated' \in BOOLEAN /\ UNCHANGED <<dbKey, manager>>
    BY <1>0, <1>7 DEF Released
  <2> QED
    BY <2>1, <2>2, <2>3, <2>4, AfterAnswer
<1>8. CASE WriteKey(t)
  <2>1. /\ task' \in [Tasks -> TaskType]
        /\ \A u \in Tasks : task'[u].pc \in Calls => task'[u].via \in Keys
        /\ \A u \in Tasks : task'[u].pc = "write" => task'[u] = task[u]
    BY <1>0, <1>8, Becomes, IdleTask DEF WriteKey
  <2>2. dbKey' \in Keys \cup {NoKey}
    BY <1>0, <1>8 DEF WriteKey, TaskType
  <2>3. TypeOK'
    BY <1>0, <1>8, <2>1, <2>2 DEF WriteKey, TypeOK, TaskType, service, manager, history
  <2>4. Unconfirmed' /\ NoGraceAfterNegative'
    BY <1>0, <1>8, <2>1 DEF WriteKey, Unconfirmed, NoGraceAfterNegative, service, history
  <2> QED
    BY <2>3, <2>4 DEF LicenseInv
<1> QED
  BY <1>2, <1>3, <1>4, <1>5, <1>6, <1>7, <1>8 DEF Step

(* Requests that come in, the start, the manager's operator, time.              *)
LEMMA OtherSteps ==
  ASSUME LicenseInv,
         \/ Boot \/ Scheduled \/ Restart
         \/ \E t \in Requests : Deactivate(t) \/ \E k \in Keys : ActivateKey(t, k)
         \/ \E k \in Keys : Decide(k) \/ GraceEnds(k)
  PROVE  LicenseInv'
<1>0. /\ client \in Keys \cup {NoKey} /\ storedKey \in Keys \cup {NoKey}
      /\ dbKey \in Keys \cup {NoKey}
      /\ allowed \in BOOLEAN /\ up \in BOOLEAN /\ deactivated \in BOOLEAN
      /\ lastValid \in [Keys -> {"none", "grace", "expired"}]
      /\ task \in [Tasks -> TaskType]
      /\ \A u \in Tasks : task[u].pc \in Calls => task[u].via \in Keys
      /\ active \subseteq Keys /\ installed \subseteq Keys /\ confirmed \subseteq Keys
      /\ standing \in [Keys -> {"none", "valid", "negative"}]
      /\ Unconfirmed /\ NoGraceAfterNegative
      /\ Refresher \in Tasks /\ Requests \subseteq Tasks
  BY Types DEF LicenseInv, Tasks
<1>1. CASE Boot \/ Scheduled
  <2> DEFINE c == [task[Refresher] EXCEPT !.pc = "validate", !.via = client', !.reply = "pending"]
  <2>1. /\ client' \in Keys \cup {NoKey} /\ storedKey' \in {dbKey, storedKey} /\ up' \in BOOLEAN
        /\ UNCHANGED <<allowed, dbKey, lastValid, manager, history>>
    BY <1>0, <1>1 DEF Boot, Scheduled, service
  <2>2. \/ UNCHANGED task
        \/ client' \in Keys /\ Become(Refresher, c)
    BY <1>0, <1>1, <2>1 DEF Boot, Scheduled, Calling, service
  <2>3. /\ task' \in [Tasks -> TaskType]
        /\ \A u \in Tasks : task'[u].pc \in Calls => task'[u].via \in Keys
        /\ \A u \in Tasks : task'[u].pc = "write" => task'[u] = task[u]
    <3>1. CASE UNCHANGED task
      BY <1>0, <3>1
    <3>2. CASE client' \in Keys /\ Become(Refresher, c)
      <4>1. task[Refresher] \in TaskType /\ "validate" \in Calls
        BY <1>0 DEF Calls
      <4>2. c \in TaskType /\ c.pc = "validate" /\ c.via = client'
        BY <3>2, <4>1 DEF TaskType, Replies
      <4> HIDE DEF c
      <4> QED
        BY <1>0, <3>2, <4>2, Becomes
    <3> QED
      BY <2>2, <3>1, <3>2
  <2>4. TypeOK'
    BY <1>0, <2>1, <2>3 DEF TypeOK, TaskType, manager, history
  <2>5. Unconfirmed' /\ NoGraceAfterNegative'
    BY <1>0, <2>1, <2>3 DEF Unconfirmed, NoGraceAfterNegative, history
  <2> QED
    BY <2>4, <2>5 DEF LicenseInv
<1>2. CASE Restart
  <2>1. /\ task' \in [Tasks -> TaskType]
        /\ \A u \in Tasks : task'[u] = Idle
    BY <1>2, IdleTask DEF Restart
  <2>2. TypeOK'
    BY <1>0, <1>2, <2>1, IdleTask DEF Restart, TypeOK, TaskType, manager
  <2>3. Unconfirmed' /\ NoGraceAfterNegative'
    BY <1>0, <1>2, <2>1, IdleTask DEF Restart, Unconfirmed, NoGraceAfterNegative
  <2> QED
    BY <2>2, <2>3 DEF LicenseInv
<1>3. ASSUME NEW t \in Requests, NEW k \in Keys, ActivateKey(t, k) PROVE LicenseInv'
  <2> DEFINE c == [kind |-> "activate", pc |-> "claim", key |-> k, via |-> k, reply |-> "pending"]
  <2>1. c \in TaskType /\ c.pc = "claim" /\ c.via \in Keys
    BY DEF TaskType, Calls, Replies
  <2>2. Become(t, c) /\ t \in Tasks
    BY <1>0, <1>3 DEF ActivateKey
  <2> HIDE DEF c
  <2>3. /\ task' \in [Tasks -> TaskType]
        /\ \A u \in Tasks : task'[u].pc \in Calls => task'[u].via \in Keys
        /\ \A u \in Tasks : task'[u].pc = "write" => task'[u] = task[u]
    BY <1>0, <2>1, <2>2, Becomes
  <2>4. TypeOK'
    BY <1>0, <1>3, <2>3 DEF ActivateKey, TypeOK, TaskType, manager
  <2>5. Unconfirmed' /\ NoGraceAfterNegative'
    BY <1>0, <1>3, <2>3 DEF ActivateKey, Unconfirmed, NoGraceAfterNegative
  <2> QED
    BY <2>4, <2>5 DEF LicenseInv
<1>4. ASSUME NEW t \in Requests, Deactivate(t) PROVE LicenseInv'
  <2> DEFINE c == [kind |-> "deactivate", pc |-> "release", key |-> NoKey, via |-> client,
                   reply |-> "pending"]
             w == [Idle EXCEPT !.kind = "deactivate", !.pc = "write"]
  <2>1. /\ client' \in {client, NoKey} /\ storedKey' \in {storedKey, NoKey}
        /\ allowed' \in {allowed, FALSE} /\ deactivated' \in BOOLEAN
        /\ UNCHANGED <<up, dbKey, lastValid, manager, standing, confirmed>>
    BY <1>0, <1>4 DEF Deactivate
  <2>2. \/ UNCHANGED task
        \/ client \in Keys /\ Become(t, c)
        \/ Become(t, w)
    BY <1>0, <1>4 DEF Deactivate
  <2>3. /\ task' \in [Tasks -> TaskType]
        /\ \A u \in Tasks : task'[u].pc \in Calls => task'[u].via \in Keys
        /\ \A u \in Tasks : task'[u].pc = "write" => task'[u].key = NoKey \/ task'[u] = task[u]
    <3>1. CASE UNCHANGED task
      BY <1>0, <3>1
    <3>2. CASE client \in Keys /\ Become(t, c)
      <4>1. c \in TaskType /\ c.key = NoKey /\ c.via \in Keys
        BY <3>2 DEF TaskType, Calls, Replies
      <4> HIDE DEF c
      <4> QED
        BY <1>0, <3>2, <4>1, Becomes
    <3>3. CASE Become(t, w)
      <4>1. w \in TaskType /\ w.key = NoKey /\ w.pc \notin Calls
        BY Records
      <4> HIDE DEF w
      <4> QED
        BY <1>0, <3>3, <4>1, Becomes
    <3> QED
      BY <2>2, <3>1, <3>2, <3>3
  <2>4. TypeOK'
    BY <1>0, <2>1, <2>3 DEF TypeOK, TaskType, manager
  <2>5. Unconfirmed' /\ NoGraceAfterNegative'
    <3>1. Unconfirmed'
      BY <1>0, <2>1, <2>3 DEF Unconfirmed
    <3> QED
      BY <1>0, <2>1, <3>1 DEF NoGraceAfterNegative
  <2> QED
    BY <2>4, <2>5 DEF LicenseInv
<1>5. ASSUME NEW k \in Keys, Decide(k) \/ GraceEnds(k) PROVE LicenseInv'
  <2>1. /\ active' \subseteq Keys
        /\ UNCHANGED <<service, up, dbKey, task, installed, history>>
        /\ lastValid' \in [Keys -> {"none", "grace", "expired"}]
        /\ \A j \in Keys : lastValid'[j] # "none" => lastValid[j] # "none"
    BY <1>0, <1>5 DEF Decide, GraceEnds, manager
  <2>2. TypeOK'
    BY <1>0, <2>1 DEF TypeOK, TaskType, service, history
  <2>3. Unconfirmed' /\ NoGraceAfterNegative'
    BY <1>0, <2>1 DEF Unconfirmed, NoGraceAfterNegative, service, history
  <2> QED
    BY <2>2, <2>3 DEF LicenseInv
<1> QED
  BY <1>1, <1>2, <1>3, <1>4, <1>5

(* The invariant is inductive.                                                  *)
LEMMA LicenseStep == LicenseInv /\ [Next]_vars => LicenseInv'
<1> SUFFICES ASSUME LicenseInv, [Next]_vars PROVE LicenseInv'
  OBVIOUS
<1>1. CASE Next
  BY <1>1, TaskSteps, OtherSteps DEF Next
<1>2. CASE UNCHANGED vars
  BY <1>2 DEF vars, service, manager, history, LicenseInv, TypeOK, Unconfirmed, NoGraceAfterNegative
<1> QED
  BY <1>1, <1>2

LEMMA LicenseAlways == Spec => []LicenseInv
  BY LicenseInit, LicenseStep, PTL DEF Spec

(* LicenseService's memory, its tasks and the SDK's cache keep their types: a   *)
(* call is always made for a key, also when the client went away meanwhile.     *)
THEOREM LicenseTypes == Spec => []TypeOK
<1>1. LicenseInv => TypeOK
  BY DEF LicenseInv
<1> QED
  BY <1>1, LicenseAlways, PTL

(* A server for which the manager never called any key valid stays locked and   *)
(* stores no key: apply, activateKey, onModuleInit, deactivate.                 *)
THEOREM UnconfirmedIsLocked == Spec => []LockedUntilConfirmed
<1>1. LicenseInv => LockedUntilConfirmed
  BY DEF LicenseInv, Unconfirmed, LockedUntilConfirmed
<1> QED
  BY <1>1, LicenseAlways, PTL

(* The SDK keeps nothing to fall back on for a key the manager last refused:    *)
(* _storeNetwork and _graceResult, whatever calls overlap or fail.              *)
THEOREM RefusedHasNoGrace == Spec => []NoGraceAfterNegative
<1>1. LicenseInv => NoGraceAfterNegative
  BY DEF LicenseInv
<1> QED
  BY <1>1, LicenseAlways, PTL

-----------------------------------------------------------------------------
(* Deactivation.  apply() may unlock a deactivated server again when a refresh  *)
(* was in flight; what follows shows that nothing else can.                     *)

(* What a task may be doing: only a key being activated is claimed or checked   *)
(* by a request, and the refresh neither releases nor writes a key.             *)
Checking == {"claim", "validate", "reclaim"}
Fits(t, r) ==
    /\ t \in Requests /\ r.pc \in Checking => r.kind = "activate"
    /\ t = Refresher => r.kind = "none" /\ r.pc \in {"idle", "validate", "reclaim"}

InRole ==
    /\ \A t \in Tasks : Fits(t, task[t])
    /\ \A t \in Requests : task[t].pc # "idle" => up

(* After a deactivation that no activation overlapped, and until the next one,  *)
(* the service holds no key and no client to ask with.                          *)
HoldsNoKey ==
    deactivated => /\ up /\ client = NoKey /\ storedKey = NoKey
                   /\ ~Activating

KeylessInv == TypeOK /\ InRole /\ HoldsNoKey

(* A deactivated server that is locked and has no refresh in flight stays both, *)
(* whatever happens next.                                                       *)
Settled == ~allowed /\ task[Refresher].pc = "idle"
StaysLocked == [][deactivated /\ Settled => Settled']_vars

LEMMA KeylessInit == Init => InRole /\ HoldsNoKey
  BY DEF Init, InRole, HoldsNoKey, Fits, Idle, Checking, Tasks

LEMMA RefresherIsNoRequest ==
  Refresher \in Tasks /\ Requests \subseteq Tasks /\ Refresher \notin Requests
  BY LicenseAssumption DEF Tasks

(* A task that goes on in its role, and brings no key back.                     *)
LEMMA KeylessKept ==
  ASSUME KeylessInv, NEW t \in Tasks, NEW r \in TaskType, Become(t, r), Fits(t, r),
         up => up', t = Refresher \/ up' \/ r.pc = "idle",
         deactivated' => /\ deactivated \/ ~Activating
                         /\ up' /\ client' = NoKey /\ storedKey' = NoKey
                         /\ r.kind # "activate"
  PROVE  /\ InRole' /\ HoldsNoKey'
         /\ task'[t] = r /\ (t # Refresher => task'[Refresher] = task[Refresher])
<1>1. /\ \A u \in Tasks : u # t => task'[u] = task[u]
      /\ task'[t] = r
  BY DEF KeylessInv, TypeOK, TaskType, Become
<1>2. /\ \A u \in Tasks : Fits(u, task[u])
      /\ \A u \in Requests : task[u].pc # "idle" => up
      /\ deactivated => ~Activating
  BY DEF KeylessInv, InRole, HoldsNoKey
<1>3. \A u \in Tasks : Fits(u, task'[u])
  BY <1>1, <1>2
<1>4. InRole'
  <2>1. \A u \in Requests : task'[u].pc # "idle" => up'
    BY <1>1, <1>2, RefresherIsNoRequest
  <2> QED
    BY <1>3, <2>1 DEF InRole, Fits
<1>5. HoldsNoKey'
  <2> SUFFICES ASSUME deactivated' PROVE ~Activating'
    BY DEF HoldsNoKey
  <2>1. \A u \in Requests : task'[u].kind # "activate"
    BY <1>1, <1>2, RefresherIsNoRequest DEF Activating
  <2> QED
    BY <2>1 DEF Activating
<1> QED
  BY <1>1, <1>4, <1>5, RefresherIsNoRequest

(* The caller of a call keeps its role when it returns, throws or asks on.      *)
LEMMA CallerFits ==
  ASSUME KeylessInv, NEW t \in Tasks, task[t].pc \in Checking, allowed' \in BOOLEAN,
         up => up', deactivated' = deactivated,
         Return(t) \/ GoOn(t, "validate") \/ GoOn(t, "reclaim")
  PROVE  InRole' /\ HoldsNoKey' /\ (deactivated => t = Refresher)
<1>1. /\ task[t] \in TaskType /\ Fits(t, task[t])
      /\ t = Refresher \/ (t \in Requests /\ task[t].kind = "activate" /\ up)
      /\ client \in Keys \cup {NoKey} /\ storedKey \in Keys \cup {NoKey}
  BY Types DEF KeylessInv, InRole, Fits, Checking, Tasks
<1>2. deactivated => t = Refresher /\ up /\ client = NoKey /\ storedKey = NoKey /\ task[t].kind = "none"
  BY <1>1 DEF KeylessInv, HoldsNoKey, Activating, Fits
<1>3. \E r \in TaskType :
         /\ Become(t, r) /\ Fits(t, r)
         /\ deactivated => client' = NoKey /\ storedKey' = NoKey /\ r.kind = "none"
  <2>1. /\ Idle \in TaskType /\ Fits(t, Idle) /\ Idle.kind = "none"
    BY IdleTask DEF Fits, Idle, Checking
  <2>2. CASE Return(t)
    <3>1. CASE task[t].kind = "activate" /\ allowed'
      <4> DEFINE w == [task[t] EXCEPT !.pc = "write", !.reply = "none"]
      <4>1. Become(t, w) /\ w \in TaskType /\ w.pc = "write"
        BY <1>1, <2>2, <3>1, Records DEF Return
      <4>2. Fits(t, w)
        BY <1>1, <3>1, <4>1, RefresherIsNoRequest DEF Fits, Checking
      <4> QED
        BY <1>2, <3>1, <4>1, <4>2
    <3>2. CASE ~(task[t].kind = "activate" /\ allowed')
      <4>1. Become(t, Idle) /\ client' \in {client, NoKey} /\ storedKey' = storedKey
        BY <2>2, <3>2 DEF Return
      <4> QED
        BY <1>2, <2>1, <4>1
    <3> QED
      BY <3>1, <3>2
  <2>3. ASSUME NEW op \in {"validate", "reclaim"}, GoOn(t, op)
        PROVE  \E r \in TaskType :
                  /\ Become(t, r) /\ Fits(t, r)
                  /\ deactivated => client' = NoKey /\ storedKey' = NoKey /\ r.kind = "none"
    <3>1. CASE client = NoKey
      <4>1. Become(t, Idle) /\ client' \in {client, NoKey} /\ storedKey' = storedKey
        BY <2>3, <3>1 DEF GoOn, Throw
      <4> QED
        BY <1>2, <2>1, <4>1
    <3>2. CASE client # NoKey
      <4> DEFINE c == [task[t] EXCEPT !.pc = op, !.via = client, !.reply = "pending"]
      <4>1. Become(t, c)
        BY <2>3, <3>2 DEF GoOn, Calling
      <4>2. c \in TaskType /\ c.kind = task[t].kind /\ c.pc = op
        BY <1>1 DEF TaskType, Replies, Calls
      <4>3. Fits(t, c)
        BY <1>1, <4>2, RefresherIsNoRequest DEF Fits
      <4> HIDE DEF c
      <4> QED
        BY <1>2, <3>2, <4>1, <4>2, <4>3
    <3> QED
      BY <3>1, <3>2
  <2> QED
    BY <2>2, <2>3
<1>4. PICK r \in TaskType :
         /\ Become(t, r) /\ Fits(t, r)
         /\ deactivated => client' = NoKey /\ storedKey' = NoKey /\ r.kind = "none"
  BY <1>3
<1>5. t = Refresher \/ up'
  BY <1>1
<1>6. deactivated' => /\ deactivated \/ ~Activating
                      /\ up' /\ client' = NoKey /\ storedKey' = NoKey
                      /\ r.kind # "activate"
  BY <1>2, <1>4
<1> QED
  BY <1>2, <1>4, <1>5, <1>6, KeylessKept

(* The steps of a task.                                                         *)
LEMMA KeylessTaskSteps ==
  ASSUME KeylessInv, TypeOK', NEW t \in Tasks, Step(t) \/ Lose(t) \/ BreakOff(t)
  PROVE  InRole' /\ HoldsNoKey' /\ (deactivated /\ Settled => Settled')
<1>0. /\ task[t] \in TaskType /\ task \in [Tasks -> TaskType] /\ Fits(t, task[t])
      /\ Fits(Refresher, task[Refresher])
      /\ up \in BOOLEAN /\ up' \in BOOLEAN /\ allowed \in BOOLEAN /\ allowed' \in BOOLEAN
      /\ deactivated \in BOOLEAN
      /\ t = Refresher \/ (t \in Requests /\ (task[t].pc # "idle" => up))
      /\ deactivated => up /\ client = NoKey /\ storedKey = NoKey /\ ~Activating
      /\ \A u \in Requests : deactivated => task[u].kind # "activate"
  BY RefresherIsNoRequest DEF KeylessInv, InRole, HoldsNoKey, Activating, Tasks, TypeOK, TaskType
<1>1. ASSUME NEW v \in Replies, Become(t, [task[t] EXCEPT !.reply = v]),
             UNCHANGED <<service, up, history>>
      PROVE  InRole' /\ HoldsNoKey' /\ (deactivated /\ Settled => Settled')
  <2> DEFINE a == [task[t] EXCEPT !.reply = v]
  <2>1. a \in TaskType /\ a.pc = task[t].pc /\ a.kind = task[t].kind
    BY <1>0 DEF TaskType
  <2>2. Fits(t, a)
    BY <1>0, <2>1 DEF Fits
  <2>3. Become(t, a) /\ UNCHANGED <<client, storedKey, allowed, up, deactivated>>
    BY <1>1 DEF service, history
  <2>4. t = Refresher => a.kind = "none"
    BY <2>2 DEF Fits
  <2>5. deactivated' => /\ deactivated \/ ~Activating
                        /\ up' /\ client' = NoKey /\ storedKey' = NoKey
                        /\ a.kind # "activate"
    BY <1>0, <2>1, <2>3, <2>4
  <2> HIDE DEF a
  <2>6. /\ InRole' /\ HoldsNoKey' /\ task'[t] = a
        /\ t # Refresher => task'[Refresher] = task[Refresher]
    BY <1>0, <2>1, <2>2, <2>3, <2>5, KeylessKept
  <2>7. task'[Refresher].pc = task[Refresher].pc
    BY <2>1, <2>6
  <2> QED
    BY <2>3, <2>6, <2>7 DEF Settled
<1>2. CASE Answer(t) \/ Lose(t) \/ BreakOff(t)
  <2>1. Verdict(task[t].pc, task[t].via) \in Replies /\ {"lost", "cut"} \subseteq Replies
    BY DEF Verdict, Replies, Negative
  <2> QED
    BY <1>1, <1>2, <2>1 DEF Answer, Lose, BreakOff
<1>3. CASE Claimed(t) \/ Validated(t) \/ Reclaimed(t)
  <2>1. /\ task[t].pc \in Checking /\ deactivated' = deactivated /\ (up => up')
        /\ Return(t) \/ GoOn(t, "validate") \/ GoOn(t, "reclaim")
    BY <1>3 DEF Claimed, Validated, Reclaimed, Received, Checking
  <2>2. InRole' /\ HoldsNoKey' /\ (deactivated => t = Refresher)
    BY <1>0, <2>1, CallerFits
  <2>3. task[t].pc # "idle"
    BY <2>1 DEF Checking
  <2> QED
    BY <2>2, <2>3 DEF Settled
<1>4. CASE Released(t)
  <2> DEFINE w == [Idle EXCEPT !.kind = "deactivate", !.pc = "write"]
  <2>1. w \in TaskType /\ w.kind = "deactivate" /\ w.pc = "write"
    BY Records DEF Idle
  <2>2. /\ task[t].pc = "release" /\ Become(t, w) /\ client' = NoKey /\ storedKey' = NoKey
        /\ allowed' = FALSE /\ up' = up /\ (deactivated' => ~Activating)
    BY <1>4 DEF Released, Received
  <2>3. t # Refresher /\ up
    BY <1>0, <2>2 DEF Fits
  <2>4. Fits(t, w)
    BY <2>1, <2>3 DEF Fits, Checking
  <2> HIDE DEF w
  <2>5. InRole' /\ HoldsNoKey' /\ task'[Refresher] = task[Refresher]
    BY <1>0, <2>1, <2>2, <2>3, <2>4, KeylessKept
  <2> QED
    BY <2>2, <2>5 DEF Settled
<1>5. CASE WriteKey(t)
  <2>1. /\ task[t].pc = "write" /\ Become(t, Idle)
        /\ UNCHANGED <<client, storedKey, allowed, up, deactivated>>
    BY <1>5 DEF WriteKey, service, history
  <2>2. t # Refresher /\ up
    BY <1>0, <2>1 DEF Fits
  <2>3. Idle \in TaskType /\ Fits(t, Idle) /\ Idle.kind = "none"
    BY IdleTask DEF Fits, Idle, Checking
  <2>4. InRole' /\ HoldsNoKey' /\ task'[Refresher] = task[Refresher]
    BY <1>0, <2>1, <2>2, <2>3, KeylessKept
  <2> QED
    BY <2>1, <2>4 DEF Settled
<1> QED
  BY <1>2, <1>3, <1>4, <1>5 DEF Step

(* Requests that come in, the start, the manager's operator, time.              *)
LEMMA KeylessOtherSteps ==
  ASSUME KeylessInv, TypeOK',
         \/ Boot \/ Scheduled \/ Restart
         \/ \E t \in Requests : Deactivate(t) \/ \E k \in Keys : ActivateKey(t, k)
         \/ \E k \in Keys : Decide(k) \/ GraceEnds(k)
  PROVE  InRole' /\ HoldsNoKey' /\ (deactivated /\ Settled => Settled')
<1>0. /\ task \in [Tasks -> TaskType] /\ (\A t \in Tasks : Fits(t, task[t]))
      /\ up \in BOOLEAN /\ up' \in BOOLEAN /\ allowed \in BOOLEAN /\ deactivated \in BOOLEAN
      /\ \A t \in Requests : task[t].pc # "idle" => up
      /\ deactivated => up /\ client = NoKey /\ storedKey = NoKey /\ ~Activating
      /\ Refresher \in Tasks /\ Requests \subseteq Tasks /\ Refresher \notin Requests
      /\ client \in Keys \cup {NoKey} /\ client' \in Keys \cup {NoKey}
  BY RefresherIsNoRequest DEF KeylessInv, InRole, HoldsNoKey, TypeOK, TaskType
<1>1. CASE Boot \/ Scheduled
  <2> DEFINE c == [task[Refresher] EXCEPT !.pc = "validate", !.via = client', !.reply = "pending"]
  <2>1. /\ ~deactivated /\ ~deactivated' /\ (up => up')
        /\ UNCHANGED task \/ (Become(Refresher, c) /\ client' \in Keys)
    <3>1. CASE Boot
      <4>1. ~up /\ deactivated' = deactivated
        BY <3>1 DEF Boot, history
      <4>2. UNCHANGED task \/ (Become(Refresher, c) /\ client' # NoKey)
        BY <3>1 DEF Boot, Calling
      <4> QED
        BY <1>0, <4>1, <4>2
    <3>2. CASE Scheduled
      <4>1. client # NoKey /\ client' = client /\ deactivated' = deactivated /\ up' = up
        BY <3>2 DEF Scheduled, history, service
      <4>2. Become(Refresher, c)
        BY <3>2 DEF Scheduled, Calling
      <4> QED
        BY <1>0, <4>1, <4>2
    <3> QED
      BY <1>1, <3>1, <3>2
  <2>2. CASE UNCHANGED task
    BY <1>0, <2>1, <2>2 DEF InRole, HoldsNoKey, Fits
  <2>3. CASE Become(Refresher, c) /\ client' \in Keys
    <3>1. task[Refresher] \in TaskType /\ Fits(Refresher, task[Refresher])
      BY <1>0
    <3>2. c \in TaskType /\ c.kind = task[Refresher].kind /\ c.pc = "validate"
      BY <2>3, <3>1 DEF TaskType, Calls, Replies
    <3>3. Fits(Refresher, c)
      BY <1>0, <3>1, <3>2 DEF Fits
    <3> HIDE DEF c
    <3> QED
      BY <1>0, <2>1, <2>3, <3>2, <3>3, KeylessKept
  <2> QED
    BY <2>1, <2>2, <2>3
<1>2. CASE Restart
  <2>1. (\A t \in Tasks : task'[t] = Idle) /\ allowed' = FALSE /\ deactivated' = FALSE
    BY <1>2 DEF Restart
  <2> QED
    BY <1>0, <2>1 DEF InRole, HoldsNoKey, Fits, Idle, Checking, Settled
<1>3. ASSUME NEW t \in Requests, NEW k \in Keys, ActivateKey(t, k)
      PROVE  InRole' /\ HoldsNoKey' /\ (deactivated /\ Settled => Settled')
  <2> DEFINE c == [kind |-> "activate", pc |-> "claim", key |-> k, via |-> k, reply |-> "pending"]
  <2>1. c \in TaskType /\ Fits(t, c)
    BY <1>0 DEF TaskType, Calls, Replies, Fits
  <2>2. Become(t, c) /\ up /\ up' = up /\ deactivated' = FALSE /\ allowed' = allowed
    BY <1>3 DEF ActivateKey
  <2> HIDE DEF c
  <2>3. InRole' /\ HoldsNoKey' /\ task'[Refresher] = task[Refresher]
    BY <1>0, <2>1, <2>2, KeylessKept
  <2> QED
    BY <2>2, <2>3 DEF Settled
<1>4. ASSUME NEW t \in Requests, Deactivate(t)
      PROVE  InRole' /\ HoldsNoKey' /\ (deactivated /\ Settled => Settled')
  <2> DEFINE c == [kind |-> "deactivate", pc |-> "release", key |-> NoKey, via |-> client,
                   reply |-> "pending"]
             w == [Idle EXCEPT !.kind = "deactivate", !.pc = "write"]
  <2>1. up /\ up' = up /\ (allowed' => allowed) /\ t # Refresher
    BY <1>0, <1>4 DEF Deactivate
  <2>2. CASE UNCHANGED task /\ UNCHANGED <<client, storedKey, deactivated>>
    BY <1>0, <2>1, <2>2 DEF InRole, HoldsNoKey, Fits, Settled, Activating
  <2>3. CASE client # NoKey /\ Become(t, c) /\ UNCHANGED <<client, storedKey, deactivated>>
    <3>1. c \in TaskType /\ Fits(t, c)
      BY <1>0, <2>1, <2>3 DEF TaskType, Calls, Replies, Fits, Checking
    <3>2. ~deactivated'
      BY <1>0, <2>3
    <3> HIDE DEF c
    <3>3. InRole' /\ HoldsNoKey' /\ task'[Refresher] = task[Refresher]
      BY <1>0, <2>1, <2>3, <3>1, <3>2, KeylessKept
    <3> QED
      BY <2>1, <3>3 DEF Settled
  <2>4. CASE Become(t, w) /\ client' = NoKey /\ storedKey' = NoKey /\ deactivated' = ~Activating
    <3>1. w \in TaskType /\ w.kind = "deactivate" /\ w.pc = "write"
      BY Records DEF Idle
    <3>2. Fits(t, w)
      BY <2>1, <3>1 DEF Fits, Checking
    <3> HIDE DEF w
    <3>3. InRole' /\ HoldsNoKey' /\ task'[Refresher] = task[Refresher]
      BY <1>0, <2>1, <2>4, <3>1, <3>2, KeylessKept
    <3> QED
      BY <2>1, <3>3 DEF Settled
  <2> QED
    BY <1>4, <2>2, <2>3, <2>4 DEF Deactivate
<1>5. ASSUME NEW k \in Keys, Decide(k) \/ GraceEnds(k)
      PROVE  InRole' /\ HoldsNoKey' /\ (deactivated /\ Settled => Settled')
  <2>1. UNCHANGED <<client, storedKey, allowed, up, task, deactivated>>
    BY <1>5 DEF Decide, GraceEnds, service, history
  <2> QED
    BY <1>0, <2>1 DEF InRole, HoldsNoKey, Fits, Settled, Activating
<1> QED
  BY <1>1, <1>2, <1>3, <1>4, <1>5

LEMMA KeylessStep ==
  ASSUME LicenseInv, KeylessInv, [Next]_vars
  PROVE  KeylessInv' /\ (deactivated /\ Settled => Settled')
<1>1. TypeOK'
  BY LicenseStep DEF LicenseInv
<1>2. CASE Next
  BY <1>1, <1>2, KeylessTaskSteps, KeylessOtherSteps DEF Next, KeylessInv
<1>3. CASE UNCHANGED vars
  BY <1>1, <1>3 DEF vars, service, manager, history, KeylessInv, InRole, HoldsNoKey, Fits,
                    Settled, Activating
<1> QED
  BY <1>2, <1>3

LEMMA KeylessAlways == Spec => [](LicenseInv /\ KeylessInv)
<1>1. Init => KeylessInv
  BY LicenseInit, KeylessInit DEF LicenseInv, KeylessInv
<1>2. LicenseInv /\ KeylessInv /\ [Next]_vars => KeylessInv'
  BY KeylessStep
<1> QED
  BY <1>1, <1>2, LicenseAlways, PTL DEF Spec

(* Once deactivate ended without an activation beside it, and until the next    *)
(* activateKey or restart, the service holds no key and no client: nothing can  *)
(* ask the manager again.                                                       *)
THEOREM DeactivatedHoldsNoKey == Spec => []HoldsNoKey
<1>1. KeylessInv => HoldsNoKey
  BY DEF KeylessInv
<1> QED
  BY <1>1, KeylessAlways, PTL

(* A deactivated server found locked with no refresh in flight stays locked: a  *)
(* refresh that was in flight is the only thing that unlocks it again.          *)
THEOREM DeactivatedStaysLocked == Spec => StaysLocked
<1>1. LicenseInv /\ KeylessInv /\ [Next]_vars => [deactivated /\ Settled => Settled']_vars
  BY KeylessStep
<1> QED
  BY <1>1, KeylessAlways, PTL DEF Spec, StaysLocked
=============================================================================
