------------------------ MODULE AdministrationProofs -------------------------
(* The accounts, signing in and the pages of administration.  The SuperAdmin    *)
(* role is kept and given as Accounts promises, for any number of accounts,     *)
(* roles and requests in progress; for every number of attempts in progress and  *)
(* every limit what can be tried in a window is bounded; and the pages list what *)
(* is stored and save what was chosen, for any number of entries and requests.   *)
EXTENDS Accounts, SignIn, AdminPages, FiniteSetTheorems, TLAPS

-----------------------------------------------------------------------------
(* The accounts.                                                              *)
Row == [exists : BOOLEAN, active : BOOLEAN, roles : SUBSET Roles]
Task == [pc : Steps, op : Operations, admin : BOOLEAN, target : Users \cup {Nobody},
         role : Roles \cup {NoRole}, active : {"keep", "on", "off"}, super : BOOLEAN,
         stale : BOOLEAN, menus : SUBSET Menus, viewOnly : BOOLEAN]

(* Requests on accounts have an account for a target.                         *)
Aimed(r) == r.pc \notin {"idle", "role row"} => r.target \in Users

(* A request whose checks are behind it, or that found no SuperAdmin, and that   *)
(* may take the role from its target.                                         *)
Checked(r) ==
    \/ r.pc = "delete"
    \/ r.pc = "swap" /\ r.role # SuperAdmin
    \/ r.pc = "role" /\ ~r.super

(* A request about to give the SuperAdmin role.                               *)
Giving(r) == r.pc \in {"insert", "assign", "swap"} /\ r.role = SuperAdmin

(* A request that would count although it gives the role: there is none.       *)
Leaving(r) == r.pc = "count leaving" /\ r.role = SuperAdmin

Entitled == \A t \in Requests : ~Leaving(task[t]) /\ (Giving(task[t]) => task[t].admin)

(* While nothing raced, what a checked request counted is still there.         *)
Counted ==
    ~raced => /\ Holders # {}
              /\ \A t \in Requests :
                    Checked(task[t]) /\ ~task[t].stale => Holders \ {task[t].target} # {}

Inv == TypeOK /\ (\A t \in Requests : Aimed(task[t])) /\ Entitled /\ Counted

-----------------------------------------------------------------------------
(* A step that changes one request only, to a state that keeps the invariant.  *)
LEMMA RequestStep ==
    ASSUME Inv, NEW t \in Requests, NEW r \in Task,
           task' = [task EXCEPT ![t] = r],
           UNCHANGED <<user, raced>>,
           role' \in [Roles -> [exists : BOOLEAN, viewOnly : BOOLEAN, menus : SUBSET Menus]],
           delegated' \in BOOLEAN, spent' \in Nat,
           Aimed(r), ~Leaving(r), Giving(r) => r.admin,
           ~raced /\ Checked(r) /\ ~r.stale => Holders \ {r.target} # {}
    PROVE  Inv'
<1> USE DEF Inv
<1>1. task \in [Requests -> Task]
    BY DEF TypeOK, Task
<1>2. task' \in [Requests -> Task]
    BY <1>1
<1>3. TypeOK'
    BY <1>2 DEF TypeOK, Task
<1>4. \A x \in Requests : task'[x] = IF x = t THEN r ELSE task[x]
    BY <1>1
<1>5. Holders' = Holders
    BY DEF Holders, Present
<1>6. Counted'
    BY <1>4, <1>5 DEF Counted
<1> QED
    BY <1>3, <1>4, <1>6 DEF Entitled

(* Marking a request stale changes nothing else of it.                         *)
LEMMA Marked ==
    ASSUME NEW r \in Task, NEW b \in BOOLEAN
    PROVE  LET m == [r EXCEPT !.stale = b]
           IN  /\ m \in Task
               /\ m.pc = r.pc /\ m.target = r.target /\ m.role = r.role /\ m.super = r.super
               /\ m.admin = r.admin /\ m.stale = b
    BY DEF Task

(* A write of an account: it takes the role from somebody only when the others,  *)
(* as counted, hold it too, or when nothing is promised any more.              *)
LEMMA WriteStep ==
    ASSUME Inv, NEW t \in Requests, NEW row \in Row, NEW r \in Task,
           Put(t, row, r), task[t].target \in Users,
           row.roles # {} => row.exists, ~row.exists => row = Absent,
           Aimed(r), ~Leaving(r), Giving(r) => r.admin, ~Checked(r),
           \/ SuperAdmin \in row.roles \/ SuperAdmin \notin user[task[t].target].roles
           \/ ~raced /\ ~task[t].stale => Holders \ {task[t].target} # {}
    PROVE  Inv'
<1> USE DEF Inv
<1> DEFINE u == task[t].target
           takes == TakesAway(user[u], row)
<1>1. task \in [Requests -> Task] /\ user \in [Users -> Row]
    BY DEF TypeOK, Task, Row
<1>2. \A x \in Requests :
        task'[x] = IF x = t THEN r
                   ELSE [task[x] EXCEPT !.stale = @ \/ (task[x].pc # "idle" /\ takes)]
    BY DEF Put
<1>3. ASSUME NEW x \in Requests, x # t
      PROVE  /\ task'[x] \in Task
             /\ task'[x].pc = task[x].pc /\ task'[x].target = task[x].target
             /\ task'[x].role = task[x].role /\ task'[x].super = task[x].super
             /\ task'[x].admin = task[x].admin
             /\ task'[x].stale = (task[x].stale \/ (task[x].pc # "idle" /\ takes))
  <2> DEFINE b == task[x].stale \/ (task[x].pc # "idle" /\ takes)
  <2>1. b \in BOOLEAN
    OBVIOUS
  <2>2. task'[x] = [task[x] EXCEPT !.stale = b]
    BY <1>2, <1>3
  <2>3. task[x] \in Task
    BY <1>1
  <2> HIDE DEF b
  <2>4. /\ task'[x] \in Task
        /\ task'[x].pc = task[x].pc /\ task'[x].target = task[x].target
        /\ task'[x].role = task[x].role /\ task'[x].super = task[x].super
        /\ task'[x].admin = task[x].admin /\ task'[x].stale = b
    BY <2>1, <2>2, <2>3, Marked
  <2> QED
    BY <2>4 DEF b
<1>4. task' \in [Requests -> Task] /\ task'[t] = r
  <2>1. task'[t] = r
    BY <1>2
  <2>2. \A x \in Requests : task'[x] \in Task
    BY <1>3, <2>1
  <2>3. task' = [x \in Requests |-> task'[x]]
    BY DEF Put
  <2> QED
    BY <2>1, <2>2, <2>3
<1>5. user' = [user EXCEPT ![u] = row] /\ user' \in [Users -> Row]
    BY <1>1 DEF Put
<1>6. TypeOK'
  <2>1. \A x \in Users : ~user'[x].exists => user'[x] = Absent
    BY <1>1, <1>5 DEF TypeOK
  <2>2. raced' \in BOOLEAN /\ UNCHANGED <<role, delegated, spent>>
    BY ZenonT(30) DEF Put
  <2> QED
    BY <1>4, <1>5, <2>1, <2>2 DEF TypeOK, Task, Row
<1>7. \A x \in Requests :
        Aimed(task'[x]) /\ ~Leaving(task'[x]) /\ (Giving(task'[x]) => task'[x].admin)
    BY <1>3, <1>4 DEF Aimed, Giving, Leaving, Entitled
<1>8. \A x \in Users : x # u => (x \in Holders' <=> x \in Holders)
    BY <1>1, <1>5 DEF Holders, Present
<1>9. u \in Holders /\ u \notin Holders' => takes
    BY <1>1, <1>5 DEF Holders, Present, TakesAway, Row
<1>10. Counted'
  <2> SUFFICES ASSUME ~raced'
               PROVE  /\ Holders' # {}
                      /\ \A x \in Requests :
                            Checked(task'[x]) /\ ~task'[x].stale
                              => Holders' \ {task'[x].target} # {}
      BY DEF Counted
  <2>1. ~raced /\ ~task[t].stale /\ Holders # {}
    BY DEF Put, Counted, TypeOK
  <2>2. Holders' # {}
    <3>1. CASE u \in Holders'
      BY <3>1
    <3>2. CASE u \notin Holders' /\ u \notin Holders
      BY <2>1, <3>2, <1>8 DEF Holders, Present
    <3>3. CASE u \notin Holders' /\ u \in Holders
      <4>1. SuperAdmin \notin row.roles
        BY <3>3, <1>1, <1>5 DEF Holders, Present, Row
      <4>2. SuperAdmin \in user[u].roles
        BY <3>3 DEF Holders
      <4>3. PICK v \in Holders : v # u
        BY <4>1, <4>2, <2>1
      <4> QED
        BY <4>3, <1>8 DEF Holders, Present
    <3> QED
      BY <3>1, <3>2, <3>3
  <2>3. ASSUME NEW x \in Requests, Checked(task'[x]), ~task'[x].stale
        PROVE  Holders' \ {task'[x].target} # {}
    <3>1. x # t
      BY <2>3, <1>4
    <3>2. /\ task'[x].target = task[x].target /\ task'[x].pc = task[x].pc
          /\ task'[x].super = task[x].super /\ task'[x].role = task[x].role
          /\ task'[x].stale = (task[x].stale \/ (task[x].pc # "idle" /\ takes))
      BY <3>1, <1>3
    <3>3. Checked(task[x]) /\ task[x].pc # "idle"
      BY <2>3, <3>2 DEF Checked
    <3>4. ~task[x].stale /\ ~takes
      BY <2>3, <3>2, <3>3
    <3>5. PICK v \in Holders : v # task[x].target
      BY <2>1, <3>3, <3>4 DEF Counted
    <3>6. v \in Holders'
      BY <3>4, <3>5, <1>8, <1>9 DEF Holders, Present
    <3> QED
      BY <3>2, <3>5, <3>6
  <2> QED
    BY <2>2, <2>3
<1> QED
    BY <1>6, <1>7, <1>10 DEF Entitled, Aimed, Giving, Leaving

-----------------------------------------------------------------------------
(* A request that is not in progress promises nothing.                         *)
LEMMA IdleTask ==
    Idle \in Task /\ Aimed(Idle) /\ ~Giving(Idle) /\ ~Checked(Idle) /\ ~Leaving(Idle)
    BY DEF Idle, Task, Steps, Operations, Aimed, Giving, Checked, Leaving

LEMMA InitInv == Init => Inv
<1> SUFFICES ASSUME Init PROVE Inv
    OBVIOUS
<1>1. \A t \in Requests : task[t] = Idle
    BY DEF Init
<1>2. TypeOK
  <2>1. task \in [Requests -> Task]
    BY IdleTask DEF Init
  <2> DEFINE Made == {NoSuchRole, Named(FALSE, {"/users"}), Named(TRUE, {}), Named(FALSE, Menus)}
             RoleRow == [exists : BOOLEAN, viewOnly : BOOLEAN, menus : SUBSET Menus]
  <2>0. Made \subseteq RoleRow
    BY DEF Named, NoSuchRole, Menus
  <2>2. role \in [Roles -> RoleRow]
    <3>1. role \in [Roles -> Made]
      BY DEF Init
    <3> HIDE DEF Made, RoleRow
    <3> QED
      BY <2>0, <3>1
  <2>3. Absent \in Row /\ \A r \in RoleIds : Holding({r}) \in Row
    BY DEF Row, Absent, Holding, RoleIds
  <2>4. user \in [Users -> Row]
    <3> DEFINE Rows == {Absent} \cup {Holding({r}) : r \in RoleIds}
    <3>1. user \in [Users -> Rows]
      BY DEF Init
    <3>2. Rows \subseteq Row
      BY <2>3
    <3> HIDE DEF Rows
    <3> QED
      BY <3>1, <3>2
  <2>5. \A u \in Users : ~user[u].exists => user[u] = Absent
    BY DEF Init, Absent, Holding
  <2> QED
    BY <2>1, <2>2, <2>4, <2>5 DEF Init, TypeOK, Task, Row
<1>3. Seeded \in Holders
    BY AccountsAssumption DEF Init, Holders, Present, Holding
<1>4. (\A t \in Requests : Aimed(task[t])) /\ Entitled /\ Counted
    BY <1>1, <1>3, IdleTask DEF Entitled, Counted
<1> QED
    BY <1>2, <1>4 DEF Inv

(* A request comes in, or goes on without writing.                             *)
LEMMA IdleStep ==
    ASSUME Inv, NEW t \in Requests, task' = [task EXCEPT ![t] = Idle],
           UNCHANGED <<user, role, raced, delegated, spent>>
    PROVE  Inv'
<1> QED
    BY IdleTask, RequestStep DEF Inv, TypeOK

(* A request that goes on is the same request.                                 *)
LEMMA StepOf ==
    ASSUME NEW r \in Task, NEW step \in Steps
    PROVE  LET m == [r EXCEPT !.pc = step]
           IN  /\ m \in Task /\ m.pc = step /\ m.target = r.target /\ m.role = r.role
               /\ m.admin = r.admin /\ m.stale = r.stale
    BY DEF Task

LEMMA MovedStep ==
    ASSUME Inv, NEW t \in Requests, NEW step \in Steps,
           task' = [task EXCEPT ![t] = [task[t] EXCEPT !.pc = step]],
           UNCHANGED <<user, role, raced, delegated, spent>>,
           task[t].target \in Users,
           step \in {"insert", "swap"} /\ task[t].role = SuperAdmin => task[t].admin,
           ~raced /\ ~task[t].stale /\ Checked([task[t] EXCEPT !.pc = step])
             => Holders \ {task[t].target} # {},
           step # "assign", step = "count leaving" => task[t].role # SuperAdmin
    PROVE  Inv'
<1> DEFINE r == [task[t] EXCEPT !.pc = step]
<1>1. task[t] \in Task
    BY DEF Inv, TypeOK, Task
<1>2. /\ r \in Task /\ r.pc = step /\ r.target = task[t].target /\ r.role = task[t].role
      /\ r.admin = task[t].admin /\ r.stale = task[t].stale
    BY <1>1, StepOf
<1>3. Aimed(r) /\ ~Leaving(r) /\ (Giving(r) => r.admin)
    BY <1>2 DEF Aimed, Giving, Leaving
<1>4. ~raced /\ Checked(r) /\ ~r.stale => Holders \ {r.target} # {}
    BY <1>2
<1> HIDE DEF r
<1> QED
    BY <1>2, <1>3, <1>4, RequestStep DEF Inv, TypeOK, r

(* Who asks is no matter to what a request is.                                 *)
LEMMA AskedBy ==
    ASSUME NEW r \in Task, NEW b \in BOOLEAN
    PROVE  LET a == [r EXCEPT !.admin = b]
           IN  a \in Task /\ a.pc = r.pc /\ a.target = r.target
    BY DEF Task

LEMMA RightsAreKnown == \A u : IsAdmin(u) \in BOOLEAN
    BY DEF IsAdmin

LEMMA SpentIsCounted ==
    ASSUME TypeOK, NEW t, NEW actor, NEW menu, NEW r, Accept(t, actor, menu, r)
    PROVE  spent' \in Nat
    BY DEF TypeOK, Accept

LEMMA AcceptStep ==
    ASSUME Inv, NEW t \in Requests, NEW actor \in Users, NEW menu \in Menus, NEW r \in Task,
           Accept(t, actor, menu, r), r.pc \in {"find", "read", "role row"},
           r.pc # "role row" => r.target \in Users
    PROVE  Inv'
<1> DEFINE a == [r EXCEPT !.admin = IsAdmin(actor)]
<1>1. IsAdmin(actor) \in BOOLEAN
    BY RightsAreKnown
<1>2. a \in Task /\ a.pc = r.pc /\ a.target = r.target
    BY <1>1, AskedBy
<1>3. Aimed(a) /\ ~Giving(a) /\ ~Checked(a) /\ ~Leaving(a)
    BY <1>2 DEF Aimed, Giving, Checked, Leaving
<1>4. task' = [task EXCEPT ![t] = a] /\ UNCHANGED <<user, role, raced>>
    BY DEF Accept
<1>5. spent' \in Nat
    BY SpentIsCounted DEF Inv
<1>6. delegated' = (delegated \/ ~IsAdmin(actor))
    BY DEF Accept
<1>7. delegated' \in BOOLEAN
    BY <1>6
<1> HIDE DEF a
<1> QED
    BY <1>2, <1>3, <1>4, <1>5, <1>7, RequestStep DEF Inv, TypeOK

LEMMA AskStep ==
    ASSUME Inv, NEW t \in Requests, NEW actor \in Users, Ask(t, actor)
    PROVE  Inv'
<1> USE DEF Idle, Task, Steps, Operations, RoleIds, Menus
<1>1. CASE AskCreate(t, actor)
    BY <1>1, AcceptStep DEF AskCreate
<1>2. CASE AskUpdate(t, actor)
    BY <1>2, AcceptStep DEF AskUpdate
<1>3. CASE AskRemove(t, actor)
    BY <1>3, AcceptStep DEF AskRemove
<1>4. CASE AskSetRole(t, actor)
    BY <1>4, AcceptStep DEF AskSetRole
<1>5. CASE AskRole(t, actor)
  <2>1. PICK r \in Roles, op \in {"makeRole", "renameRole", "removeRole", "setMenus"},
             m \in SUBSET Menus, v \in BOOLEAN :
          Accept(t, actor, "/roles", [Idle EXCEPT !.pc = "role row", !.op = op, !.role = r,
                                                 !.menus = m, !.viewOnly = v])
    BY <1>5 DEF AskRole
  <2> DEFINE q == [Idle EXCEPT !.pc = "role row", !.op = op, !.role = r,
                              !.menus = m, !.viewOnly = v]
  <2>2. q \in Task /\ q.pc = "role row"
    OBVIOUS
  <2>3. Accept(t, actor, "/roles", q)
    BY <2>1
  <2> HIDE DEF q
  <2> QED
    BY <2>2, <2>3, AcceptStep
<1> QED
    BY <1>1, <1>2, <1>3, <1>4, <1>5 DEF Ask

LEMMA CheckStep ==
    ASSUME Inv, NEW t \in Requests, Check(t)
    PROVE  Inv'
<1>1. task[t] \in Task
    BY DEF Inv, TypeOK, Task
<1>2. task[t].pc \notin {"idle", "role row"} => task[t].target \in Users
    BY DEF Inv, Aimed
<1>3. ~raced => Holders # {}
    BY DEF Inv, Counted
<1>4. CASE Find(t)
  <2>1. CASE task[t].target \in Present
    BY <1>4, <2>1, IdleStep DEF Find, Continue, Become
  <2>2. CASE task[t].target \notin Present
    <3>1. task[t].target \notin Holders
      BY <2>2 DEF Holders
    <3>2. ~raced => Holders \ {task[t].target} # {}
      BY <3>1, <1>3
    <3>3. CASE task[t].role = NoRole
      BY <1>2, <1>4, <2>2, <3>2, <3>3, MovedStep, AccountsAssumption DEF Find, Continue, Become, Steps
    <3>4. CASE task[t].role # NoRole
      BY <1>2, <1>4, <2>2, <3>2, <3>4, MovedStep DEF Find, Continue, Become, Steps
    <3> QED
      BY <3>3, <3>4
  <2> QED
    BY <2>1, <2>2
<1>5. CASE Read(t)
  <2> DEFINE u == task[t].target
             super == IsAdmin(u)
             counts == super /\ (task[t].op = "remove" \/ task[t].active = "off")
             step == IF counts THEN "count" ELSE AfterFirstCheck(t)
             r == [task[t] EXCEPT !.super = super, !.pc = step]
  <2>1. CASE u \notin Present
    BY <1>5, <2>1, IdleStep DEF Read, Become
  <2>2. CASE u \in Present
    <3>1. task' = [task EXCEPT ![t] = r] /\ UNCHANGED <<user, role, raced, delegated, spent>>
      BY <1>5, <2>2 DEF Read, Become
    <3>2. u \in Users /\ super \in BOOLEAN
      BY <1>2, <1>5 DEF Read, IsAdmin
    <3>3. step \in {"count", "delete", "write", "role"}
      BY DEF AfterFirstCheck
    <3>4. step = "delete" => ~super
      BY DEF AfterFirstCheck
    <3> HIDE DEF super, step
    <3>5. /\ r \in Task /\ r.pc = step /\ r.target = u /\ r.super = super
          /\ r.stale = task[t].stale
      BY <1>1, <3>2, <3>3 DEF Task, Steps
    <3>6. Aimed(r) /\ ~Giving(r) /\ ~Leaving(r)
      BY <3>2, <3>3, <3>5 DEF Aimed, Giving, Leaving
    <3>7. Checked(r) => u \notin Holders
      BY <3>3, <3>4, <3>5 DEF Checked, Holders, super, IsAdmin
    <3>8. ~raced /\ Checked(r) /\ ~r.stale => Holders \ {r.target} # {}
      BY <1>3, <3>5, <3>7
    <3> HIDE DEF r
    <3> QED
      BY <3>1, <3>5, <3>6, <3>8, RequestStep DEF Inv, TypeOK
  <2> QED
    BY <2>1, <2>2
<1>6. CASE Count(t)
  <2>1. CASE OthersHold(task[t].target)
    <3>1. AfterFirstCheck(t) \in {"delete", "write", "role"}
      BY DEF AfterFirstCheck
    <3> QED
      BY <1>2, <1>6, <2>1, <3>1, MovedStep DEF Count, Continue, Become, Steps, OthersHold
  <2>2. CASE ~OthersHold(task[t].target)
    BY <1>6, <2>2, IdleStep DEF Count, Continue, Become
  <2> QED
    BY <2>1, <2>2
<1>7. CASE CountLeaving(t)
  <2>1. CASE OthersHold(task[t].target) /\ (task[t].role = SuperAdmin => task[t].admin)
    BY <1>2, <1>7, <2>1, MovedStep DEF CountLeaving, Continue, Become, Steps, OthersHold
  <2>2. CASE ~OthersHold(task[t].target)
    BY <1>7, <2>2, IdleStep DEF CountLeaving, Continue, Become
  <2>3. task[t].role # SuperAdmin
    BY <1>7 DEF CountLeaving, Inv, Entitled, Leaving
  <2> QED
    BY <2>1, <2>2, <2>3
<1>8. CASE ReadRole(t)
  <2> DEFINE step == CASE task[t].op = "create" -> "insert"
                       [] task[t].op # "create" /\ task[t].super /\ task[t].role # SuperAdmin -> "count leaving"
                       [] OTHER -> "swap"
  <2>1. CASE ~MayAssign(t)
    BY <1>8, <2>1, IdleStep DEF ReadRole, Continue, Become
  <2>2. CASE MayAssign(t)
    <3>1. task[t].role = SuperAdmin => task[t].admin
      BY <2>2 DEF MayAssign
    <3>2. step \in {"insert", "count leaving", "swap"}
      OBVIOUS
    <3>3. step = "swap" => ~task[t].super \/ task[t].role = SuperAdmin
      OBVIOUS
    <3>4. task' = [task EXCEPT ![t] = [task[t] EXCEPT !.pc = step]]
      BY <1>8, <2>2 DEF ReadRole, Continue, Become
    <3>5. UNCHANGED <<user, role, raced, delegated, spent>> /\ task[t].pc = "role"
      BY <1>8 DEF ReadRole, Continue
    <3>6. step = "count leaving" => task[t].role # SuperAdmin
      OBVIOUS
    <3> HIDE DEF step
    <3>7. ~raced /\ ~task[t].stale /\ Checked([task[t] EXCEPT !.pc = step])
            => Holders \ {task[t].target} # {}
      BY <1>1, <3>2, <3>3, <3>5 DEF Checked, Inv, Counted, Task
    <3> QED
      BY <1>2, <3>1, <3>2, <3>4, <3>5, <3>6, <3>7, MovedStep DEF Steps
  <2> QED
    BY <2>1, <2>2
<1> QED
    BY <1>4, <1>5, <1>6, <1>7, <1>8 DEF Check

LEMMA ChangeStep ==
    ASSUME Inv, NEW t \in Requests, Change(t)
    PROVE  Inv'
<1> DEFINE u == task[t].target
<1>1. task[t] \in Task /\ user \in [Users -> Row]
    BY DEF Inv, TypeOK, Task, Row
<1>2. task[t].pc \notin {"idle", "role row"} => u \in Users
    BY DEF Inv, Aimed
<1>3. Idle \in Task /\ Aimed(Idle) /\ ~Giving(Idle) /\ ~Checked(Idle) /\ ~Leaving(Idle)
    BY IdleTask
<1>4. \A x \in Users : user[x].roles # {} => user[x].exists
    BY DEF Inv, TypeOK, Absent
<1>5. CASE Insert(t)
  <2> DEFINE row == [exists |-> TRUE, active |-> TRUE, roles |-> {}]
             r == IF task[t].role = NoRole THEN Idle ELSE [task[t] EXCEPT !.pc = "assign"]
  <2>1. row \in Row /\ row.exists
    BY DEF Row
  <2>2. u \in Users /\ user[u].roles = {}
    BY <1>1, <1>2, <1>4, <1>5 DEF Insert, CanInsert, Present, Row
  <2>3. r \in Task /\ Aimed(r) /\ ~Checked(r) /\ ~Leaving(r)
    <3>1. CASE task[t].role = NoRole
      BY <1>3, <3>1
    <3>2. CASE task[t].role # NoRole
      <4>1. r \in Task /\ r.pc = "assign" /\ r.target = u
        BY <1>1, <3>2, StepOf DEF Steps
      <4> QED
        BY <4>1, <2>2 DEF Aimed, Checked, Leaving
    <3> QED
      BY <3>1, <3>2
  <2>4. Giving(r) => r.admin
    BY <1>1, <1>3, <1>5 DEF Insert, Inv, Entitled, Giving, Task
  <2>5. Put(t, row, r)
    BY <1>5 DEF Insert
  <2> HIDE DEF row, r
  <2> QED
    BY <2>1, <2>2, <2>3, <2>4, <2>5, WriteStep
<1>6. CASE Assign(t)
  <2> DEFINE row == [user[u] EXCEPT !.roles = @ \cup {task[t].role}]
  <2>1. u \in Users /\ user[u].exists /\ task[t].role \in Roles
    BY <1>2, <1>6 DEF Assign, CanAssign, Present, RoleIds
  <2>2. row \in Row /\ row.exists /\ user[u].roles \subseteq row.roles
    BY <1>1, <2>1 DEF Row
  <2>3. Put(t, row, Idle)
    BY <1>6 DEF Assign
  <2> HIDE DEF row
  <2> QED
    BY <1>3, <2>1, <2>2, <2>3, WriteStep
<1>7. CASE Swap(t)
  <2> DEFINE row == [user[u] EXCEPT !.roles = {task[t].role}]
             r == IF task[t].op = "update" THEN [task[t] EXCEPT !.pc = "write"] ELSE Idle
  <2>1. u \in Users /\ user[u].exists /\ task[t].role \in Roles
    BY <1>2, <1>7 DEF Swap, CanSwap, Present, RoleIds
  <2>2. row \in Row /\ row.exists /\ row.roles = {task[t].role}
    BY <1>1, <2>1 DEF Row
  <2>3. r \in Task /\ Aimed(r) /\ ~Checked(r) /\ ~Giving(r) /\ ~Leaving(r)
    <3>1. CASE task[t].op # "update"
      BY <1>3, <3>1
    <3>2. CASE task[t].op = "update"
      <4>1. r \in Task /\ r.pc = "write" /\ r.target = u
        BY <1>1, <3>2, StepOf DEF Steps
      <4> QED
        BY <4>1, <2>1 DEF Aimed, Checked, Leaving, Giving
    <3> QED
      BY <3>1, <3>2
  <2>4. \/ SuperAdmin \in row.roles
        \/ ~raced /\ ~task[t].stale => Holders \ {u} # {}
    BY <1>7, <2>2 DEF Swap, Inv, Counted, Checked
  <2>5. Put(t, row, r)
    BY <1>7 DEF Swap
  <2> HIDE DEF row, r
  <2> QED
    BY <2>1, <2>2, <2>3, <2>4, <2>5, WriteStep
<1>8. CASE Write(t)
  <2> DEFINE active == IF task[t].active = "keep" THEN user[u].active ELSE task[t].active = "on"
             row == [user[u] EXCEPT !.active = active]
  <2>1. u \in Users /\ user[u].exists
    BY <1>2, <1>8 DEF Write, CanWrite, Present
  <2>2. active \in BOOLEAN
    BY <1>1, <2>1 DEF Row
  <2>3. Put(t, row, Idle)
    BY <1>8 DEF Write
  <2> HIDE DEF active
  <2>4. row \in Row /\ row.exists /\ row.roles = user[u].roles
    BY <1>1, <2>1, <2>2 DEF Row
  <2> HIDE DEF row
  <2> QED
    BY <1>3, <2>1, <2>3, <2>4, WriteStep
<1>9. CASE Delete(t)
  <2>1. u \in Users
    BY <1>2, <1>9 DEF Delete
  <2>2. Absent \in Row /\ Absent.roles = {}
    BY DEF Absent, Row
  <2>3. ~raced /\ ~task[t].stale => Holders \ {u} # {}
    BY <1>9 DEF Delete, Inv, Counted, Checked
  <2>4. Put(t, Absent, Idle)
    BY <1>9 DEF Delete
  <2> QED
    BY <1>3, <2>1, <2>2, <2>3, <2>4, WriteStep
<1>10. CASE Refused(t)
  <2>1. task' = [task EXCEPT ![t] = Idle] /\ UNCHANGED <<user, role, raced, delegated, spent>>
    BY <1>10 DEF Refused, Refuse, Continue, Become
  <2> QED
    BY <2>1, IdleStep
<1>11. CASE ChangeRole(t)
  <2> DEFINE q == task[t].role
             RoleRow == [exists : BOOLEAN, viewOnly : BOOLEAN, menus : SUBSET Menus]
  <2>1. task' = [task EXCEPT ![t] = Idle] /\ UNCHANGED <<raced, delegated, spent>>
    BY <1>11 DEF ChangeRole, Become
  <2>2. role \in [Roles -> RoleRow] /\ task[t].viewOnly \in BOOLEAN /\ task[t].menus \in SUBSET Menus
    BY <1>1 DEF Inv, TypeOK, Task
  <2>3. CASE UNCHANGED user
    <3>1. role' \in [Roles -> RoleRow]
      <4>1. CASE MakeRole(t)
        BY <4>1, <2>2 DEF MakeRole, Named
      <4>2. CASE RenameRole(t)
        BY <4>2, <2>2 DEF RenameRole
      <4>3. CASE RemoveRole(t)
        BY <4>3, <2>2 DEF RemoveRole, NoSuchRole
      <4>4. CASE SetMenus(t)
        BY <4>4, <2>2 DEF SetMenus
      <4> QED
        BY <1>11, <4>1, <4>2, <4>3, <4>4 DEF ChangeRole
    <3> QED
      BY <1>3, <2>1, <2>3, <3>1, RequestStep DEF Inv, TypeOK
  <2>4. CASE RemoveRole(t)
    <3>1. q # SuperAdmin /\ role' \in [Roles -> RoleRow]
      BY <2>2, <2>4 DEF RemoveRole, CanChangeRole, NoSuchRole
    <3>2. user' = [x \in Users |-> [user[x] EXCEPT !.roles = @ \ {q}]]
      BY <2>4 DEF RemoveRole
    <3>3. /\ user' \in [Users -> Row]
          /\ \A x \in Users : /\ user'[x].exists = user[x].exists
                              /\ user'[x].active = user[x].active
                              /\ user'[x].roles = user[x].roles \ {q}
      BY <1>1, <3>2 DEF Row
    <3>4. \A x \in Users : ~user'[x].exists => user'[x] = Absent
      <4> SUFFICES ASSUME NEW x \in Users, ~user'[x].exists PROVE user'[x] = Absent
          OBVIOUS
      <4>1. user[x] = Absent
        BY <3>3 DEF Inv, TypeOK
      <4>2. user'[x] = [Absent EXCEPT !.roles = @ \ {q}]
        BY <3>2, <4>1
      <4> QED
        BY <4>2 DEF Absent
    <3>5. Holders' = Holders
      BY <3>1, <3>3 DEF Holders, Present
    <3>6. task' \in [Requests -> Task] /\ \A x \in Requests : task'[x] = IF x = t THEN Idle ELSE task[x]
      BY <1>3, <2>1 DEF Inv, TypeOK, Task
    <3>7. TypeOK'
      BY <2>1, <3>1, <3>3, <3>4, <3>6 DEF Inv, TypeOK, Task, Row
    <3>8. Counted'
      BY <1>3, <2>1, <3>5, <3>6 DEF Inv, Counted
    <3> QED
      BY <1>3, <3>6, <3>7, <3>8 DEF Inv, Entitled
  <2> QED
    BY <1>11, <2>3, <2>4 DEF ChangeRole, MakeRole, RenameRole, SetMenus
<1> QED
  BY <1>5, <1>6, <1>7, <1>8, <1>9, <1>10, <1>11 DEF Change

(* The invariant, and with it the types, hold in every reachable state.        *)
THEOREM Invariance == Spec => []Inv
<1>1. Inv /\ [Next]_vars => Inv'
  <2> SUFFICES ASSUME Inv, [Next]_vars PROVE Inv'
      OBVIOUS
  <2>1. CASE Next
    <3>1. PICK t \in Requests : Check(t) \/ Change(t) \/ \E actor \in Users : Ask(t, actor)
      BY <2>1 DEF Next
    <3> QED
      BY <3>1, CheckStep, ChangeStep, AskStep
  <2>2. CASE UNCHANGED vars
    <3>1. TypeOK'
      BY <2>2 DEF vars, Inv, TypeOK
    <3>2. Holders' = Holders
      BY <2>2 DEF vars, Holders, Present
    <3>3. Counted'
      BY <2>2, <3>2 DEF vars, Inv, Counted
    <3>4. (\A t \in Requests : Aimed(task[t]))' /\ Entitled'
      BY <2>2 DEF vars, Inv, Entitled
    <3> QED
      BY <3>1, <3>3, <3>4 DEF Inv
  <2> QED
    BY <2>1, <2>2
<1> QED
  BY <1>1, InitInv, PTL DEF Spec

(* TypeOK: the variables of the accounts keep their types.                     *)
THEOREM AccountTypes == Spec => []TypeOK
<1>1. Inv => TypeOK
  BY DEF Inv
<1> QED
  BY <1>1, Invariance, PTL

(* SomeoneHolds: the counts before a write keep the role of SuperAdmin held.   *)
THEOREM SomebodyIsSuperAdmin == Spec => []SomeoneHolds
<1>1. Inv => SomeoneHolds
  BY DEF Inv, Counted, SomeoneHolds
<1> QED
  BY <1>1, Invariance, PTL

(* GivenBySuperAdmin: only a request of a SuperAdmin gives the role.           *)
THEOREM OnlySuperAdminsGive == Spec => GivenBySuperAdmin
<1>1. Inv /\ [Next]_vars => [Given]_vars
  <2> SUFFICES ASSUME Inv, Next, NEW x \in Users, SuperAdmin \in user'[x].roles \ user[x].roles
               PROVE  \E t \in Requests : /\ task[t].target = x /\ task[t].role = SuperAdmin
                                          /\ task[t].admin /\ task'[t] # task[t]
      BY DEF vars, Given
  <2>1. PICK t \in Requests : Check(t) \/ Change(t) \/ \E actor \in Users : Ask(t, actor)
    BY DEF Next
  <2>2. task \in [Requests -> Task] /\ user \in [Users -> Row]
    BY DEF Inv, TypeOK, Task, Row
  <2>3. ~Check(t)
    BY DEF Check, Find, Read, Count, ReadRole, CountLeaving, Continue
  <2>4. \A actor \in Users : ~Ask(t, actor)
    BY DEF Ask, AskCreate, AskUpdate, AskRemove, AskSetRole, AskRole, Accept
  <2>5. ASSUME ChangeRole(t) PROVE FALSE
    <3>1. user' # user
      OBVIOUS
    <3>2. user' = [w \in Users |-> [user[w] EXCEPT !.roles = @ \ {task[t].role}]]
      BY <2>5, <3>1 DEF ChangeRole, MakeRole, RenameRole, RemoveRole, SetMenus
    <3>3. user'[x] = [user[x] EXCEPT !.roles = @ \ {task[t].role}]
      BY <3>2
    <3>4. user'[x].roles = user[x].roles \ {task[t].role}
      BY <2>2, <3>3 DEF Row
    <3> QED
      BY <3>4
  <2>6. ~Refused(t)
    BY DEF Refused, Refuse, Continue
  <2>7. Assign(t) \/ Swap(t) \/ Insert(t) \/ Write(t) \/ Delete(t)
    BY <2>1, <2>3, <2>4, <2>5, <2>6 DEF Change
  <2>9. ~Insert(t) /\ ~Delete(t) /\ ~Write(t)
    <3>1. ASSUME Insert(t) PROVE FALSE
      <4>1. user' = [user EXCEPT ![task[t].target] = [exists |-> TRUE, active |-> TRUE, roles |-> {}]]
        BY <3>1 DEF Insert, Put
      <4> QED
        BY <2>2, <4>1
    <3>2. ASSUME Delete(t) PROVE FALSE
      <4>1. user' = [user EXCEPT ![task[t].target] = Absent]
        BY <3>2 DEF Delete, Put
      <4> QED
        BY <2>2, <4>1 DEF Absent
    <3>3. ASSUME Write(t) PROVE FALSE
      <4> DEFINE active == IF task[t].active = "keep" THEN user[x].active ELSE task[t].active = "on"
      <4>1. user'[x] = [user[x] EXCEPT !.active = active]
        BY <2>2, <3>3 DEF Write, Put
      <4>2. user'[x].roles = user[x].roles
        BY <2>2, <4>1 DEF Row
      <4> QED
        BY <4>2
    <3> QED
      BY <3>1, <3>2, <3>3
  <2>10. task[t].target = x /\ task[t].role = SuperAdmin
    BY <2>2, <2>7, <2>9 DEF Assign, Swap, Put, Row
  <2>11. Giving(task[t])
    BY <2>7, <2>9, <2>10 DEF Assign, Swap, Giving
  <2>12. task[t].admin
    BY <2>11 DEF Inv, Entitled
  <2>13. task'[t] # task[t]
    BY <2>2, <2>7, <2>9 DEF Assign, Swap, Put, Task, Idle
  <2> QED
    BY <2>10, <2>12, <2>13
<1> QED
  BY <1>1, Invariance, PTL DEF Spec, GivenBySuperAdmin

(* Who can sign in and administer.                                            *)
Able == {u \in Holders : user[u].active}

(* A request that may take a SuperAdmin's rights away; which are refused on the   *)
(* actor's own account, and are still what they were when it was accepted.      *)
Dangerous(r) ==
    \/ r.op \in {"remove", "setRole"}
    \/ r.op = "update" /\ (r.active = "off" \/ r.role # NoRole)

(* The steps that an operation comes to.                                      *)
Fits(pc, r) ==
    /\ pc \in {"find", "insert", "assign"} => r.op = "create"
    /\ pc \in {"read", "count"} => r.op \in {"update", "remove", "setRole"}
    /\ pc = "role" => r.op \in {"create", "setRole"} \/ (r.op = "update" /\ r.role # NoRole)
    /\ pc \in {"count leaving", "swap"} => r.op = "setRole" \/ (r.op = "update" /\ r.role # NoRole)
    /\ pc = "write" => r.op = "update"
    /\ pc = "delete" => r.op = "remove"
InPlace(r) == Fits(r.pc, r)

(* Such a request leaves an able SuperAdmin besides its target until it is       *)
(* marked stale: the actor himself, who stayed one.                           *)
AbleInv ==
    /\ \A t \in Requests : InPlace(task[t])
    /\ ~raced /\ ~delegated =>
          /\ Able # {}
          /\ \A t \in Requests :
                task[t].pc # "idle" /\ ~task[t].stale /\ Dangerous(task[t])
                  => Able \ {task[t].target} # {}

(* The parts of a request that a step without a write leaves alone.           *)
SameRequest(r, s) ==
    r.op = s.op /\ r.role = s.role /\ r.active = s.active /\ r.target = s.target /\ r.stale = s.stale

LEMMA StaysInPlace ==
    ASSUME NEW r, InPlace(r), NEW s, s.pc = r.pc, s.op = r.op, s.role = r.role
    PROVE  InPlace(s)
    BY DEF InPlace, Fits

LEMMA AbleMoves ==
    ASSUME Inv, AbleInv, NEW t \in Requests, NEW r, task' = [task EXCEPT ![t] = r],
           Able' = Able, UNCHANGED raced, delegated' \in BOOLEAN, delegated => delegated',
           InPlace(r),
           \/ r.pc = "idle" \/ (task[t].pc # "idle" /\ SameRequest(r, task[t]))
           \/ ~delegated' /\ Dangerous(r) => Able \ {r.target} # {}
    PROVE  AbleInv'
<1>1. \A x \in Requests : task'[x] = IF x = t THEN r ELSE task[x]
    BY DEF Inv, TypeOK
<1>2. \A x \in Requests : InPlace(task'[x])
    BY <1>1 DEF AbleInv
<1>3. ASSUME ~raced', ~delegated' PROVE Able' # {} /\ ~raced /\ ~delegated
    BY <1>3 DEF AbleInv
<1>4. ASSUME ~raced', ~delegated', NEW x \in Requests, task'[x].pc # "idle", ~task'[x].stale,
             Dangerous(task'[x])
      PROVE  Able' \ {task'[x].target} # {}
  <2>1. CASE x # t
    BY <1>1, <1>3, <1>4, <2>1 DEF AbleInv
  <2>2. CASE x = t /\ task[t].pc # "idle" /\ SameRequest(r, task[t])
    <3>1. Dangerous(task[t]) /\ task'[x] = r
      BY <1>1, <1>4, <2>2 DEF Dangerous, SameRequest
    <3> QED
      BY <1>3, <1>4, <2>2, <3>1 DEF AbleInv, SameRequest
  <2>3. CASE x = t /\ (~delegated' /\ Dangerous(r) => Able \ {r.target} # {})
    BY <1>1, <1>4, <2>3
  <2> QED
    BY <1>1, <1>4, <2>1, <2>2, <2>3
<1> QED
    BY <1>2, <1>3, <1>4 DEF AbleInv

(* The actor is an able SuperAdmin, or the request is delegated.               *)
LEMMA AbleAccepts ==
    ASSUME Inv, AbleInv, NEW t \in Requests, NEW actor \in Users, NEW menu, NEW r \in Task,
           Accept(t, actor, menu, r), InPlace(r), Dangerous(r) => actor # r.target
    PROVE  AbleInv'
<1> DEFINE a == [r EXCEPT !.admin = IsAdmin(actor)]
<1>1. /\ a.pc = r.pc /\ a.op = r.op /\ a.role = r.role /\ a.active = r.active
      /\ a.target = r.target
    BY DEF Task
<1>2. /\ task' = [task EXCEPT ![t] = a] /\ UNCHANGED <<user, raced>>
      /\ delegated' = (delegated \/ ~IsAdmin(actor))
      /\ actor \in Present /\ user[actor].active
    BY DEF Accept, MayWrite
<1> HIDE DEF a
<1>3. Able' = Able
    BY <1>2 DEF Able, Holders, Present
<1>4. InPlace(a) /\ (Dangerous(a) => actor # a.target)
    BY <1>1 DEF InPlace, Fits, Dangerous
<1>5. ~delegated' => actor \in Able
    BY <1>2 DEF Able, Holders, IsAdmin
<1>6. delegated' \in BOOLEAN /\ (delegated => delegated')
    BY <1>2, RightsAreKnown DEF Inv, TypeOK
<1>7. ~delegated' /\ Dangerous(a) => Able \ {a.target} # {}
    BY <1>4, <1>5
<1> QED
    BY <1>2, <1>3, <1>4, <1>6, <1>7, AbleMoves

LEMMA AbleAsks ==
    ASSUME Inv, AbleInv, NEW t \in Requests, NEW actor \in Users, Ask(t, actor)
    PROVE  AbleInv'
<1> USE DEF Idle, Task, Steps, Operations, RoleIds, Menus, InPlace, Fits, Dangerous, NotSelf
<1>1. CASE AskCreate(t, actor)
    BY <1>1, AbleAccepts DEF AskCreate
<1>2. CASE AskUpdate(t, actor)
  <2>1. PICK u \in Users, r \in RoleIds \cup {NoRole}, a \in {"keep", "on", "off"} :
          /\ a = "off" \/ r # NoRole => NotSelf(actor, u)
          /\ Accept(t, actor, "/users", [Idle EXCEPT !.pc = "read", !.op = "update", !.target = u,
                                                     !.role = r, !.active = a])
    BY <1>2 DEF AskUpdate
  <2> DEFINE q == [Idle EXCEPT !.pc = "read", !.op = "update", !.target = u, !.role = r, !.active = a]
  <2>2. q \in Task /\ InPlace(q) /\ (Dangerous(q) => actor # q.target)
    BY <2>1
  <2>3. Accept(t, actor, "/users", q)
    BY <2>1
  <2> HIDE DEF q, InPlace, Fits, Dangerous
  <2> QED
    BY <2>2, <2>3, AbleAccepts
<1>3. CASE AskRemove(t, actor)
    BY <1>3, AbleAccepts DEF AskRemove
<1>4. CASE AskSetRole(t, actor)
    BY <1>4, AbleAccepts DEF AskSetRole
<1>5. CASE AskRole(t, actor)
  <2>1. PICK r \in Roles, op \in {"makeRole", "renameRole", "removeRole", "setMenus"},
             m \in SUBSET Menus, v \in BOOLEAN :
          Accept(t, actor, "/roles", [Idle EXCEPT !.pc = "role row", !.op = op, !.role = r,
                                                 !.menus = m, !.viewOnly = v])
    BY <1>5 DEF AskRole
  <2> DEFINE q == [Idle EXCEPT !.pc = "role row", !.op = op, !.role = r,
                              !.menus = m, !.viewOnly = v]
  <2>2. q \in Task /\ InPlace(q) /\ ~Dangerous(q)
    OBVIOUS
  <2>3. Accept(t, actor, "/roles", q)
    BY <2>1
  <2> HIDE DEF q, InPlace, Fits, Dangerous
  <2> QED
    BY <2>2, <2>3, AbleAccepts
<1> QED
    BY <1>1, <1>2, <1>3, <1>4, <1>5 DEF Ask

LEMMA AbleChecks ==
    ASSUME Inv, AbleInv, NEW t \in Requests, Check(t) \/ Refused(t)
    PROVE  AbleInv'
<1>1. task[t] \in Task /\ task[t].pc # "idle" /\ InPlace(task[t])
    BY DEF Inv, TypeOK, Task, AbleInv, Check, Find, Read, Count, CountLeaving, ReadRole, Refused, Refuse
<1>2. UNCHANGED <<user, raced, delegated>> /\ Able' = Able /\ delegated' \in BOOLEAN
    BY DEF Check, Find, Read, Count, CountLeaving, ReadRole, Refused, Refuse, Continue,
           Able, Holders, Present, Inv, TypeOK
<1>3. Idle.pc = "idle" /\ InPlace(Idle)
    BY DEF Idle, InPlace, Fits
<1>4. ASSUME task' = [task EXCEPT ![t] = Idle] PROVE AbleInv'
    BY <1>2, <1>3, <1>4, AbleMoves
<1>5. ASSUME NEW step \in Steps, task' = [task EXCEPT ![t] = [task[t] EXCEPT !.pc = step]],
             Fits(step, task[t])
      PROVE  AbleInv'
  <2> DEFINE r == [task[t] EXCEPT !.pc = step]
  <2>1. r.pc = step /\ SameRequest(r, task[t])
    BY <1>1 DEF Task, SameRequest
  <2> HIDE DEF r
  <2>2. InPlace(r)
    BY <1>5, <2>1 DEF InPlace, Fits, SameRequest
  <2> QED
    BY <1>1, <1>2, <1>5, <2>1, <2>2, AbleMoves DEF r
<1>6. CASE Find(t)
  <2>1. \/ task' = [task EXCEPT ![t] = Idle]
        \/ \E step \in {"insert", "role"} : task' = [task EXCEPT ![t] = [task[t] EXCEPT !.pc = step]]
    BY <1>6 DEF Find, Continue, Become
  <2>2. \A step \in {"insert", "role"} : step \in Steps /\ Fits(step, task[t])
    BY <1>1, <1>6 DEF Find, InPlace, Fits, Steps
  <2> QED
    BY <1>4, <1>5, <2>1, <2>2
<1>7. ASSUME task[t].op \in {"update", "remove", "setRole"}
      PROVE  AfterFirstCheck(t) \in Steps /\ Fits(AfterFirstCheck(t), task[t])
    BY <1>7 DEF AfterFirstCheck, Fits, Steps
<1>8. CASE Read(t)
  <2> DEFINE super == IsAdmin(task[t].target)
             counts == super /\ (task[t].op = "remove" \/ task[t].active = "off")
             step == IF counts THEN "count" ELSE AfterFirstCheck(t)
             r == [task[t] EXCEPT !.super = super, !.pc = step]
  <2>1. task[t].op \in {"update", "remove", "setRole"}
    BY <1>1, <1>8 DEF Read, InPlace, Fits
  <2>2. task' = [task EXCEPT ![t] = r] \/ task' = [task EXCEPT ![t] = Idle]
    BY <1>8 DEF Read, Become
  <2>3. Fits(step, task[t])
    BY <1>7, <2>1 DEF Fits
  <2> HIDE DEF super, step
  <2>4. r.pc = step /\ SameRequest(r, task[t])
    BY <1>1 DEF Task, SameRequest
  <2> HIDE DEF r
  <2>5. InPlace(r)
    BY <2>3, <2>4 DEF InPlace, Fits, SameRequest
  <2> QED
    BY <1>1, <1>2, <1>4, <2>2, <2>4, <2>5, AbleMoves
<1>9. CASE Count(t)
  <2>1. task[t].op \in {"update", "remove", "setRole"}
    BY <1>1, <1>9 DEF Count, InPlace, Fits
  <2>2. \/ task' = [task EXCEPT ![t] = [task[t] EXCEPT !.pc = AfterFirstCheck(t)]]
        \/ task' = [task EXCEPT ![t] = Idle]
    BY <1>9 DEF Count, Continue, Become
  <2> QED
    BY <1>4, <1>5, <1>7, <2>1, <2>2
<1>10. CASE CountLeaving(t)
  <2>1. \/ task' = [task EXCEPT ![t] = [task[t] EXCEPT !.pc = "swap"]]
        \/ task' = [task EXCEPT ![t] = Idle]
    BY <1>10 DEF CountLeaving, Continue, Become
  <2>2. "swap" \in Steps /\ Fits("swap", task[t])
    BY <1>1, <1>10 DEF CountLeaving, InPlace, Fits, Steps
  <2> QED
    BY <1>4, <1>5, <2>1, <2>2
<1>11. CASE ReadRole(t)
  <2> DEFINE step == CASE task[t].op = "create" -> "insert"
                       [] task[t].op # "create" /\ task[t].super /\ task[t].role # SuperAdmin -> "count leaving"
                       [] OTHER -> "swap"
  <2>1. \/ task' = [task EXCEPT ![t] = [task[t] EXCEPT !.pc = step]]
        \/ task' = [task EXCEPT ![t] = Idle]
    BY <1>11 DEF ReadRole, Continue, Become
  <2>2. \/ task[t].op \in {"create", "setRole"}
        \/ task[t].op = "update" /\ task[t].role # NoRole
    BY <1>1, <1>11 DEF ReadRole, InPlace, Fits
  <2>3. \/ task[t].op = "create" /\ step = "insert"
        \/ task[t].op # "create" /\ step \in {"count leaving", "swap"}
    <3>1. CASE task[t].op = "create"
      <4>1. step = "insert"
        BY <3>1
      <4> QED
        BY <3>1, <4>1
    <3>2. CASE task[t].op # "create"
      <4>1. step \in {"count leaving", "swap"}
        BY <3>2
      <4> HIDE DEF step
      <4> QED
        BY <3>2, <4>1
    <3> QED
      BY <3>1, <3>2
  <2> HIDE DEF step
  <2>4. step \in Steps /\ Fits(step, task[t])
    BY <2>2, <2>3 DEF Fits, Steps
  <2> QED
    BY <1>4, <1>5, <2>1, <2>4
<1>12. CASE Refused(t)
    BY <1>4, <1>12 DEF Refused, Refuse, Continue, Become
<1> QED
    BY <1>6, <1>8, <1>9, <1>10, <1>11, <1>12 DEF Check

(* A write that takes rights away is that of a dangerous request, which leaves   *)
(* another SuperAdmin able, and marks every other one.                        *)
LEMMA AblePuts ==
    ASSUME Inv, AbleInv, NEW t \in Requests, NEW row \in Row, NEW r,
           Put(t, row, r), task[t].target \in Users, task[t].pc # "idle",
           row.roles # {} => row.exists,
           TakesAway(user[task[t].target], row) => Dangerous(task[t]),
           InPlace(r), r.pc = "idle" \/ SameRequest(r, task[t])
    PROVE  AbleInv'
<1> DEFINE u == task[t].target
           takes == TakesAway(user[u], row)
<1>1. task \in [Requests -> Task] /\ user \in [Users -> Row] /\ raced \in BOOLEAN
    BY DEF Inv, TypeOK, Task, Row
<1>2. /\ user' = [user EXCEPT ![u] = row] /\ raced' = (raced \/ task[t].stale)
      /\ delegated' = delegated
      /\ \A x \in Requests :
           task'[x] = IF x = t THEN r
                      ELSE [task[x] EXCEPT !.stale = @ \/ (task[x].pc # "idle" /\ takes)]
    BY DEF Put
<1>3. ASSUME NEW x \in Requests, x # t
      PROVE  /\ task'[x].pc = task[x].pc /\ task'[x].target = task[x].target
             /\ task'[x].role = task[x].role /\ task'[x].op = task[x].op
             /\ task'[x].active = task[x].active
             /\ task'[x].stale = (task[x].stale \/ (task[x].pc # "idle" /\ takes))
  <2> DEFINE b == task[x].stale \/ (task[x].pc # "idle" /\ takes)
  <2>1. task'[x] = [task[x] EXCEPT !.stale = b] /\ task[x] \in Task
    BY <1>1, <1>2, <1>3
  <2> HIDE DEF b
  <2>2. /\ task'[x].pc = task[x].pc /\ task'[x].target = task[x].target
        /\ task'[x].role = task[x].role /\ task'[x].op = task[x].op
        /\ task'[x].active = task[x].active /\ task'[x].stale = b
    BY <2>1 DEF Task
  <2> QED
    BY <2>2 DEF b
<1>4. \A x \in Requests : InPlace(task'[x])
  <2>1. \A x \in Requests : x # t => InPlace(task'[x])
    <3> SUFFICES ASSUME NEW x \in Requests, x # t PROVE InPlace(task'[x])
      OBVIOUS
    <3>1. InPlace(task[x])
      BY DEF AbleInv
    <3> QED
      BY <1>3, <3>1, StaysInPlace
  <2> QED
    BY <1>2, <2>1
<1>5. \A v \in Able : v # u => v \in Able'
    BY <1>1, <1>2 DEF Able, Holders, Present
<1>6. ~takes => Able \subseteq Able'
  <2>1. ~takes /\ u \in Able => u \in Able'
    <3> SUFFICES ASSUME ~takes, u \in Able PROVE u \in Able'
      OBVIOUS
    <3>1. SuperAdmin \in row.roles /\ row.active /\ row.exists
      BY <1>1 DEF Able, Holders, Present, TakesAway, Row
    <3>2. user'[u] = row /\ u \in Users
      BY <1>1, <1>2
    <3> QED
      BY <3>1, <3>2 DEF Able, Holders, Present
  <2> QED
    BY <1>5, <2>1
<1>7. ASSUME ~raced', ~delegated' PROVE Able' # {}
  <2>1. ~raced /\ ~delegated /\ ~task[t].stale
    BY <1>1, <1>2, <1>7 DEF Task
  <2>2. CASE takes
    <3>1. PICK v \in Able : v # u
      BY <2>1, <2>2 DEF AbleInv
    <3> QED
      BY <1>5, <3>1
  <2>3. CASE ~takes
    BY <1>6, <2>1, <2>3 DEF AbleInv
  <2> QED
    BY <2>2, <2>3
<1>8. ASSUME ~raced', ~delegated', NEW x \in Requests, task'[x].pc # "idle", ~task'[x].stale,
             Dangerous(task'[x])
      PROVE  Able' \ {task'[x].target} # {}
  <2>1. ~raced /\ ~delegated /\ ~task[t].stale
    BY <1>1, <1>2, <1>8 DEF Task
  <2>2. CASE x = t
    <3>1. SameRequest(r, task[t]) /\ task'[x] = r
      BY <1>2, <1>8, <2>2
    <3>2. Dangerous(task[t]) /\ task'[x].target = u
      BY <1>8, <3>1 DEF Dangerous, SameRequest
    <3>3. PICK v \in Able : v # u
      BY <2>1, <3>2 DEF AbleInv
    <3> QED
      BY <1>5, <3>2, <3>3
  <2>3. CASE x # t
    <3>1. ~takes /\ ~task[x].stale /\ task[x].pc # "idle" /\ Dangerous(task[x])
          /\ task'[x].target = task[x].target
      BY <1>3, <1>8, <2>3 DEF Dangerous
    <3>2. Able \ {task[x].target} # {}
      BY <2>1, <3>1 DEF AbleInv
    <3> QED
      BY <1>6, <3>1, <3>2
  <2> QED
    BY <2>2, <2>3
<1> QED
    BY <1>4, <1>7, <1>8 DEF AbleInv

LEMMA AbleChanges ==
    ASSUME Inv, AbleInv, NEW t \in Requests, Change(t)
    PROVE  AbleInv'
<1> DEFINE u == task[t].target
<1>1. /\ task[t] \in Task /\ user \in [Users -> Row] /\ InPlace(task[t])
      /\ task[t].pc \notin {"idle", "role row"} => u \in Users
    BY DEF Inv, TypeOK, Task, Row, AbleInv, Aimed
<1>2. Idle.pc = "idle" /\ InPlace(Idle)
    BY DEF Idle, InPlace, Fits
<1>3. \A x \in Users : user[x].roles # {} => user[x].exists
    BY DEF Inv, TypeOK, Absent
<1>4. \A step \in Steps : LET r == [task[t] EXCEPT !.pc = step] IN r.pc = step /\ SameRequest(r, task[t])
    BY <1>1 DEF Task, SameRequest
<1>5. CASE Insert(t)
  <2> DEFINE row == [exists |-> TRUE, active |-> TRUE, roles |-> {}]
             r == IF task[t].role = NoRole THEN Idle ELSE [task[t] EXCEPT !.pc = "assign"]
  <2>1. row \in Row /\ row.exists
    BY DEF Row
  <2>2. u \in Users /\ user[u].roles = {} /\ task[t].op = "create" /\ task[t].pc # "idle"
    BY <1>1, <1>3, <1>5 DEF Insert, CanInsert, Present, InPlace, Fits
  <2>3. InPlace(r) /\ (r.pc = "idle" \/ SameRequest(r, task[t]))
    <3>1. CASE task[t].role = NoRole
      BY <1>2, <3>1
    <3>2. CASE task[t].role # NoRole
      <4>1. r.pc = "assign" /\ SameRequest(r, task[t])
        BY <1>4, <3>2 DEF Steps
      <4> QED
        BY <2>2, <4>1 DEF InPlace, Fits, SameRequest
    <3> QED
      BY <3>1, <3>2
  <2>4. Put(t, row, r) /\ ~TakesAway(user[u], row)
    BY <1>5, <2>2 DEF Insert, TakesAway
  <2> HIDE DEF row, r
  <2> QED
    BY <2>1, <2>2, <2>3, <2>4, AblePuts
<1>6. CASE Assign(t)
  <2> DEFINE row == [user[u] EXCEPT !.roles = @ \cup {task[t].role}]
  <2>1. u \in Users /\ user[u].exists /\ task[t].role \in Roles /\ task[t].pc # "idle"
    BY <1>1, <1>6 DEF Assign, CanAssign, Present, RoleIds
  <2>2. row \in Row /\ row.exists /\ user[u].roles \subseteq row.roles /\ row.active = user[u].active
    BY <1>1, <2>1 DEF Row
  <2>3. Put(t, row, Idle)
    BY <1>6 DEF Assign
  <2> HIDE DEF row
  <2>4. ~TakesAway(user[u], row)
    BY <2>2 DEF TakesAway
  <2> QED
    BY <1>2, <2>1, <2>2, <2>3, <2>4, AblePuts
<1>7. CASE Swap(t)
  <2> DEFINE row == [user[u] EXCEPT !.roles = {task[t].role}]
             r == IF task[t].op = "update" THEN [task[t] EXCEPT !.pc = "write"] ELSE Idle
  <2>1. u \in Users /\ user[u].exists /\ task[t].role \in Roles /\ task[t].pc # "idle"
    BY <1>1, <1>7 DEF Swap, CanSwap, Present, RoleIds
  <2>2. row \in Row /\ row.exists
    BY <1>1, <2>1 DEF Row
  <2>3. InPlace(r) /\ (r.pc = "idle" \/ SameRequest(r, task[t]))
    <3>1. CASE task[t].op # "update"
      BY <1>2, <3>1
    <3>2. CASE task[t].op = "update"
      <4>1. r.pc = "write" /\ SameRequest(r, task[t])
        BY <1>4, <3>2 DEF Steps
      <4> QED
        BY <3>2, <4>1 DEF InPlace, Fits, SameRequest
    <3> QED
      BY <3>1, <3>2
  <2>4. Put(t, row, r) /\ Dangerous(task[t])
    BY <1>1, <1>7 DEF Swap, InPlace, Fits, Dangerous
  <2> HIDE DEF row, r
  <2> QED
    BY <2>1, <2>2, <2>3, <2>4, AblePuts
<1>8. CASE Write(t)
  <2> DEFINE active == IF task[t].active = "keep" THEN user[u].active ELSE task[t].active = "on"
             row == [user[u] EXCEPT !.active = active]
  <2>1. u \in Users /\ user[u].exists /\ task[t].op = "update" /\ task[t].pc # "idle"
    BY <1>1, <1>8 DEF Write, CanWrite, Present, InPlace, Fits
  <2>2. active \in BOOLEAN /\ (user[u].active /\ ~active => task[t].active = "off")
    BY <1>1, <2>1 DEF Row, Task
  <2>3. Put(t, row, Idle)
    BY <1>8 DEF Write
  <2> HIDE DEF active
  <2>4. row \in Row /\ row.exists /\ row.roles = user[u].roles /\ row.active = active
    BY <1>1, <2>1, <2>2 DEF Row
  <2> HIDE DEF row
  <2>5. TakesAway(user[u], row) => Dangerous(task[t])
    BY <2>1, <2>2, <2>4 DEF TakesAway, Dangerous
  <2> QED
    BY <1>2, <2>1, <2>3, <2>4, <2>5, AblePuts
<1>9. CASE Delete(t)
  <2>1. u \in Users /\ task[t].pc # "idle" /\ Dangerous(task[t])
    BY <1>1, <1>9 DEF Delete, InPlace, Fits, Dangerous
  <2>2. Absent \in Row /\ Absent.roles = {}
    BY DEF Absent, Row
  <2>3. Put(t, Absent, Idle)
    BY <1>9 DEF Delete
  <2> QED
    BY <1>2, <2>1, <2>2, <2>3, AblePuts
<1>10. CASE ChangeRole(t)
  <2>1. task' = [task EXCEPT ![t] = Idle] /\ UNCHANGED <<raced, delegated>>
    BY <1>10 DEF ChangeRole, Become
  <2>2. CASE UNCHANGED user
    BY <1>2, <2>1, <2>2, AbleMoves DEF Able, Holders, Present, Inv, TypeOK
  <2>3. CASE RemoveRole(t)
    <3>1. /\ task[t].role # SuperAdmin
          /\ user' = [x \in Users |-> [user[x] EXCEPT !.roles = @ \ {task[t].role}]]
      BY <2>3 DEF RemoveRole, CanChangeRole
    <3>2. \A x \in Users : /\ user'[x].exists = user[x].exists /\ user'[x].active = user[x].active
                           /\ user'[x].roles = user[x].roles \ {task[t].role}
      BY <1>1, <3>1 DEF Row
    <3>3. Able' = Able
      BY <3>1, <3>2 DEF Able, Holders, Present
    <3> QED
      BY <1>2, <2>1, <3>3, AbleMoves DEF Inv, TypeOK
  <2> QED
    BY <1>10, <2>2, <2>3 DEF ChangeRole, MakeRole, RenameRole, SetMenus
<1> QED
    BY <1>5, <1>6, <1>7, <1>8, <1>9, <1>10, AbleChecks DEF Change

(* SomeoneCanAdminister: the counts and the refusals on one's own account keep a *)
(* SuperAdmin able to sign in.                                                *)
THEOREM SomebodyCanAdminister == Spec => []SomeoneCanAdminister
<1>1. Init => AbleInv
  <2> SUFFICES ASSUME Init PROVE AbleInv
    OBVIOUS
  <2>1. \A t \in Requests : task[t].pc = "idle" /\ InPlace(task[t])
    BY DEF Init, Idle, InPlace, Fits
  <2>2. Seeded \in Able
    BY AccountsAssumption DEF Init, Able, Holders, Present, Holding
  <2> QED
    BY <2>1, <2>2 DEF AbleInv
<1>2. Inv /\ AbleInv /\ [Next]_vars => AbleInv'
  <2> SUFFICES ASSUME Inv, AbleInv, [Next]_vars PROVE AbleInv'
    OBVIOUS
  <2>1. CASE Next
    BY <2>1, AbleAsks, AbleChecks, AbleChanges DEF Next
  <2>2. CASE UNCHANGED vars
    <3>1. Able' = Able
      BY <2>2 DEF vars, Able, Holders, Present
    <3> QED
      BY <2>2, <3>1 DEF vars, AbleInv
  <2> QED
    BY <2>1, <2>2
<1>3. AbleInv => SomeoneCanAdminister
  BY DEF AbleInv, Able, SomeoneCanAdminister
<1> QED
  BY <1>1, <1>2, <1>3, Invariance, PTL DEF Spec

-----------------------------------------------------------------------------
(* Signing in.  AttemptsBounded is inductive once the types are known: an        *)
(* attempt is let in below the limit, ends as at most one failure, and leaves    *)
(* the set of comparisons when it is counted.                                 *)
ThrottleStep ==
    \/ \E a \in Attempts, k \in Logins, mine \in BOOLEAN : Try(a, k, mine)
    \/ \E a \in Attempts : Ends(a, Failed(attempt[a].login)) \/ Ends(a, NoBucket)
    \/ TimePasses
    \/ UNCHANGED throttle

(* What the browser does besides leaves the throttle alone.                    *)
LEMMA StepsOfTheThrottle ==
  ASSUME [SignInNext]_signInVars
  PROVE  ThrottleStep
<1>1. CASE SignInNext
  <2>1. CASE \E a \in Attempts, k \in Logins : TryElsewhere(a, k) \/ TryHere(a, k)
    BY <2>1 DEF ThrottleStep, TryElsewhere, TryHere
  <2>2. CASE \E a \in Attempts : Fail(a) \/ Succeed(a)
    BY <2>2 DEF ThrottleStep, Fail, Succeed
  <2>3. CASE TimePasses
    BY <2>3 DEF ThrottleStep
  <2>4. CASE Proxied \/ Welcome \/ SentAway \/ NeverLoads \/ RequestRefused
    BY <2>4 DEF ThrottleStep, Proxied, Welcome, SentAway, NeverLoads, RequestRefused, Goes
  <2>5. CASE (\E c \in {"none", "refused"} : SessionEnds(c)) \/ (\E x \in BOOLEAN : LogOut(x))
    BY <2>5 DEF ThrottleStep, SessionEnds, LogOut
  <2>6. CASE \E p \in {"login", "page"} : Navigate(p)
    BY <2>6 DEF ThrottleStep, Navigate, Goes
  <2> QED
    BY <1>1, <2>1, <2>2, <2>3, <2>4, <2>5, <2>6 DEF SignInNext
<1>2. CASE UNCHANGED signInVars
  BY <1>2 DEF signInVars, ThrottleStep
<1> QED
  BY <1>1, <1>2

-----------------------------------------------------------------------------
ThrottleTypes ==
    /\ bucket \in [Logins -> [count : Nat, left : Nat]]
    /\ attempt \in [Attempts -> [pc : {"idle", "compare"}, login : Logins \cup {NoLogin}, mine : BOOLEAN]]
    /\ \A a \in Attempts : attempt[a].pc = "compare" => attempt[a].login \in Logins
    /\ tries \in Nat

LEMMA TypesInit == SignInInit => ThrottleTypes
BY SignInAssumption DEF SignInInit, ThrottleTypes, NoBucket, NoAttempt

LEMMA TypesStep ==
  ASSUME ThrottleTypes, [SignInNext]_signInVars
  PROVE  ThrottleTypes'
<1>0. ThrottleStep
  BY StepsOfTheThrottle
<1>1. ASSUME NEW a \in Attempts, NEW k \in Logins, NEW mine \in BOOLEAN, Try(a, k, mine)
      PROVE  ThrottleTypes'
  <2>1. PrunedBuckets \in [Logins -> [count : Nat, left : Nat]]
    BY DEF ThrottleTypes, PrunedBuckets, NoBucket
  <2> QED
    BY <1>1, <2>1 DEF ThrottleTypes, Try
<1>2. ASSUME NEW a \in Attempts, NEW b \in [count : Nat, left : Nat], Ends(a, b)
      PROVE  ThrottleTypes'
  BY <1>2, SignInAssumption DEF ThrottleTypes, Ends, NoAttempt
<1>3. ASSUME NEW k \in Logins
      PROVE  Failed(k) \in [count : Nat, left : Nat]
  BY SignInAssumption DEF ThrottleTypes, Failed
<1>4. NoBucket \in [count : Nat, left : Nat]
  BY DEF NoBucket
<1>5. ASSUME NEW a \in Attempts, Ends(a, Failed(attempt[a].login)) \/ Ends(a, NoBucket)
      PROVE  ThrottleTypes'
  <2>1. attempt[a].login \in Logins
    BY <1>5 DEF Ends, ThrottleTypes
  <2>2. Failed(attempt[a].login) \in [count : Nat, left : Nat]
    BY <1>3, <2>1
  <2> QED
    BY <1>2, <1>4, <1>5, <2>2
<1>6. CASE TimePasses
  <2>1. ASSUME NEW k \in Logins
        PROVE  [bucket[k] EXCEPT !.left = IF @ = 0 THEN 0 ELSE @ - 1] \in [count : Nat, left : Nat]
    <3>1. bucket[k] \in [count : Nat, left : Nat]
      BY DEF ThrottleTypes
    <3> QED
      BY <3>1
  <2>2. bucket' \in [Logins -> [count : Nat, left : Nat]]
    BY <1>6, <2>1 DEF TimePasses
  <2> QED
    BY <1>6, <2>2 DEF ThrottleTypes, TimePasses
<1>7. CASE UNCHANGED throttle
  BY <1>7 DEF ThrottleTypes, throttle
<1> QED
  BY <1>0, <1>1, <1>5, <1>6, <1>7 DEF ThrottleStep

-----------------------------------------------------------------------------
Most == MaxAttempts + Cardinality(Attempts) - 1
Bounded(k) == Failures(k) + Cardinality(Comparing(k)) <= Most

LEMMA Counts ==
  ASSUME NEW k \in Logins
  PROVE  /\ IsFiniteSet(Comparing(k))
         /\ Cardinality(Comparing(k)) \in Nat
         /\ Cardinality(Attempts) \in Nat
         /\ Cardinality(Comparing(k)) <= Cardinality(Attempts)
<1>1. Comparing(k) \subseteq Attempts
  BY DEF Comparing
<1> QED
  BY <1>1, SignInAssumption, FS_Subset, FS_CardinalityType

LEMMA BoundedStep ==
  ASSUME ThrottleTypes, AttemptsBounded, [SignInNext]_signInVars
  PROVE  AttemptsBounded'
<1>0. ThrottleStep
  BY StepsOfTheThrottle
<1> SUFFICES ASSUME NEW q \in Logins
             PROVE  Bounded(q)'
  BY DEF AttemptsBounded, Bounded, Most
<1>b. Bounded(q)
  BY DEF AttemptsBounded, Bounded, Most
<1>f. /\ Failures(q) \in Nat /\ bucket[q].count \in Nat /\ bucket[q].left \in Nat
  BY DEF ThrottleTypes, Failures
<1>c. /\ IsFiniteSet(Comparing(q)) /\ Cardinality(Comparing(q)) \in Nat
      /\ Cardinality(Attempts) \in Nat
  BY Counts
<1>1. ASSUME NEW a \in Attempts, NEW k \in Logins, NEW mine \in BOOLEAN, Try(a, k, mine)
      PROVE  Bounded(q)'
  <2>1. Failures(q)' = Failures(q)
    BY <1>1 DEF Failures, Try, PrunedBuckets, NoBucket, ThrottleTypes
  <2>2. CASE q = k
    <3>1. Failures(q) <= MaxAttempts - 1
      BY <1>1, <2>2, <1>f, SignInAssumption DEF Try, Allowed, Failures
    <3>2. Comparing(q)' \subseteq Attempts
      BY DEF Comparing
    <3>3. Cardinality(Comparing(q)') \in Nat /\ Cardinality(Comparing(q)') <= Cardinality(Attempts)
      BY <3>2, SignInAssumption, FS_Subset, FS_CardinalityType
    <3> QED
      BY <2>1, <3>1, <3>3, <1>c, <1>f, SignInAssumption DEF Bounded, Most
  <2>3. CASE q # k
    <3>1. Comparing(q)' = Comparing(q)
      BY <1>1, <2>3 DEF Comparing, Try, ThrottleTypes
    <3> QED
      BY <2>1, <3>1, <1>b DEF Bounded, Most
  <2> QED
    BY <2>2, <2>3
<1>2. ASSUME NEW a \in Attempts, NEW b \in [count : Nat, left : Nat], Ends(a, b),
             b = Failed(attempt[a].login) \/ b = NoBucket
      PROVE  Bounded(q)'
  <2>0. attempt[a].login \in Logins /\ attempt[a].pc = "compare"
    BY <1>2 DEF Ends, ThrottleTypes
  <2>1. CASE q = attempt[a].login
    <3>1. Comparing(q)' = Comparing(q) \ {a} /\ a \in Comparing(q)
      BY <1>2, <2>0, <2>1 DEF Comparing, Ends, NoAttempt, ThrottleTypes
    <3>2. Cardinality(Comparing(q)') = Cardinality(Comparing(q)) - 1
      BY <3>1, <1>c, FS_RemoveElement
    <3>3. bucket'[q] = b
      BY <1>2, <2>0, <2>1 DEF Ends, ThrottleTypes
    <3>4. Failures(q)' \in Nat /\ Failures(q)' <= Failures(q) + 1
      BY <1>2, <2>1, <3>3, <1>f, SignInAssumption DEF Failures, Failed, NoBucket
    <3> QED
      BY <3>2, <3>4, <1>b, <1>c, <1>f, SignInAssumption DEF Bounded, Most
  <2>2. CASE q # attempt[a].login
    <3>1. Comparing(q)' = Comparing(q)
      BY <1>2, <2>2, <2>0 DEF Comparing, Ends, NoAttempt, ThrottleTypes
    <3>2. bucket'[q] = bucket[q]
      BY <1>2, <2>2 DEF Ends, ThrottleTypes
    <3> QED
      BY <3>1, <3>2, <1>b DEF Bounded, Most, Failures
  <2> QED
    BY <2>1, <2>2
<1>3. ASSUME NEW a \in Attempts, Ends(a, Failed(attempt[a].login)) \/ Ends(a, NoBucket)
      PROVE  Bounded(q)'
  <2>1. attempt[a].login \in Logins
    BY <1>3 DEF Ends, ThrottleTypes
  <2>2. Failed(attempt[a].login) \in [count : Nat, left : Nat]
    BY <2>1, SignInAssumption DEF ThrottleTypes, Failed
  <2>3. NoBucket \in [count : Nat, left : Nat]
    BY DEF NoBucket
  <2> QED
    BY <1>2, <1>3, <2>2, <2>3
<1>4. CASE TimePasses
  <2>1. Comparing(q)' = Comparing(q)
    BY <1>4 DEF TimePasses, Comparing
  <2>2. Failures(q)' \in Nat /\ Failures(q)' <= Failures(q)
    BY <1>4, <1>f DEF TimePasses, Failures, ThrottleTypes
  <2> QED
    BY <2>1, <2>2, <1>b, <1>c, <1>f, SignInAssumption DEF Bounded, Most
<1>5. CASE UNCHANGED throttle
  BY <1>5, <1>b DEF throttle, Bounded, Most, Failures, Comparing
<1> QED
  BY <1>0, <1>1, <1>3, <1>4, <1>5 DEF ThrottleStep

LEMMA BoundedInit == SignInInit => AttemptsBounded
<1> SUFFICES ASSUME SignInInit, NEW k \in Logins
             PROVE  Failures(k) + Cardinality(Comparing(k)) <= MaxAttempts + Cardinality(Attempts) - 1
  BY DEF AttemptsBounded
<1>1. Comparing(k) = {}
  BY DEF SignInInit, Comparing, NoAttempt
<1>2. Failures(k) = 0
  BY DEF SignInInit, Failures, NoBucket
<1> QED
  BY <1>1, <1>2, Counts, FS_EmptySet, SignInAssumption

(* However many attempts are compared at once, and whatever the window, the      *)
(* limit and the pruning: failures and comparisons of a window stay bounded.     *)
THEOREM TriesAreBounded == SignInSpec => []AttemptsBounded
<1>1. SignInInit => ThrottleTypes /\ AttemptsBounded
  BY TypesInit, BoundedInit
<1>2. ThrottleTypes /\ AttemptsBounded /\ [SignInNext]_signInVars => (ThrottleTypes /\ AttemptsBounded)'
  BY TypesStep, BoundedStep
<1> QED
  BY <1>1, <1>2, PTL DEF SignInSpec

-----------------------------------------------------------------------------
(* The pages.                                                                 *)
EntryType == [name : EntryNames \cup {Nothing}, mark : BOOLEAN, parts : SUBSET Parts]
AskType ==
    [pc : {"idle", "write", "fill", "answer", "load", "show"},
     op : {"none", "create", "details", "parts", "toggle", "remove", "other"},
     entry : Entries \cup {Nothing}, value : EntryType, seen : [Entries -> EntryType],
     older : BOOLEAN]
PageTypes ==
    /\ kind \in Pages /\ stored \in [Entries -> EntryType] /\ listing \in [Entries -> EntryType]
    /\ chosen \in Entries \cup {Nothing} /\ draft \in EntryType /\ base \in SUBSET Parts
    /\ switched \in BOOLEAN /\ ask \in [Asks -> AskType] /\ behind \in BOOLEAN
    /\ filled \in [details : Entries \cup {Nothing}, parts : Entries \cup {Nothing},
                   base : Entries \cup {Nothing}]
    /\ meant \in [Entries -> SUBSET Parts] /\ disturbed \in SUBSET Entries

(* The draft is what was filled in for the entry selected, and what counts as   *)
(* saved too, unless an answer came for another one.                            *)
FilledInv ==
    chosen # Nothing =>
        filled.details = chosen /\ (switched \/ (filled.parts = chosen /\ filled.base = chosen))

(* What has been written and will be loaded, and a list on its way that nothing *)
(* has made old.                                                              *)
Will(a) == ask[a].op # "other" /\ ask[a].pc \in {"fill", "answer", "load"}
Comes(a) == ask[a].pc = "show" /\ ~ask[a].older
ListInv ==
    /\ \A a \in Asks : ask[a].older => ask[a].pc = "show"
    /\ \A a \in Asks : Comes(a) => ask[a].seen = stored \/ \E b \in Asks : Will(b)
    /\ ~behind => listing = stored \/ \E b \in Asks : Will(b) \/ Comes(b)

(* An assignment that has cleared the routers of a user is the only one, and     *)
(* has the routers that were last chosen.                                       *)
PartsInv ==
    /\ \A a \in Asks : /\ ask[a].pc = "fill" => kind = "access" /\ ask[a].entry \in Entries
                       /\ ask[a].op = "create" => kind # "access" /\ ask[a].value.parts = {}
    /\ \A e \in Entries \ disturbed :
          /\ \A a \in Filling(e) : /\ stored[e].parts = {} /\ meant[e] = ask[a].value.parts
                                   /\ Filling(e) = {a}
          /\ e \in Existing(stored) /\ Filling(e) = {} => stored[e].parts = meant[e]

PagesInv == PageTypes /\ FilledInv /\ ListInv /\ PartsInv

LEMMA Values ==
  /\ NoEntry \in EntryType /\ NoEntry.parts = {} /\ AtRest \in AskType
  /\ AtRest.pc = "idle" /\ ~AtRest.older /\ AtRest.op = "none"
  /\ \A n \in EntryNames, mark \in BOOLEAN : Fresh(n, mark) \in EntryType /\ Fresh(n, mark).parts = {}
  /\ \A parts \in SUBSET Parts : [Fresh(Nothing, FALSE) EXCEPT !.parts = parts] \in EntryType
BY DEF NoEntry, Fresh, EntryType, AtRest, AskType

LEMMA PagesInit == AdminInit => PagesInv
<1> SUFFICES ASSUME AdminInit PROVE PagesInv
  OBVIOUS
<1>1. PICK n \in EntryNames : stored \in {s \in [Entries -> {NoEntry, Fresh(n, TRUE)}] : s[Own] # NoEntry}
  BY DEF AdminInit
<1>2. PICK a \in Asks : ask = [x \in Asks |-> IF x = a THEN [AtRest EXCEPT !.pc = "load"] ELSE AtRest]
  BY DEF AdminInit
<1>3. stored \in [Entries -> EntryType] /\ \A e \in Entries : stored[e].parts = {}
  BY <1>1, Values
<1>4. [AtRest EXCEPT !.pc = "load"] \in AskType /\ [AtRest EXCEPT !.pc = "load"].pc = "load"
      /\ ~[AtRest EXCEPT !.pc = "load"].older /\ [AtRest EXCEPT !.pc = "load"].op = "none"
  BY DEF AtRest, AskType, EntryType, NoEntry, Fresh
<1>5. /\ ask \in [Asks -> AskType]
      /\ \A x \in Asks : ask[x].pc \in {"idle", "load"} /\ ~ask[x].older /\ ask[x].op = "none"
  BY <1>2, <1>4, Values
<1>6. PageTypes
  BY <1>3, <1>5, Values DEF AdminInit, PageTypes
<1>7. FilledInv /\ ListInv
  BY <1>5 DEF AdminInit, FilledInv, ListInv, Comes
<1>8. PartsInv
  BY <1>3, <1>5 DEF AdminInit, PartsInv, Filling
<1> QED
  BY <1>6, <1>7, <1>8 DEF PagesInv

-----------------------------------------------------------------------------
(* What the administrator does before he sends anything.                        *)
LEMMA FillKeeps ==
  ASSUME PagesInv, NEW e \in Entries, NEW v \in EntryType, Fill(e, v)
  PROVE  /\ chosen' \in Entries \cup {Nothing} /\ draft' \in EntryType /\ base' \in SUBSET Parts
         /\ switched' \in BOOLEAN
         /\ filled' \in [details : Entries \cup {Nothing}, parts : Entries \cup {Nothing},
                         base : Entries \cup {Nothing}]
         /\ FilledInv'
BY DEF Fill, EntryType, FilledInv

LEMMA RestKeeps ==
  ASSUME ListInv, PartsInv, UNCHANGED <<kind, listing, ask, behind, stored, meant, disturbed>>
  PROVE  ListInv' /\ PartsInv'
BY DEF ListInv, PartsInv, Will, Comes, Filling, Existing

LEMMA AdministratorKeeps ==
  ASSUME PagesInv, Administrator
  PROVE  PagesInv'
<1>1. UNCHANGED <<kind, listing, ask, behind, stored, meant, disturbed>>
  BY DEF Administrator, SelectUser, SelectRole, SelectAccess, StartEdit, EditUser, EditRole,
         EditRouter, PickMenus, PickRouters, DiscardUser, DiscardMenus, DiscardRouters,
         Select, Edit, PickParts, DiscardParts, listShown, database
<1>2. ListInv' /\ PartsInv'
  BY <1>1, RestKeeps DEF PagesInv
<1>3. /\ chosen' \in Entries \cup {Nothing} /\ draft' \in EntryType /\ base' \in SUBSET Parts
      /\ switched' \in BOOLEAN
      /\ filled' \in [details : Entries \cup {Nothing}, parts : Entries \cup {Nothing},
                      base : Entries \cup {Nothing}]
      /\ FilledInv'
  <2>1. ASSUME NEW e \in Entries, Fill(e, listing[e])
        PROVE  <1>3
    <3>1. listing[e] \in EntryType
      BY DEF PagesInv, PageTypes
    <3> QED
      BY <2>1, <3>1, FillKeeps
  <2>2. CASE \E e \in Entries : SelectUser(e) \/ SelectRole(e) \/ SelectAccess(e) \/ StartEdit(e)
    BY <2>1, <2>2 DEF SelectUser, SelectRole, SelectAccess, StartEdit, Select
  <2>3. CASE DiscardUser
    <3>1. chosen \in Entries
      BY <2>3 DEF DiscardUser, Dirty, Existing
    <3> QED
      BY <2>1, <2>3, <3>1 DEF DiscardUser
  <2>4. ASSUME NEW n \in EntryNames, NEW mark \in BOOLEAN, Edit(n, mark)
        PROVE  <1>3
    BY <2>4 DEF Edit, PagesInv, PageTypes, EntryType, FilledInv
  <2>5. CASE \E n \in EntryNames : (\E mark \in BOOLEAN : EditUser(n, mark)) \/ EditRole(n) \/ EditRouter(n)
    <3>1. draft.mark \in BOOLEAN
      BY DEF PagesInv, PageTypes, EntryType
    <3> QED
      BY <2>4, <2>5, <3>1 DEF EditUser, EditRole, EditRouter
  <2>6. CASE \E parts \in SUBSET Parts : PickMenus(parts) \/ PickRouters(parts)
    BY <2>6 DEF PickMenus, PickRouters, PickParts, PagesInv, PageTypes, EntryType, FilledInv
  <2>7. CASE DiscardMenus \/ DiscardRouters
    <3>1. /\ draft' = [draft EXCEPT !.parts = base]
          /\ filled' = [filled EXCEPT !.parts = filled.base]
          /\ UNCHANGED <<chosen, base, switched>>
      BY <2>7 DEF DiscardMenus, DiscardRouters, DiscardParts
    <3> QED
      BY <3>1 DEF PagesInv, PageTypes, EntryType, FilledInv
  <2> QED
    BY <2>2, <2>3, <2>5, <2>6, <2>7 DEF Administrator
<1> QED
  BY <1>1, <1>2, <1>3 DEF PagesInv, PageTypes

-----------------------------------------------------------------------------
(* A request comes to the server.                                              *)
LEMMA BeginKeeps ==
  ASSUME PagesInv, NEW a \in Asks, ask[a].pc = "idle",
         NEW r \in AskType, r.pc = "write", ~r.older, r.op = "create" => kind # "access" /\ r.value.parts = {},
         ask' = [ask EXCEPT ![a] = r],
         UNCHANGED <<kind, listing, behind, stored, meant, disturbed>>
  PROVE  ask' \in [Asks -> AskType] /\ ListInv' /\ PartsInv'
<1>1. /\ ask' \in [Asks -> AskType] /\ ask'[a] = r
      /\ \A x \in Asks : x # a => ask'[x] = ask[x]
  BY DEF PagesInv, PageTypes
<1>2. \A x \in Asks : (Will(x)' <=> Will(x)) /\ (Comes(x)' <=> Comes(x))
  BY <1>1 DEF Will, Comes
<1>3. ListInv'
  <2>1. \A x \in Asks : ask'[x].older => ask'[x].pc = "show"
    BY <1>1 DEF PagesInv, ListInv
  <2>2. ASSUME NEW x \in Asks, Comes(x)'
        PROVE  ask'[x].seen = stored' \/ \E b \in Asks : Will(b)'
    <3>1. Comes(x) /\ x # a
      BY <1>1, <1>2, <2>2 DEF Comes
    <3> QED
      BY <1>1, <1>2, <3>1 DEF PagesInv, ListInv
  <2>3. ~behind' => listing' = stored' \/ \E b \in Asks : Will(b)' \/ Comes(b)'
    BY <1>2 DEF PagesInv, ListInv
  <2> QED
    BY <2>1, <2>2, <2>3 DEF ListInv
<1>4. PartsInv'
  <2>1. ASSUME NEW e PROVE Filling(e)' = Filling(e)
    BY <1>1 DEF Filling
  <2>2. \A x \in Asks : /\ ask'[x].pc = "fill" => kind' = "access" /\ ask'[x].entry \in Entries
                        /\ ask'[x].op = "create" => kind' # "access" /\ ask'[x].value.parts = {}
    BY <1>1 DEF PagesInv, PartsInv
  <2>3. ASSUME NEW e \in Entries \ disturbed', NEW x \in Filling(e)'
        PROVE  /\ stored'[e].parts = {} /\ meant'[e] = ask'[x].value.parts
               /\ Filling(e)' = {x}
    <3>1. x \in Filling(e) /\ ask'[x] = ask[x]
      BY <1>1, <2>1, <2>3 DEF Filling
    <3> QED
      BY <2>1, <3>1 DEF PagesInv, PartsInv
  <2>4. ASSUME NEW e \in Entries \ disturbed', e \in Existing(stored'), Filling(e)' = {}
        PROVE  stored'[e].parts = meant'[e]
    BY <2>1, <2>4 DEF PagesInv, PartsInv
  <2> QED
    BY <2>2, <2>3, <2>4 DEF PartsInv
<1> QED
  BY <1>1, <1>3, <1>4

LEMMA RequestKeeps ==
  ASSUME PagesInv, NEW a \in Asks, NEW e \in Entries \cup {Nothing}, NEW v \in EntryType,
         NEW op \in {"create", "details", "parts", "toggle", "remove"},
         op = "create" => kind # "access" /\ v.parts = {}, Request(a, op, e, v)
  PROVE  /\ ask' \in [Asks -> AskType] /\ ListInv' /\ PartsInv'
         /\ UNCHANGED <<kind, listing, behind, stored, meant, disturbed>>
<1> DEFINE r == [AtRest EXCEPT !.pc = "write", !.op = op, !.entry = e, !.value = v]
<1>1. r \in AskType /\ r.pc = "write" /\ ~r.older /\ r.op = op /\ r.value = v
  BY DEF AtRest, AskType, NoEntry, Fresh, EntryType
<1>2. /\ ask[a].pc = "idle" /\ ask' = [ask EXCEPT ![a] = r]
      /\ UNCHANGED <<kind, listing, behind, stored, meant, disturbed>>
  BY DEF Request, listShown, database
<1> HIDE DEF r
<1> QED
  BY <1>1, <1>2, BeginKeeps

LEMMA SubmitsKeep ==
  ASSUME PagesInv, NEW a \in Asks, Submits(a)
  PROVE  PagesInv'
<1>1. ASSUME NEW e \in Entries \cup {Nothing}, NEW v \in EntryType,
             NEW op \in {"create", "details", "parts", "toggle", "remove"},
             op = "create" => kind # "access" /\ v.parts = {}, Request(a, op, e, v),
             chosen' \in {chosen, Nothing}, UNCHANGED <<draft, base, filled, switched>>
      PROVE  PagesInv'
  <2>1. /\ ask' \in [Asks -> AskType] /\ ListInv' /\ PartsInv'
        /\ UNCHANGED <<kind, listing, behind, stored, meant, disturbed>>
    BY <1>1, RequestKeeps
  <2>2. PageTypes'
    BY <1>1, <2>1 DEF PagesInv, PageTypes
  <2>3. FilledInv'
    BY <1>1 DEF PagesInv, FilledInv
  <2> QED
    BY <2>1, <2>2, <2>3 DEF PagesInv
<1>2. ASSUME NEW e \in Entries \cup {Nothing}, NEW v \in EntryType,
             NEW op \in {"create", "details", "parts", "toggle", "remove"},
             op = "create" => kind # "access" /\ v.parts = {}, Asked(a, op, e, v)
      PROVE  PagesInv'
  BY <1>1, <1>2 DEF Asked, drafting
<1>3. chosen \in Entries \cup {Nothing} /\ draft \in EntryType /\ NoEntry \in EntryType
      /\ Nothing \in Entries \cup {Nothing} /\ \A e \in Entries : e \in Entries \cup {Nothing}
  BY Values DEF PagesInv, PageTypes
<1>4. ASSUME NEW n \in EntryNames, CreateUser(a, n) \/ CreateRole(a, n)
      PROVE  PagesInv'
  BY <1>2, <1>3, <1>4, Values DEF CreateUser, CreateRole
<1>5. ASSUME NEW n \in EntryNames, AddRouter(a, n)
      PROVE  PagesInv'
  BY <1>1, <1>3, <1>5, Values DEF AddRouter
<1>6. CASE SaveUser(a) \/ SaveRole(a) \/ SaveRouter(a)
  BY <1>2, <1>3, <1>6 DEF SaveUser, SaveRole, SaveRouter
<1>7. CASE SaveMenus(a) \/ SaveAccess(a)
  BY <1>2, <1>3, <1>7 DEF SaveMenus, SaveAccess
<1>8. CASE DeleteUser(a) \/ DeleteRole(a)
  BY <1>2, <1>3, <1>8 DEF DeleteUser, DeleteRole
<1>9. ASSUME NEW e \in Entries, ToggleRouter(a, e) \/ DeleteRouter(a, e)
      PROVE  PagesInv'
  BY <1>2, <1>3, <1>9 DEF ToggleRouter, DeleteRouter
<1> QED
  BY <1>4, <1>5, <1>6, <1>7, <1>8, <1>9 DEF Submits

LEMMA OtherAssignKeeps ==
  ASSUME PagesInv, NEW a \in Asks, NEW e \in Entries, NEW parts \in SUBSET Parts,
         OtherAssigns(a, e, parts)
  PROVE  PagesInv'
<1> DEFINE v == [Fresh(Nothing, FALSE) EXCEPT !.parts = parts]
           r == [AtRest EXCEPT !.pc = "write", !.op = "other", !.entry = e, !.value = v]
<1>1. v \in EntryType
  BY Values
<1> HIDE DEF v
<1>2. r \in AskType /\ r.pc = "write" /\ ~r.older /\ r.op = "other"
  BY <1>1 DEF AtRest, AskType, NoEntry, Fresh, EntryType
<1>3. /\ ask[a].pc = "idle" /\ ask' = [ask EXCEPT ![a] = r]
      /\ UNCHANGED <<kind, listing, behind, stored, meant, disturbed, chosen, draft, base,
                     filled, switched>>
  BY DEF OtherAssigns, listShown, database, drafting, v
<1> HIDE DEF r
<1>4. ask' \in [Asks -> AskType] /\ ListInv' /\ PartsInv'
  BY <1>2, <1>3, BeginKeeps
<1> QED
  BY <1>3, <1>4 DEF PagesInv, PageTypes, FilledInv

-----------------------------------------------------------------------------
(* The server, in the order of its queries.                                     *)
LEMMA ProceedsIs ==
  ASSUME PageTypes, NEW a \in Asks, NEW r \in AskType, NEW unseen \in BOOLEAN,
         Proceeds(a, r, unseen)
  PROVE  /\ ask' \in [Asks -> AskType] /\ ask'[a] = r
         /\ \A x \in Asks : x # a =>
               ask'[x] = [ask[x] EXCEPT !.older = @ \/ (unseen /\ ask[x].pc = "show")]
         /\ behind' = (behind \/ unseen)
         /\ UNCHANGED <<kind, listing, chosen, draft, base, filled, switched>>
<1>1. ask \in [Asks -> AskType]
  BY DEF PageTypes
<1>2. ASSUME NEW x \in Asks
      PROVE  [ask[x] EXCEPT !.older = @ \/ (unseen /\ ask[x].pc = "show")] \in AskType
  BY <1>1 DEF AskType
<1> QED
  BY <1>1, <1>2 DEF Proceeds, listShown, drafting

(* Another request as it was, or made old.                                      *)
Aged(x) ==
    /\ ask'[x].pc = ask[x].pc /\ ask'[x].op = ask[x].op /\ ask'[x].entry = ask[x].entry
    /\ ask'[x].value = ask[x].value /\ ask'[x].seen = ask[x].seen
    /\ ask[x].older => ask'[x].older
    /\ ask'[x].older => ask[x].older \/ ask[x].pc = "show"

LEMMA ProceedsAges ==
  ASSUME PageTypes, NEW a \in Asks, NEW r \in AskType, NEW unseen \in BOOLEAN,
         Proceeds(a, r, unseen)
  PROVE  \A x \in Asks : x # a =>
            /\ Aged(x)
            /\ unseen /\ ask[x].pc = "show" => ask'[x].older
            /\ ~unseen => ask'[x].older = ask[x].older
<1> SUFFICES ASSUME NEW x \in Asks, x # a
             PROVE  /\ Aged(x)
                    /\ unseen /\ ask[x].pc = "show" => ask'[x].older
                    /\ ~unseen => ask'[x].older = ask[x].older
  OBVIOUS
<1>1. ask[x] \in AskType /\ ask'[x] = [ask[x] EXCEPT !.older = @ \/ (unseen /\ ask[x].pc = "show")]
  BY ProceedsIs DEF PageTypes
<1> QED
  BY <1>1 DEF AskType, Aged

(* A write is followed by a load, or makes the lists there are old.             *)
LEMMA ProceedsLists ==
  ASSUME PagesInv, NEW a \in Asks, NEW r \in AskType, NEW unseen \in BOOLEAN,
         Proceeds(a, r, unseen), ask[a].pc # "show", r.pc # "show", ~r.older,
         \/ unseen
         \/ r.op # "other" /\ r.pc \in {"fill", "answer", "load"}
         \/ stored' = stored /\ ~Will(a)
  PROVE  ListInv'
<1>1. /\ ask'[a] = r /\ behind' = (behind \/ unseen) /\ listing' = listing
      /\ \A x \in Asks : x # a => Aged(x) /\ (unseen /\ ask[x].pc = "show" => ask'[x].older)
                                  /\ (~unseen => ask'[x].older = ask[x].older)
  BY ProceedsIs, ProceedsAges DEF PagesInv
<1>2. \A x \in Asks : ask'[x].older => ask'[x].pc = "show"
  BY <1>1 DEF PagesInv, ListInv, Aged
<1>3. ASSUME NEW x \in Asks, Comes(x)'
      PROVE  Comes(x) /\ x # a /\ ask'[x].seen = ask[x].seen /\ ~unseen
  BY <1>1, <1>3 DEF Comes, Aged
<1>4. CASE unseen
  BY <1>1, <1>2, <1>3, <1>4 DEF ListInv
<1>5. CASE r.op # "other" /\ r.pc \in {"fill", "answer", "load"}
  <2>1. Will(a)'
    BY <1>1, <1>5 DEF Will
  <2> QED
    BY <1>2, <2>1 DEF ListInv
<1>6. CASE stored' = stored /\ ~Will(a) /\ ~unseen
  <2>1. \A x \in Asks : Will(x) => Will(x)'
    BY <1>1, <1>6 DEF Will, Aged
  <2>2. \A x \in Asks : Comes(x) => Comes(x)'
    BY <1>1, <1>6 DEF Comes, Aged
  <2>3. \A x \in Asks : Comes(x)' => ask'[x].seen = stored' \/ \E b \in Asks : Will(b)'
    BY <1>3, <1>6, <2>1 DEF PagesInv, ListInv
  <2>4. ~behind' => listing' = stored' \/ \E b \in Asks : Will(b)' \/ Comes(b)'
    BY <1>1, <1>6, <2>1, <2>2 DEF PagesInv, ListInv
  <2> QED
    BY <1>2, <2>3, <2>4 DEF ListInv
<1> QED
  BY <1>4, <1>5, <1>6

(* A request that goes on or ends without touching the parts of any entry.      *)
LEMMA ProceedsParts ==
  ASSUME PagesInv, NEW a \in Asks, NEW r \in AskType, NEW unseen \in BOOLEAN,
         Proceeds(a, r, unseen), ask[a].pc # "fill", r.pc # "fill",
         r.op = "create" => kind # "access" /\ r.value.parts = {}, disturbed' = disturbed,
         \A e \in Entries \ disturbed :
            Filling(e) # {} => stored'[e].parts = stored[e].parts /\ meant'[e] = meant[e],
         \A e \in Entries \ disturbed : e \in Existing(stored') /\ Filling(e) = {} =>
            stored'[e].parts = meant'[e]
  PROVE  PartsInv'
<1>1. /\ ask'[a] = r /\ kind' = kind
      /\ \A x \in Asks : x # a => Aged(x)
  BY ProceedsIs, ProceedsAges DEF PagesInv
<1>2. ASSUME NEW e PROVE Filling(e)' = Filling(e)
  BY <1>1 DEF Filling, Aged
<1>3. \A x \in Asks : /\ ask'[x].pc = "fill" => kind' = "access" /\ ask'[x].entry \in Entries
                      /\ ask'[x].op = "create" => kind' # "access" /\ ask'[x].value.parts = {}
  BY <1>1 DEF PagesInv, PartsInv, Aged
<1>4. ASSUME NEW e \in Entries \ disturbed', NEW x \in Filling(e)'
      PROVE  /\ stored'[e].parts = {} /\ meant'[e] = ask'[x].value.parts
             /\ Filling(e)' = {x}
  <2>1. x \in Filling(e) /\ ask'[x].value = ask[x].value
    BY <1>1, <1>2, <1>4 DEF Filling, Aged
  <2> QED
    BY <1>2, <2>1 DEF PagesInv, PartsInv
<1>5. ASSUME NEW e \in Entries \ disturbed', e \in Existing(stored'), Filling(e)' = {}
      PROVE  stored'[e].parts = meant'[e]
  BY <1>2, <1>5
<1> QED
  BY <1>3, <1>4, <1>5 DEF PartsInv

LEMMA ServerTypes ==
  ASSUME PagesInv, NEW a \in Asks, NEW r \in AskType, NEW unseen \in BOOLEAN,
         Proceeds(a, r, unseen), stored' \in [Entries -> EntryType],
         meant' \in [Entries -> SUBSET Parts], disturbed' \in SUBSET Entries
  PROVE  PageTypes' /\ FilledInv'
BY ProceedsIs DEF PagesInv, PageTypes, FilledInv

LEMMA CreateKeeps ==
  ASSUME PagesInv, NEW a \in Asks, DoCreate(a)
  PROVE  PagesInv'
<1>1. PICK e \in Entries \ Existing(stored) :
         /\ Puts(a, e, ask[a].value, Written(a))
         /\ meant' = [meant EXCEPT ![e] = {}]
  BY DEF DoCreate
<1> DEFINE r == [Written(a) EXCEPT !.entry = e]
<1>2. ask[a] \in AskType /\ ask[a].pc = "write" /\ ask[a].op = "create" /\ disturbed' = disturbed
      /\ kind # "access" /\ ~ask[a].older
  BY DEF DoCreate, PagesInv, PageTypes, PartsInv, ListInv
<1>3. r \in AskType /\ r.pc = "answer" /\ r.op = "create" /\ ~r.older
  BY <1>2 DEF AskType, Written
<1>4. Proceeds(a, r, FALSE) /\ stored' = [stored EXCEPT ![e] = ask[a].value]
  <2>1. Written(a).op # "other"
    BY <1>2 DEF Written, AskType
  <2> QED
    BY <1>1, <2>1 DEF Puts
<1> HIDE DEF r
<1>5. stored' \in [Entries -> EntryType] /\ meant' \in [Entries -> SUBSET Parts]
  BY <1>1, <1>2, <1>4 DEF PagesInv, PageTypes, AskType
<1>6. PageTypes' /\ FilledInv'
  BY <1>2, <1>3, <1>4, <1>5, ServerTypes DEF PagesInv, PageTypes
<1>7. ListInv'
  BY <1>2, <1>3, <1>4, ProceedsLists
<1>8. PartsInv'
  <2>1. \A d \in Entries : Filling(d) = {}
    BY <1>2 DEF Filling, PagesInv, PartsInv
  <2>2. ask[a].value.parts = {} /\ r.value = ask[a].value
    BY <1>2 DEF PagesInv, PartsInv, r, Written, AskType
  <2>3. \A d \in Entries \ disturbed : d \in Existing(stored') => stored'[d].parts = meant'[d]
    <3>1. \A d \in Entries : d # e => stored'[d] = stored[d] /\ meant'[d] = meant[d]
      BY <1>1, <1>4 DEF PagesInv, PageTypes
    <3>2. stored'[e].parts = {} /\ meant'[e] = {}
      BY <1>1, <1>4, <2>2 DEF PagesInv, PageTypes
    <3>3. \A d \in Entries : d # e /\ d \in Existing(stored') => d \in Existing(stored)
      BY <3>1 DEF Existing
    <3> QED
      BY <2>1, <3>1, <3>2, <3>3 DEF PagesInv, PartsInv
  <2> QED
    BY <1>2, <1>3, <1>4, <2>1, <2>2, <2>3, ProceedsParts
<1> QED
  BY <1>6, <1>7, <1>8 DEF PagesInv

LEMMA WriteKeeps ==
  ASSUME PagesInv, NEW a \in Asks, DoWrite(a)
  PROVE  PagesInv'
<1> DEFINE e == ask[a].entry
           v == Done(e, ask[a])
           r == [Written(a) EXCEPT !.entry = e]
<1>1. /\ ask[a] \in AskType /\ ask[a].pc = "write" /\ ~ask[a].older /\ disturbed' = disturbed
      /\ ask[a].op \in {"details", "toggle", "remove", "parts"}
      /\ e \in Existing(stored) /\ e \in Entries
      /\ ask[a].op = "parts" => kind = "roles"
      /\ meant' = IF ask[a].op = "parts" THEN [meant EXCEPT ![e] = ask[a].value.parts] ELSE meant
      /\ Puts(a, e, v, Written(a))
  BY DEF DoWrite, CanDo, Existing, PagesInv, PageTypes, ListInv
<1>2. stored[e] \in EntryType
  BY <1>1 DEF PagesInv, PageTypes
<1>3. /\ v \in EntryType
      /\ ask[a].op = "parts" => v.parts = ask[a].value.parts
      /\ ask[a].op \in {"details", "toggle"} => v.parts = stored[e].parts
      /\ ask[a].op = "remove" => v = NoEntry
  <2>1. ask[a].value \in EntryType
    BY <1>1 DEF AskType
  <2>2. CASE ask[a].op = "details"
    BY <1>2, <2>1, <2>2 DEF Done, EntryType
  <2>3. CASE ask[a].op = "toggle"
    BY <1>2, <2>1, <2>3 DEF Done, EntryType
  <2>4. CASE ask[a].op = "parts"
    BY <1>2, <2>1, <2>4 DEF Done, EntryType
  <2>5. CASE ask[a].op = "remove"
    BY <2>5, Values DEF Done
  <2> QED
    BY <1>1, <2>2, <2>3, <2>4, <2>5
<1> HIDE DEF v
<1>4. r \in AskType /\ r.pc = "answer" /\ r.op = ask[a].op /\ r.op # "other" /\ ~r.older
  BY <1>1 DEF AskType, Written
<1>5. Proceeds(a, r, FALSE) /\ stored' = [stored EXCEPT ![e] = v]
  <2>1. Written(a).op # "other"
    BY <1>1 DEF Written, AskType
  <2> QED
    BY <1>1, <2>1 DEF Puts
<1> HIDE DEF r
<1>6. stored' \in [Entries -> EntryType] /\ meant' \in [Entries -> SUBSET Parts]
  <2>1. ask[a].value.parts \in SUBSET Parts
    BY <1>1 DEF AskType, EntryType
  <2> QED
    BY <1>1, <1>3, <1>5, <2>1 DEF PagesInv, PageTypes
<1>7. PageTypes' /\ FilledInv'
  BY <1>1, <1>4, <1>5, <1>6, ServerTypes DEF PagesInv, PageTypes
<1>8. ListInv'
  BY <1>1, <1>4, <1>5, ProceedsLists
<1>9. PartsInv'
  <2>1. \A d \in Entries : d # e => stored'[d] = stored[d] /\ meant'[d] = meant[d]
    BY <1>1, <1>5 DEF PagesInv, PageTypes
  <2>2. stored'[e] = v /\ meant'[e] = IF ask[a].op = "parts" THEN ask[a].value.parts ELSE meant[e]
    BY <1>1, <1>5 DEF PagesInv, PageTypes
  <2>3. CASE ask[a].op = "parts"
    <3>1. \A d \in Entries : Filling(d) = {}
      BY <1>1, <2>3 DEF Filling, PagesInv, PartsInv
    <3>2. \A d \in Entries \ disturbed : d \in Existing(stored') => stored'[d].parts = meant'[d]
      <4>1. \A d \in Entries : d # e /\ d \in Existing(stored') => d \in Existing(stored)
        BY <2>1 DEF Existing
      <4> QED
        BY <1>3, <2>1, <2>2, <2>3, <3>1, <4>1 DEF PagesInv, PartsInv
    <3> QED
      BY <1>1, <1>4, <1>5, <2>3, <3>1, <3>2, ProceedsParts
  <2>4. CASE ask[a].op \in {"details", "toggle"}
    <3>1. \A d \in Entries : stored'[d].parts = stored[d].parts /\ meant'[d] = meant[d]
      BY <1>3, <2>1, <2>2, <2>4
    <3>2. \A d \in Entries : d \in Existing(stored') => d \in Existing(stored)
      BY <1>1, <2>1 DEF Existing
    <3>3. \A d \in Entries \ disturbed : d \in Existing(stored') /\ Filling(d) = {} => stored'[d].parts = meant'[d]
      BY <3>1, <3>2 DEF PagesInv, PartsInv
    <3> QED
      BY <1>1, <1>4, <1>5, <2>4, <3>1, <3>3, ProceedsParts
  <2>5. CASE ask[a].op = "remove"
    <3>1. v = NoEntry /\ v.parts = {} /\ e \notin Existing(stored') /\ meant' = meant
      BY <1>1, <1>3, <2>2, <2>5, Values DEF Existing
    <3>2. \A d \in Entries \ disturbed :
             Filling(d) # {} => stored'[d].parts = stored[d].parts /\ meant'[d] = meant[d]
      <4>1. e \notin disturbed /\ Filling(e) # {} => stored[e].parts = {}
        BY <1>1 DEF PagesInv, PartsInv
      <4> QED
        BY <2>1, <2>2, <3>1, <4>1
    <3>3. \A d \in Entries \ disturbed : d \in Existing(stored') /\ Filling(d) = {} => stored'[d].parts = meant'[d]
      <4>1. \A d \in Entries : d \in Existing(stored') => d # e /\ d \in Existing(stored)
        BY <2>1, <3>1 DEF Existing
      <4> QED
        BY <2>1, <3>1, <4>1 DEF PagesInv, PartsInv
    <3> QED
      BY <1>1, <1>4, <1>5, <2>5, <3>2, <3>3, ProceedsParts
  <2> QED
    BY <1>1, <2>3, <2>4, <2>5
<1> QED
  BY <1>7, <1>8, <1>9 DEF PagesInv

LEMMA ClearKeeps ==
  ASSUME PagesInv, NEW a \in Asks, ClearParts(a)
  PROVE  PagesInv'
<1>e. PICK e \in Entries : ask[a].entry = e
  BY DEF ClearParts, CanDo, Existing
<1> DEFINE v == [stored[e] EXCEPT !.parts = {}]
           p == IF ask[a].value.parts = {} THEN "answer" ELSE "fill"
           q == [ask[a] EXCEPT !.pc = p]
           r == [q EXCEPT !.entry = e]
           unseen == ask[a].op = "other"
<1>1. /\ ask[a] \in AskType /\ ask[a].pc = "write" /\ ~ask[a].older /\ kind = "access"
      /\ e \in Existing(stored) /\ e \in Entries /\ stored[e] \in EntryType
      /\ meant' = [meant EXCEPT ![e] = ask[a].value.parts]
      /\ Puts(a, e, v, q)
      /\ disturbed' = IF Filling(e) # {} THEN disturbed \cup {e} ELSE disturbed
  BY <1>e DEF ClearParts, CanDo, Existing, PagesInv, PageTypes, ListInv
<1>2. v \in EntryType /\ v.parts = {}
  BY <1>1 DEF EntryType
<1>3. r \in AskType /\ r.pc = p /\ r.op = ask[a].op /\ r.value = ask[a].value /\ r.entry = e
      /\ ~r.older /\ q.op = ask[a].op /\ p \in {"answer", "fill"}
  BY <1>1 DEF AskType
<1>4. ask[a].value.parts \in SUBSET Parts /\ (p = "answer" <=> ask[a].value.parts = {})
  BY <1>1 DEF AskType, EntryType
<1>5. Proceeds(a, r, unseen) /\ stored' = [stored EXCEPT ![e] = v] /\ unseen \in BOOLEAN
  BY <1>1, <1>3 DEF Puts
<1> HIDE DEF v, p, q, r, unseen
<1>6. stored' \in [Entries -> EntryType] /\ meant' \in [Entries -> SUBSET Parts]
      /\ disturbed' \in SUBSET Entries
  BY <1>1, <1>2, <1>4, <1>5 DEF PagesInv, PageTypes
<1>7. PageTypes' /\ FilledInv'
  BY <1>3, <1>5, <1>6, ServerTypes
<1>8. ListInv'
  <2>1. unseen \/ (r.op # "other" /\ r.pc \in {"fill", "answer", "load"})
    BY <1>3 DEF unseen
  <2> QED
    BY <1>1, <1>3, <1>5, <2>1, ProceedsLists
<1>9. PartsInv'
  <2>1. /\ ask'[a] = r /\ kind' = kind
        /\ \A x \in Asks : x # a => Aged(x)
    BY <1>3, <1>5, ProceedsIs, ProceedsAges DEF PagesInv
  <2>2. \A x \in Asks : /\ ask'[x].pc = "fill" => kind' = "access" /\ ask'[x].entry \in Entries
                        /\ ask'[x].op = "create" => kind' # "access" /\ ask'[x].value.parts = {}
    BY <1>1, <1>3, <2>1 DEF PagesInv, PartsInv, Aged
  <2>3. \A d \in Entries : d # e => stored'[d] = stored[d] /\ meant'[d] = meant[d]
    BY <1>1, <1>5 DEF PagesInv, PageTypes
  <2>4. stored'[e].parts = {} /\ meant'[e] = ask[a].value.parts
    BY <1>1, <1>2, <1>5 DEF PagesInv, PageTypes
  <2>5. ASSUME NEW d, d # e PROVE Filling(d)' = Filling(d)
    BY <1>e, <1>1, <1>3, <2>1, <2>5 DEF Filling, Aged
  <2>6. e \notin disturbed' => Filling(e) = {} /\ Filling(e)' = IF p = "fill" THEN {a} ELSE {}
    <3>1. SUFFICES ASSUME Filling(e) = {}
                   PROVE  Filling(e)' = IF p = "fill" THEN {a} ELSE {}
      BY <1>1
    <3>2. \A x \in Asks : x # a => ~(ask'[x].pc = "fill" /\ ask'[x].entry = e)
      BY <2>1, <3>1 DEF Filling, Aged
    <3> QED
      BY <1>3, <2>1, <3>2 DEF Filling
  <2>7. ASSUME NEW d \in Entries \ disturbed', NEW x \in Filling(d)'
        PROVE  /\ stored'[d].parts = {} /\ meant'[d] = ask'[x].value.parts
               /\ Filling(d)' = {x}
    <3>1. CASE d = e
      <4>1. x = a /\ Filling(d)' = {x}
        BY <2>6, <2>7, <3>1
      <4> QED
        BY <1>3, <2>1, <2>4, <3>1, <4>1
    <3>2. CASE d # e
      <4>1. x \in Filling(d) /\ x # a /\ d \notin disturbed
        BY <1>1, <2>5, <2>7, <3>2 DEF Filling
      <4>2. ask'[x].value = ask[x].value
        BY <2>1, <4>1 DEF Aged, Filling
      <4> QED
        BY <2>3, <2>5, <3>2, <4>1, <4>2 DEF PagesInv, PartsInv
    <3> QED
      BY <3>1, <3>2
  <2>8. ASSUME NEW d \in Entries \ disturbed', d \in Existing(stored'), Filling(d)' = {}
        PROVE  stored'[d].parts = meant'[d]
    <3>1. CASE d = e
      BY <1>3, <1>4, <2>4, <2>6, <2>8, <3>1
    <3>2. CASE d # e
      BY <1>1, <2>3, <2>5, <2>8, <3>2 DEF PagesInv, PartsInv, Existing
    <3> QED
      BY <3>1, <3>2
  <2> QED
    BY <2>2, <2>7, <2>8 DEF PartsInv
<1> QED
  BY <1>7, <1>8, <1>9 DEF PagesInv

(* A request that was about to fill stops to be so.                             *)
LEMMA FillingEnds ==
  ASSUME PagesInv, NEW a \in Asks, ask[a].pc = "fill", ask'[a].pc # "fill",
         ask'[a].op = "create" => kind # "access" /\ ask'[a].value.parts = {}, kind' = kind,
         \A x \in Asks : x # a => Aged(x),
         NEW e \in Entries, ask[a].entry = e, disturbed \subseteq disturbed',
         \A d \in Entries : d # e => stored'[d] = stored[d] /\ meant'[d] = meant[d],
         e \notin disturbed' => stored'[e].parts = meant'[e]
  PROVE  PartsInv'
<1>1. \A x \in Asks : /\ ask'[x].pc = "fill" => kind' = "access" /\ ask'[x].entry \in Entries
                      /\ ask'[x].op = "create" => kind' # "access" /\ ask'[x].value.parts = {}
  BY DEF PagesInv, PartsInv, Aged
<1>2. ASSUME NEW d, d # e PROVE Filling(d)' = Filling(d)
  BY <1>2 DEF Filling, Aged
<1>3. e \notin disturbed => Filling(e)' = {}
  <2>1. SUFFICES ASSUME e \notin disturbed, NEW x \in Filling(e)' PROVE FALSE
    OBVIOUS
  <2>2. x # a /\ x \in Filling(e) /\ a \in Filling(e)
    BY <2>1 DEF Filling, Aged
  <2> QED
    BY <2>1, <2>2 DEF PagesInv, PartsInv
<1>4. ASSUME NEW d \in Entries \ disturbed', NEW x \in Filling(d)'
      PROVE  /\ stored'[d].parts = {} /\ meant'[d] = ask'[x].value.parts
             /\ Filling(d)' = {x}
  <2>1. d # e /\ d \notin disturbed
    BY <1>3, <1>4
  <2>2. x \in Filling(d) /\ x # a
    BY <1>2, <1>4, <2>1 DEF Filling
  <2>3. ask'[x].value = ask[x].value
    BY <2>2 DEF Aged, Filling
  <2> QED
    BY <1>2, <2>1, <2>2, <2>3 DEF PagesInv, PartsInv
<1>5. ASSUME NEW d \in Entries \ disturbed', d \in Existing(stored'), Filling(d)' = {}
      PROVE  stored'[d].parts = meant'[d]
  <2>1. CASE d = e
    BY <1>5, <2>1
  <2>2. CASE d # e
    BY <1>2, <1>5, <2>2 DEF PagesInv, PartsInv, Existing
  <2> QED
    BY <2>1, <2>2
<1> QED
  BY <1>1, <1>4, <1>5 DEF PartsInv

LEMMA FillPartsKeeps ==
  ASSUME PagesInv, NEW a \in Asks, FillParts(a)
  PROVE  PagesInv'
<1> DEFINE e == ask[a].entry
           v == [stored[e] EXCEPT !.parts = @ \cup ask[a].value.parts]
           r == [Written(a) EXCEPT !.entry = e]
           unseen == ask[a].op = "other"
<1>1. /\ ask[a] \in AskType /\ ask[a].pc = "fill" /\ ~ask[a].older
      /\ e \in Existing(stored) /\ e \in Entries /\ stored[e] \in EntryType
      /\ Puts(a, e, v, Written(a)) /\ meant' = meant /\ disturbed' = disturbed
  BY DEF FillParts, CanFill, CanDo, Existing, PagesInv, PageTypes, ListInv
<1>2. v \in EntryType /\ v.parts = stored[e].parts \cup ask[a].value.parts
  BY <1>1 DEF EntryType, AskType
<1>3. r \in AskType /\ r.pc = "answer" /\ r.op = ask[a].op /\ r.value = ask[a].value /\ ~r.older
      /\ Written(a).op = ask[a].op
  BY <1>1 DEF AskType, Written
<1>4. Proceeds(a, r, unseen) /\ stored' = [stored EXCEPT ![e] = v] /\ unseen \in BOOLEAN
  BY <1>1, <1>3 DEF Puts
<1> HIDE DEF v, r, unseen
<1>5. stored' \in [Entries -> EntryType] /\ meant' \in [Entries -> SUBSET Parts]
      /\ disturbed' \in SUBSET Entries
  BY <1>1, <1>2, <1>4 DEF PagesInv, PageTypes
<1>6. PageTypes' /\ FilledInv'
  BY <1>3, <1>4, <1>5, ServerTypes
<1>7. ListInv'
  <2>1. unseen \/ (r.op # "other" /\ r.pc \in {"fill", "answer", "load"})
    BY <1>3 DEF unseen
  <2> QED
    BY <1>1, <1>3, <1>4, <2>1, ProceedsLists
<1>8. PartsInv'
  <2>1. /\ ask'[a] = r /\ kind' = kind
        /\ \A x \in Asks : x # a => Aged(x)
    BY <1>3, <1>4, ProceedsIs, ProceedsAges DEF PagesInv
  <2>2. \A d \in Entries : d # e => stored'[d] = stored[d] /\ meant'[d] = meant[d]
    BY <1>1, <1>4 DEF PagesInv, PageTypes
  <2>3. e \notin disturbed => stored'[e].parts = meant'[e]
    <3>1. a \in Filling(e)
      BY <1>1 DEF Filling
    <3>2. e \notin disturbed => stored[e].parts = {} /\ meant[e] = ask[a].value.parts
      BY <1>1, <3>1 DEF PagesInv, PartsInv
    <3>3. stored'[e].parts = stored[e].parts \cup ask[a].value.parts
      BY <1>1, <1>2, <1>4 DEF PagesInv, PageTypes
    <3> QED
      BY <1>1, <3>2, <3>3
  <2>4. ask'[a].op = "create" => kind # "access" /\ ask'[a].value.parts = {}
    BY <1>1, <1>3, <2>1 DEF PagesInv, PartsInv
  <2> QED
    BY <1>1, <1>3, <2>1, <2>2, <2>3, <2>4, FillingEnds
<1> QED
  BY <1>6, <1>7, <1>8 DEF PagesInv

LEMMA OverKeepsParts ==
  ASSUME PagesInv, NEW a \in Asks, ask'[a] = AtRest, kind' = kind, GivesUp(a),
         \A x \in Asks : x # a => Aged(x)
  PROVE  PartsInv'
<1>1. ask'[a].pc = "idle" /\ ask'[a].op = "none"
  BY Values
<1>2. CASE ask[a].pc = "fill" /\ ask[a].entry \in Entries
  BY <1>1, <1>2, FillingEnds DEF GivesUp
<1>3. CASE ~(ask[a].pc = "fill" /\ ask[a].entry \in Entries)
  <2>1. ASSUME NEW d \in Entries PROVE Filling(d)' = Filling(d) /\ a \notin Filling(d)
    BY <1>1, <1>3, <2>1 DEF Filling, Aged
  <2>2. \A x \in Asks : /\ ask'[x].pc = "fill" => kind' = "access" /\ ask'[x].entry \in Entries
                        /\ ask'[x].op = "create" => kind' # "access" /\ ask'[x].value.parts = {}
    BY <1>1 DEF PagesInv, PartsInv, Aged
  <2>3. stored' = stored /\ meant' = meant /\ disturbed \subseteq disturbed'
    BY DEF GivesUp
  <2>4. ASSUME NEW d \in Entries \ disturbed', NEW x \in Filling(d)'
        PROVE  /\ stored'[d].parts = {} /\ meant'[d] = ask'[x].value.parts
               /\ Filling(d)' = {x}
    <3>1. x \in Filling(d) /\ ask'[x].value = ask[x].value
      BY <2>1, <2>4 DEF Filling, Aged
    <3> QED
      BY <2>1, <2>3, <2>4, <3>1 DEF PagesInv, PartsInv
  <2>5. ASSUME NEW d \in Entries \ disturbed', d \in Existing(stored'), Filling(d)' = {}
        PROVE  stored'[d].parts = meant'[d]
    BY <2>1, <2>3, <2>5 DEF PagesInv, PartsInv
  <2> QED
    BY <2>2, <2>4, <2>5 DEF PartsInv
<1> QED
  BY <1>2, <1>3

LEMMA RefuseKeeps ==
  ASSUME PagesInv, NEW a \in Asks, RefuseAsk(a)
  PROVE  PagesInv'
<1> DEFINE unseen == ask[a].pc = "fill"
<1>1. ask[a].pc \in {"write", "fill"} /\ GivesUp(a) /\ Proceeds(a, AtRest, unseen)
      /\ unseen \in BOOLEAN /\ (ask[a].pc = "fill" => ask[a].entry \in Entries \cup {Nothing})
  BY DEF RefuseAsk, PagesInv, PageTypes, AskType
<1>2. stored' = stored /\ meant' = meant /\ disturbed' \in SUBSET (Entries \cup {Nothing})
  BY <1>1 DEF GivesUp, PagesInv, PageTypes
<1>3. ask'[a] = AtRest /\ kind' = kind /\ \A x \in Asks : x # a => Aged(x)
  <2> HIDE DEF unseen
  <2> QED
    BY <1>1, Values, ProceedsIs, ProceedsAges DEF PagesInv
<1>4. unseen \/ (stored' = stored /\ ~Will(a))
  BY <1>1, <1>2 DEF Will
<1> HIDE DEF unseen
<1>5. ListInv'
  BY <1>1, <1>4, Values, ProceedsLists
<1>6. PartsInv'
  BY <1>1, <1>3, OverKeepsParts
<1>7. ask[a].pc = "fill" => ask[a].entry \in Entries
  BY DEF PagesInv, PartsInv
<1>8. PageTypes' /\ FilledInv'
  <2>1. disturbed' \in SUBSET Entries
    BY <1>1, <1>7 DEF GivesUp, PagesInv, PageTypes
  <2> QED
    BY <1>1, <1>2, <2>1, Values, ServerTypes DEF PagesInv, PageTypes
<1> QED
  BY <1>5, <1>6, <1>8 DEF PagesInv

LEMMA OtherAssignedKeeps ==
  ASSUME PagesInv, NEW a \in Asks, OtherAssigned(a)
  PROVE  PagesInv'
<1>1. ask[a].pc = "answer" /\ ask[a].op = "other" /\ Proceeds(a, AtRest, FALSE)
      /\ UNCHANGED <<stored, meant, disturbed>> /\ FALSE \in BOOLEAN
  BY DEF OtherAssigned, database
<1>2. ListInv'
  <2>1. stored' = stored /\ ~Will(a)
    BY <1>1 DEF Will
  <2> QED
    BY <1>1, <2>1, Values, ProceedsLists
<1>3. PartsInv'
  <2>1. ask'[a] = AtRest /\ kind' = kind /\ \A x \in Asks : x # a => Aged(x)
    BY <1>1, Values, ProceedsIs, ProceedsAges DEF PagesInv
  <2> QED
    BY <1>1, <2>1, OverKeepsParts DEF GivesUp
<1>4. PageTypes' /\ FilledInv'
  BY <1>1, Values, ServerTypes DEF PagesInv, PageTypes
<1> QED
  BY <1>2, <1>3, <1>4 DEF PagesInv

(* A failure makes every list on its way old.                                   *)
LEMMA SlipKeeps ==
  ASSUME PagesInv, NEW a \in Asks, Slip(a)
  PROVE  PagesInv'
<1> DEFINE lost == ask[a].pc # "write"
<1>1. /\ ask' = [x \in Asks |-> IF x = a THEN AtRest
                                ELSE [ask[x] EXCEPT !.older = @ \/ (lost /\ ask[x].pc = "show")]]
      /\ behind' = (behind \/ lost) /\ ask[a].pc # "idle" /\ GivesUp(a)
      /\ ask[a].pc \notin {"load", "show"} => listing' = listing
      /\ listing' \in {listing, [e \in Entries |-> NoEntry]}
      /\ UNCHANGED <<kind, chosen, draft, base, filled, switched>>
  BY DEF Slip, listShown, drafting
<1>2. ask \in [Asks -> AskType] /\ lost \in BOOLEAN
  BY DEF PagesInv, PageTypes
<1>3. ASSUME NEW x \in Asks, x # a
      PROVE  /\ ask'[x] \in AskType /\ Aged(x)
             /\ lost /\ ask[x].pc = "show" => ask'[x].older
             /\ ~lost => ask'[x].older = ask[x].older
  <2> HIDE DEF lost
  <2> QED
    BY <1>1, <1>2, <1>3 DEF AskType, Aged
<1>4. ask' \in [Asks -> AskType] /\ ask'[a] = AtRest
  BY <1>1, <1>2, <1>3, Values
<1>5. ask[a].pc = "fill" => ask[a].entry \in Entries
  BY DEF PagesInv, PartsInv
<1>6. PageTypes'
  <2>1. stored' \in [Entries -> EntryType] /\ meant' \in [Entries -> SUBSET Parts]
        /\ disturbed' \in SUBSET Entries
    BY <1>1, <1>5 DEF GivesUp, PagesInv, PageTypes
  <2>2. listing' \in [Entries -> EntryType] /\ behind' \in BOOLEAN
    BY <1>1, <1>2, Values DEF PagesInv, PageTypes
  <2> QED
    BY <1>1, <1>4, <2>1, <2>2 DEF PagesInv, PageTypes
<1>7. FilledInv'
  BY <1>1 DEF PagesInv, FilledInv
<1>8. PartsInv'
  BY <1>1, <1>3, <1>4, OverKeepsParts
<1>9. ListInv'
  <2>1. \A x \in Asks : ask'[x].older => ask'[x].pc = "show"
    BY <1>3, <1>4, Values DEF PagesInv, ListInv, Aged
  <2>2. ASSUME NEW x \in Asks, Comes(x)'
        PROVE  Comes(x) /\ x # a /\ ask'[x].seen = ask[x].seen /\ ~lost
    BY <1>3, <1>4, <2>2, Values DEF Comes, Aged
  <2>3. CASE lost
    BY <1>1, <2>1, <2>2, <2>3 DEF ListInv
  <2>4. CASE ~lost
    <3>1. ask[a].pc = "write" /\ listing' = listing /\ stored' = stored
      BY <1>1, <2>4 DEF GivesUp
    <3>2. \A x \in Asks : (Will(x) => Will(x)') /\ (Comes(x) => Comes(x)')
      BY <1>3, <2>4, <3>1 DEF Will, Comes, Aged
    <3> QED
      BY <1>1, <2>1, <2>2, <2>4, <3>1, <3>2 DEF PagesInv, ListInv
  <2> QED
    BY <2>3, <2>4
<1> QED
  BY <1>6, <1>7, <1>8, <1>9 DEF PagesInv

LEMMA OtherRemovesKeeps ==
  ASSUME PagesInv, NEW e \in Entries, OtherRemoves(e)
  PROVE  PagesInv'
<1>1. /\ stored' = [stored EXCEPT ![e] = NoEntry]
      /\ ask' = [x \in Asks |-> [ask[x] EXCEPT !.older = @ \/ ask[x].pc = "show"]]
      /\ behind' = TRUE
      /\ UNCHANGED <<kind, listing, chosen, draft, base, filled, switched, meant, disturbed>>
  BY DEF OtherRemoves, listShown, drafting
<1>2. ask \in [Asks -> AskType]
  BY DEF PagesInv, PageTypes
<1>3. ASSUME NEW x \in Asks
      PROVE  ask'[x] \in AskType /\ Aged(x) /\ (ask[x].pc = "show" => ask'[x].older)
  BY <1>1, <1>2, <1>3 DEF AskType, Aged
<1>4. ask' \in [Asks -> AskType]
  BY <1>1, <1>2, <1>3
<1>5. stored' \in [Entries -> EntryType]
  BY <1>1, Values DEF PagesInv, PageTypes
<1>6. PageTypes' /\ FilledInv'
  BY <1>1, <1>4, <1>5 DEF PagesInv, PageTypes, FilledInv
<1>7. ListInv'
  <2>1. \A x \in Asks : ~Comes(x)' /\ (ask'[x].older => ask'[x].pc = "show")
    BY <1>3 DEF Comes, PagesInv, ListInv, Aged
  <2> QED
    BY <1>1, <2>1 DEF ListInv
<1>8. PartsInv'
  <2>1. ASSUME NEW d PROVE Filling(d)' = Filling(d)
    BY <1>3 DEF Filling, Aged
  <2>2. \A x \in Asks : /\ ask'[x].pc = "fill" => kind' = "access" /\ ask'[x].entry \in Entries
                        /\ ask'[x].op = "create" => kind' # "access" /\ ask'[x].value.parts = {}
    BY <1>1, <1>3 DEF PagesInv, PartsInv, Aged
  <2>3. stored'[e] = NoEntry /\ \A d \in Entries : d # e => stored'[d] = stored[d]
    BY <1>1 DEF PagesInv, PageTypes
  <2>4. ASSUME NEW d \in Entries \ disturbed', NEW x \in Filling(d)'
        PROVE  /\ stored'[d].parts = {} /\ meant'[d] = ask'[x].value.parts
               /\ Filling(d)' = {x}
    <3>1. x \in Filling(d) /\ ask'[x].value = ask[x].value /\ d \in Entries \ disturbed
      BY <1>1, <1>3, <2>1, <2>4 DEF Filling, Aged
    <3> QED
      BY <1>1, <2>1, <2>3, <3>1, Values DEF PagesInv, PartsInv
  <2>5. ASSUME NEW d \in Entries \ disturbed', d \in Existing(stored'), Filling(d)' = {}
        PROVE  stored'[d].parts = meant'[d]
    <3>1. d # e /\ d \in Existing(stored) /\ d \in Entries \ disturbed
      BY <1>1, <2>3, <2>5 DEF Existing
    <3> QED
      BY <1>1, <2>1, <2>3, <2>5, <3>1 DEF PagesInv, PartsInv
  <2> QED
    BY <2>2, <2>4, <2>5 DEF PartsInv
<1> QED
  BY <1>6, <1>7, <1>8 DEF PagesInv

-----------------------------------------------------------------------------
(* The page when it is answered, and the list that it loads.                    *)
LEMMA PartsStay ==
  ASSUME PagesInv, UNCHANGED <<kind, stored, meant, disturbed>>,
         \A x \in Asks : /\ ask'[x].pc = "fill" <=> ask[x].pc = "fill"
                         /\ ask'[x].op = ask[x].op \/ ask'[x].op # "create"
                         /\ ask[x].pc = "fill" \/ ask'[x].op = "create" =>
                               ask'[x].entry = ask[x].entry /\ ask'[x].value = ask[x].value
  PROVE  PartsInv'
<1>1. ASSUME NEW d PROVE Filling(d)' = Filling(d)
  BY DEF Filling
<1>2. \A x \in Asks : /\ ask'[x].pc = "fill" => kind' = "access" /\ ask'[x].entry \in Entries
                      /\ ask'[x].op = "create" => kind' # "access" /\ ask'[x].value.parts = {}
  BY DEF PagesInv, PartsInv
<1>3. ASSUME NEW d \in Entries \ disturbed', NEW x \in Filling(d)'
      PROVE  /\ stored'[d].parts = {} /\ meant'[d] = ask'[x].value.parts
             /\ Filling(d)' = {x}
  <2>1. x \in Filling(d) /\ ask'[x].value = ask[x].value
    BY <1>1, <1>3 DEF Filling
  <2> QED
    BY <1>1, <2>1 DEF PagesInv, PartsInv
<1>4. ASSUME NEW d \in Entries \ disturbed', d \in Existing(stored'), Filling(d)' = {}
      PROVE  stored'[d].parts = meant'[d]
  BY <1>1, <1>4 DEF PagesInv, PartsInv
<1> QED
  BY <1>2, <1>3, <1>4 DEF PartsInv

LEMMA AnsweredKeeps ==
  ASSUME PagesInv, NEW a \in Asks, Answered(a)
  PROVE  PagesInv'
<1>1. /\ ask[a] \in AskType /\ ask[a].pc = "answer" /\ ask[a].op # "other" /\ ~ask[a].older
      /\ ask' = [ask EXCEPT ![a].pc = "load"]
      /\ UNCHANGED <<kind, listing, draft, behind, stored, meant, disturbed>>
  BY DEF Answered, database, PagesInv, PageTypes, ListInv
<1>2. /\ ask'[a] = [ask[a] EXCEPT !.pc = "load"] /\ \A x \in Asks : x # a => ask'[x] = ask[x]
      /\ ask' \in [Asks -> AskType]
  BY <1>1 DEF PagesInv, PageTypes, AskType
<1>3. /\ ask'[a].pc = "load" /\ ask'[a].op = ask[a].op /\ ask'[a].entry = ask[a].entry
      /\ ask'[a].value = ask[a].value /\ ~ask'[a].older
  BY <1>1, <1>2 DEF AskType
<1>4. PageTypes'
  <2>1. ask[a].value.parts \in SUBSET Parts /\ ask[a].entry \in Entries \cup {Nothing}
    BY <1>1 DEF AskType, EntryType
  <2>2. base' \in SUBSET Parts /\ chosen' \in Entries \cup {Nothing}
    BY <2>1 DEF Answered, PagesInv, PageTypes
  <2>3. switched' \in BOOLEAN
    BY DEF Answered, PagesInv, PageTypes
  <2>4. filled' \in [details : Entries \cup {Nothing}, parts : Entries \cup {Nothing},
                     base : Entries \cup {Nothing}]
    BY <2>1 DEF Answered, PagesInv, PageTypes
  <2> QED
    BY <1>1, <1>2, <2>2, <2>3, <2>4 DEF PagesInv, PageTypes
<1>5. FilledInv'
  <2> SUFFICES ASSUME chosen' # Nothing
               PROVE  filled'.details = chosen' /\ (switched' \/ (filled'.parts = chosen' /\ filled'.base = chosen'))
    BY DEF FilledInv
  <2>1. chosen' = chosen /\ chosen # Nothing
    BY DEF Answered
  <2>2. filled.details = chosen /\ (switched \/ (filled.parts = chosen /\ filled.base = chosen))
    BY <2>1 DEF PagesInv, FilledInv
  <2>3. CASE ask[a].op = "parts"
    <3>1. filled' = [filled EXCEPT !.base = ask[a].entry]
          /\ switched' = (switched \/ (chosen # ask[a].entry))
      BY <2>3 DEF Answered
    <3> QED
      BY <2>1, <2>2, <3>1 DEF PagesInv, PageTypes
  <2>4. CASE ask[a].op # "parts"
    <3>1. filled' = filled /\ (switched => switched')
      BY <2>4 DEF Answered
    <3> QED
      BY <2>1, <2>2, <3>1
  <2> QED
    BY <2>3, <2>4
<1>6. ListInv'
  <2>1. ASSUME NEW x \in Asks, ask'[x].older
        PROVE  ask'[x].pc = "show"
    <3>1. x # a
      BY <2>1, <1>3
    <3>2. ask'[x] = ask[x]
      BY <3>1, <1>2
    <3> QED
      BY <2>1, <3>2 DEF PagesInv, ListInv
  <2>2. Will(a)'
    BY <1>1, <1>3 DEF Will
  <2> QED
    BY <2>1, <2>2 DEF ListInv
<1>7. PartsInv'
  BY <1>1, <1>2, <1>3, PartsStay
<1> QED
  BY <1>4, <1>5, <1>6, <1>7 DEF PagesInv

LEMMA ReadListKeeps ==
  ASSUME PagesInv, NEW a \in Asks, ReadList(a)
  PROVE  PagesInv'
<1> DEFINE r == [ask[a] EXCEPT !.pc = "show", !.seen = stored]
<1>1. /\ ask \in [Asks -> AskType] /\ ask[a].pc = "load" /\ ~ask[a].older
      /\ ask' = [x \in Asks |-> IF x = a THEN r
                                ELSE [ask[x] EXCEPT !.older = @ \/ ask[x].pc = "show"]]
      /\ UNCHANGED <<kind, listing, chosen, draft, base, filled, switched, behind, stored, meant,
                     disturbed>>
  BY DEF ReadList, listShown, drafting, database, PagesInv, PageTypes, ListInv
<1>2. /\ r \in AskType /\ r.pc = "show" /\ r.seen = stored /\ ~r.older /\ r.op = ask[a].op
      /\ r.entry = ask[a].entry /\ r.value = ask[a].value
  BY <1>1 DEF AskType, PagesInv, PageTypes
<1> HIDE DEF r
<1>3. ASSUME NEW x \in Asks, x # a
      PROVE  ask'[x] \in AskType /\ Aged(x) /\ (ask[x].pc = "show" => ask'[x].older)
  BY <1>1, <1>3 DEF AskType, Aged
<1>4. ask' \in [Asks -> AskType] /\ ask'[a] = r
  BY <1>1, <1>2, <1>3
<1>5. PageTypes' /\ FilledInv'
  BY <1>1, <1>4 DEF PagesInv, PageTypes, FilledInv
<1>6. ListInv'
  <2>1. \A x \in Asks : ask'[x].older => ask'[x].pc = "show"
    BY <1>2, <1>3, <1>4 DEF PagesInv, ListInv, Aged
  <2>2. \A x \in Asks : Comes(x)' => x = a
    BY <1>3 DEF Comes, Aged
  <2>3. Comes(a)' /\ ask'[a].seen = stored'
    BY <1>1, <1>2, <1>4 DEF Comes
  <2> QED
    BY <2>1, <2>2, <2>3 DEF ListInv
<1>7. PartsInv'
  BY <1>1, <1>2, <1>3, <1>4, PartsStay DEF Aged
<1> QED
  BY <1>5, <1>6, <1>7 DEF PagesInv

LEMMA ShownKeeps ==
  ASSUME PagesInv, NEW a \in Asks, Shown(a),
         UNCHANGED drafting \/ \E e \in Entries : SelectAndFill(a, e)
  PROVE  PagesInv'
<1>1. /\ ask[a] \in AskType /\ ask[a].pc = "show"
      /\ ask' = [ask EXCEPT ![a] = AtRest]
      /\ listing' = ask[a].seen /\ behind' = ask[a].older
      /\ UNCHANGED <<kind, stored, meant, disturbed>>
  BY DEF Shown, database, PagesInv, PageTypes
<1>2. /\ ask' \in [Asks -> AskType] /\ ask'[a] = AtRest
      /\ \A x \in Asks : x # a => ask'[x] = ask[x]
  BY <1>1, Values DEF PagesInv, PageTypes
<1>3. /\ chosen' \in Entries \cup {Nothing} /\ draft' \in EntryType /\ base' \in SUBSET Parts
      /\ switched' \in BOOLEAN
      /\ filled' \in [details : Entries \cup {Nothing}, parts : Entries \cup {Nothing},
                      base : Entries \cup {Nothing}]
      /\ FilledInv'
  <2>1. CASE UNCHANGED drafting
    BY <2>1 DEF drafting, PagesInv, PageTypes, FilledInv
  <2>2. ASSUME NEW e \in Entries, SelectAndFill(a, e)
        PROVE  <1>3
    <3>1. ask[a].seen[e] \in EntryType
      BY <1>1 DEF AskType
    <3> QED
      BY <2>2, <3>1, FillKeeps DEF SelectAndFill
  <2> QED
    BY <2>1, <2>2
<1>4. PageTypes'
  BY <1>1, <1>2, <1>3 DEF PagesInv, PageTypes, AskType
<1>5. ListInv'
  <2>1. \A x \in Asks : ask'[x].older => ask'[x].pc = "show"
    BY <1>2, Values DEF PagesInv, ListInv
  <2>2. \A x \in Asks : Will(x) <=> Will(x)'
    BY <1>1, <1>2, Values DEF Will
  <2>3. \A x \in Asks : Comes(x)' => Comes(x) /\ ask'[x].seen = ask[x].seen
    BY <1>1, <1>2, Values DEF Comes
  <2>4. ~behind' => Comes(a)
    BY <1>1 DEF Comes
  <2> QED
    BY <1>1, <2>1, <2>2, <2>3, <2>4 DEF PagesInv, ListInv
<1>6. PartsInv'
  BY <1>1, <1>2, Values, PartsStay
<1> QED
  BY <1>3, <1>4, <1>5, <1>6 DEF PagesInv

LEMMA PagesStep == PagesInv /\ [AdminNext]_adminVars => PagesInv'
<1> SUFFICES ASSUME PagesInv, [AdminNext]_adminVars PROVE PagesInv'
  OBVIOUS
<1>1. CASE UNCHANGED adminVars
  <2>1. UNCHANGED <<kind, stored, listing, chosen, draft, base, filled, switched, ask, behind,
                    meant, disturbed>>
    BY <1>1 DEF adminVars
  <2> QED
    BY <2>1, RestKeeps DEF PagesInv, PageTypes, FilledInv
<1>2. CASE Administrator
  BY <1>2, AdministratorKeeps
<1>3. CASE \E e \in Entries : OtherRemoves(e)
  BY <1>3, OtherRemovesKeeps
<1>4. ASSUME NEW a \in Asks,
             \/ Submits(a)
             \/ \E e \in Entries, parts \in SUBSET Parts : OtherAssigns(a, e, parts)
      PROVE  PagesInv'
  BY <1>4, SubmitsKeep, OtherAssignKeeps
<1>5. ASSUME NEW a \in Asks,
             \/ DoCreate(a) \/ DoWrite(a) \/ ClearParts(a) \/ FillParts(a) \/ RefuseAsk(a)
             \/ Slip(a) \/ OtherAssigned(a) \/ Answered(a) \/ ReadList(a)
      PROVE  PagesInv'
  BY <1>5, CreateKeeps, WriteKeeps, ClearKeeps, FillPartsKeeps, RefuseKeeps, SlipKeeps,
     OtherAssignedKeeps, AnsweredKeeps, ReadListKeeps
<1>6. ASSUME NEW a \in Asks,
             ShowUsers(a) \/ ShowRoles(a) \/ ShowAccess(a) \/ ShowRouters(a)
      PROVE  PagesInv'
  BY <1>6, ShownKeeps DEF ShowUsers, ShowRoles, ShowAccess, ShowRouters
<1> QED
  BY <1>1, <1>2, <1>3, <1>4, <1>5, <1>6 DEF AdminNext

LEMMA PagesAlways == AdminSpec => []PagesInv
BY PagesInit, PagesStep, PTL DEF AdminSpec

(* When a page rests it lists what is stored, however many requests, loads and   *)
(* other administrators there were, unless something made its list old.         *)
THEOREM PagesListTheStored == AdminSpec => []ListIsStored
<1>1. PagesInv => ListIsStored
  BY DEF PagesInv, ListInv, ListIsStored, Will, Comes
<1> QED
  BY <1>1, PagesAlways, PTL

(* The routers of a user and the menus of a role are those last chosen for him   *)
(* or it, except after assignments that overlapped or stopped halfway           *)
(* (setServers, setMenus).                                                      *)
THEOREM PartsAreAsChosen == AdminSpec => []PartsAsChosen
<1>1. PagesInv => PartsAsChosen
  BY DEF PagesInv, PartsInv, PartsAsChosen, Existing
<1> QED
  BY <1>1, PagesAlways, PTL

-----------------------------------------------------------------------------
(* Where a request comes from.                                                 *)
Sound(a) ==
    Begins(a) =>
        /\ ask'[a].op = "details" => filled.details = ask'[a].entry
        /\ ask'[a].op = "parts" => filled.parts = ask'[a].entry \/ switched

LEMMA RequestSound ==
  ASSUME PagesInv, NEW b \in Asks, NEW op, NEW e, NEW v, Request(b, op, e, v),
         op \in {"details", "parts"} => e = chosen /\ chosen # Nothing
  PROVE  \A a \in Asks : Sound(a)
<1> DEFINE r == [AtRest EXCEPT !.pc = "write", !.op = op, !.entry = e, !.value = v]
<1>1. r.op = op /\ r.entry = e
  BY DEF AtRest
<1>2. ask' = [ask EXCEPT ![b] = r]
  BY DEF Request
<1> HIDE DEF r
<1>3. ask'[b] = r /\ \A a \in Asks : a # b => ask'[a] = ask[a]
  BY <1>2 DEF PagesInv, PageTypes
<1> QED
  BY <1>1, <1>3 DEF Sound, Begins, PagesInv, FilledInv

LEMMA SubmitsSound ==
  ASSUME PagesInv, NEW b \in Asks, Submits(b)
  PROVE  \A a \in Asks : Sound(a)
<1>1. Nothing \notin Entries
  BY AdminAssumption
<1>2. ASSUME NEW n \in EntryNames, CreateUser(b, n) \/ CreateRole(b, n) \/ AddRouter(b, n)
      PROVE  \A a \in Asks : Sound(a)
  BY <1>2, RequestSound DEF CreateUser, CreateRole, AddRouter, Asked
<1>3. CASE SaveUser(b) \/ SaveRole(b) \/ SaveRouter(b)
  <2>1. chosen # Nothing /\ Request(b, "details", chosen, draft)
    BY <1>1, <1>3 DEF SaveUser, SaveRole, SaveRouter, Asked, Dirty, Existing
  <2> QED
    BY <2>1, RequestSound
<1>4. CASE SaveMenus(b) \/ SaveAccess(b)
  <2>1. chosen # Nothing /\ Request(b, "parts", chosen, draft)
    BY <1>1, <1>4 DEF SaveMenus, SaveAccess, Asked, PartsDirty, Existing
  <2> QED
    BY <2>1, RequestSound
<1>5. CASE DeleteUser(b) \/ DeleteRole(b) \/ \E e \in Entries : ToggleRouter(b, e) \/ DeleteRouter(b, e)
  BY <1>5, RequestSound DEF DeleteUser, DeleteRole, ToggleRouter, DeleteRouter, Asked
<1> QED
  BY <1>2, <1>3, <1>4, <1>5 DEF Submits

LEMMA StepSound ==
  ASSUME PagesInv, [AdminNext]_adminVars
  PROVE  \A a \in Asks : Sound(a)
<1> DEFINE Still(b) == \A x \in Asks : x # b => ask'[x].pc = ask[x].pc
<1>1. ASSUME NEW b \in Asks, Still(b), ask'[b].pc # "write" \/ ask[b].pc # "idle"
      PROVE  \A a \in Asks : Sound(a)
  BY <1>1 DEF Sound, Begins
<1>2. ASSUME ask' = ask
      PROVE  \A a \in Asks : Sound(a)
  BY <1>2 DEF Sound, Begins
<1>3. CASE UNCHANGED adminVars
  BY <1>2, <1>3 DEF adminVars
<1>4. CASE Administrator
  BY <1>2, <1>4 DEF Administrator, SelectUser, SelectRole, SelectAccess, StartEdit, EditUser, EditRole,
         EditRouter, PickMenus, PickRouters, DiscardUser, DiscardMenus, DiscardRouters,
         Select, Edit, PickParts, DiscardParts
<1>5. CASE \E e \in Entries : OtherRemoves(e)
  <2>1. \A x \in Asks : ask'[x].pc = ask[x].pc
    BY <1>5 DEF OtherRemoves, PagesInv, PageTypes, AskType
  <2> QED
    BY <2>1 DEF Sound, Begins
<1>6. ASSUME NEW b \in Asks, Submits(b)
      PROVE  \A a \in Asks : Sound(a)
  BY <1>6, SubmitsSound
<1>7. ASSUME NEW b \in Asks, NEW e \in Entries, NEW parts \in SUBSET Parts, OtherAssigns(b, e, parts)
      PROVE  \A a \in Asks : Sound(a)
  <2>1. \A x \in Asks : x # b => ask'[x] = ask[x]
    BY <1>7 DEF OtherAssigns, PagesInv, PageTypes
  <2>2. ask'[b].op = "other"
    BY <1>7 DEF OtherAssigns, PagesInv, PageTypes, AtRest
  <2> QED
    BY <2>1, <2>2 DEF Sound, Begins
<1>8. ASSUME NEW b \in Asks, NEW r, NEW unseen, Proceeds(b, r, unseen), ask[b].pc # "idle"
      PROVE  \A a \in Asks : Sound(a)
  <2>1. \A x \in Asks : x # b => ask'[x] = [ask[x] EXCEPT !.older = @ \/ (unseen /\ ask[x].pc = "show")]
    BY <1>8 DEF Proceeds
  <2>2. \A x \in Asks : ask[x] \in AskType
    BY DEF PagesInv, PageTypes
  <2>3. Still(b)
    BY <2>1, <2>2 DEF AskType
  <2> QED
    BY <1>1, <1>8, <2>3
<1>9. ASSUME NEW b \in Asks,
             DoCreate(b) \/ DoWrite(b) \/ ClearParts(b) \/ FillParts(b) \/ RefuseAsk(b) \/ OtherAssigned(b)
      PROVE  \A a \in Asks : Sound(a)
  <2>1. ask[b].pc # "idle" /\ \E r, unseen : Proceeds(b, r, unseen)
    BY <1>9 DEF DoCreate, DoWrite, ClearParts, FillParts, RefuseAsk, OtherAssigned, Puts
  <2> QED
    BY <1>8, <2>1
<1>10. ASSUME NEW b \in Asks, Slip(b) \/ ReadList(b)
       PROVE  \A a \in Asks : Sound(a)
  <2>1. \A x \in Asks : ask[x] \in AskType
    BY DEF PagesInv, PageTypes
  <2>2. Still(b) /\ ask[b].pc # "idle"
    BY <1>10, <2>1 DEF Slip, ReadList, AskType
  <2> QED
    BY <1>1, <2>2
<1>11. ASSUME NEW b \in Asks,
              Answered(b) \/ ShowUsers(b) \/ ShowRoles(b) \/ ShowAccess(b) \/ ShowRouters(b)
       PROVE  \A a \in Asks : Sound(a)
  <2>1. Still(b) /\ ask[b].pc # "idle"
    BY <1>11 DEF Answered, ShowUsers, ShowRoles, ShowAccess, ShowRouters, Shown, PagesInv, PageTypes
  <2> QED
    BY <1>1, <2>1
<1> QED
  BY <1>3, <1>4, <1>5, <1>6, <1>7, <1>9, <1>10, <1>11 DEF AdminNext

(* What is saved for an entry was filled in from that entry, though loads select *)
(* others behind the administrator's back (saveUser, saveDetails, saveMenus and  *)
(* save of the pages, and load).                                               *)
THEOREM SavedForTheirEntry == AdminSpec => SentToItsEntry
<1>1. PagesInv /\ [AdminNext]_adminVars =>
        [\A a \in Asks : Begins(a) =>
            /\ ask'[a].op = "details" => filled.details = ask'[a].entry
            /\ ask'[a].op = "parts" => filled.parts = ask'[a].entry \/ switched]_adminVars
  BY StepSound DEF Sound
<1> QED
  BY <1>1, PagesAlways, PTL DEF AdminSpec, SentToItsEntry
=============================================================================
