------------------------------ MODULE Accounts ------------------------------
(* Accounts and roles.  A request is checked against the rights its actor has   *)
(* when it comes in; then UsersService reads the target, counts the SuperAdmins, *)
(* reads the role and writes, each in a query of its own, while other requests do *)
(* the same.  The SuperAdmin role exists from the seed, cannot be renamed or     *)
(* deleted, and is given by SuperAdmins only.                                  *)
EXTENDS Integers

CONSTANTS
    Users, Seeded,      \* user names; the one the seed makes a SuperAdmin
    Undeletable,        \* the names the code refuses to delete: one literal
    Roles, SuperAdmin,
    Requests,           \* requests that can be in progress
    Nobody, NoRole,
    MaxRequests         \* bound

ASSUME AccountsAssumption ==
    /\ Seeded \in Users /\ Nobody \notin Users
    /\ SuperAdmin \in Roles /\ NoRole \notin Roles
    /\ Undeletable \subseteq Users
    /\ MaxRequests \in Nat

VARIABLES
    user,       \* accounts by name, Absent where there is none
    role,       \* roles
    task,       \* the state of each request
    raced,      \* history: a request wrote after another had taken a SuperAdmin's
                \* rights away since it was accepted
    delegated,  \* history: someone who is no SuperAdmin managed accounts
    spent       \* requests made

vars == <<user, role, task, raced, delegated, spent>>

Menus == {"/users", "/roles"}
Absent == [exists |-> FALSE, active |-> FALSE, roles |-> {}]
NoSuchRole == [exists |-> FALSE, viewOnly |-> FALSE, menus |-> {}]
Holding(roles) == [exists |-> TRUE, active |-> TRUE, roles |-> roles]
Named(viewOnly, menus) == [exists |-> TRUE, viewOnly |-> viewOnly, menus |-> menus]
Present == {u \in Users : user[u].exists}
RoleIds == {r \in Roles : role[r].exists}

Idle == [pc |-> "idle", op |-> "none", admin |-> FALSE, target |-> Nobody, role |-> NoRole,
         active |-> "keep", super |-> FALSE, stale |-> FALSE, menus |-> {}, viewOnly |-> FALSE]

Holders == {u \in Present : SuperAdmin \in user[u].roles}

(* The seeded SuperAdmin, and any accounts and roles made since.              *)
Init ==
    /\ role \in [Roles -> {NoSuchRole, Named(FALSE, {"/users"}), Named(TRUE, {}), Named(FALSE, Menus)}]
    /\ \A r, q \in Roles : role[r].viewOnly /\ role[q].viewOnly => r = q
    /\ \A r \in Roles : role[r] = Named(FALSE, Menus) <=> r = SuperAdmin
    /\ user \in [Users -> {Absent} \cup {Holding({r}) : r \in RoleIds}]
    /\ user[Seeded] = Holding({SuperAdmin})
    /\ task = [t \in Requests |-> Idle]
    /\ raced = FALSE /\ delegated = FALSE
    /\ spent = 0

-----------------------------------------------------------------------------
(* What JwtStrategy.validate finds of an account, and evaluateAccess.         *)
IsAdmin(u) == SuperAdmin \in user[u].roles
IsViewOnly(u) == ~IsAdmin(u) /\ \E r \in user[u].roles : role[r].viewOnly
MenuUrls(u) == UNION {role[r].menus : r \in user[u].roles}

MayWrite(u, menu) ==
    /\ user[u].active
    /\ ~IsViewOnly(u)
    /\ IsAdmin(u) \/ menu \in MenuUrls(u)

Accept(t, actor, menu, r) ==
    /\ task[t].pc = "idle"
    /\ actor \in Present /\ MayWrite(actor, menu)
    /\ spent < MaxRequests /\ spent' = spent + 1
    /\ task' = [task EXCEPT ![t] = [r EXCEPT !.admin = IsAdmin(actor)]]
    /\ delegated' = (delegated \/ ~IsAdmin(actor))
    /\ UNCHANGED <<user, role, raced>>

(* Nobody deactivates, deletes or gives a role to himself.                    *)
SelfUnchecked(actor, u) == TRUE
NotSelf(actor, u) == u # actor

AskCreate(t, actor) ==
    \E u \in Users, r \in RoleIds \cup {NoRole} :
        Accept(t, actor, "/users", [Idle EXCEPT !.pc = "find", !.op = "create", !.target = u, !.role = r])
AskUpdate(t, actor) ==
    \E u \in Users, r \in RoleIds \cup {NoRole}, a \in {"keep", "on", "off"} :
        /\ a = "off" \/ r # NoRole => NotSelf(actor, u)
        /\ Accept(t, actor, "/users", [Idle EXCEPT !.pc = "read", !.op = "update", !.target = u,
                                                   !.role = r, !.active = a])
AskRemove(t, actor) ==
    \E u \in Users \ Undeletable :
        /\ NotSelf(actor, u)
        /\ Accept(t, actor, "/users", [Idle EXCEPT !.pc = "read", !.op = "remove", !.target = u])
AskSetRole(t, actor) ==
    \E u \in Users, r \in RoleIds :
        /\ NotSelf(actor, u)
        /\ Accept(t, actor, "/users", [Idle EXCEPT !.pc = "read", !.op = "setRole", !.target = u, !.role = r])

(* A role's own row is read, and written if it is there and not SuperAdmin's   *)
(* (whose menus may be set).                                                  *)
AskRole(t, actor) ==
    \E r \in Roles, op \in {"makeRole", "renameRole", "removeRole", "setMenus"},
       m \in SUBSET Menus, v \in BOOLEAN :
        /\ op # "setMenus" => m = {}
        /\ op \in {"setMenus", "removeRole"} => ~v
        /\ Accept(t, actor, "/roles", [Idle EXCEPT !.pc = "role row", !.op = op, !.role = r,
                                                   !.menus = m, !.viewOnly = v])

-----------------------------------------------------------------------------
Become(t, r) == task' = [task EXCEPT ![t] = r]
Continue(t, ok, step) ==
    /\ Become(t, IF ok THEN [task[t] EXCEPT !.pc = step] ELSE Idle)
    /\ UNCHANGED <<user, role, raced, delegated, spent>>

Find(t) ==
    /\ task[t].pc = "find"
    /\ Continue(t, task[t].target \notin Present, IF task[t].role = NoRole THEN "insert" ELSE "role")

(* The step after the first count, if there is one.                           *)
AfterFirstCheck(t) ==
    CASE task[t].op = "remove" -> "delete"
      [] task[t].op = "update" /\ task[t].role = NoRole -> "write"
      [] OTHER -> "role"

Read(t) ==
    LET super == IsAdmin(task[t].target)
        counts == super /\ (task[t].op = "remove" \/ task[t].active = "off")
    IN  /\ task[t].pc = "read"
        /\ IF task[t].target \in Present
           THEN Become(t, [task[t] EXCEPT !.super = super,
                                          !.pc = IF counts THEN "count" ELSE AfterFirstCheck(t)])
           ELSE Become(t, Idle)
        /\ UNCHANGED <<user, role, raced, delegated, spent>>

(* superAdminCount(id) # 0, deactivated accounts included.                    *)
OthersUncounted(u) == TRUE
OthersHold(u) == Holders \ {u} # {}

Count(t) ==
    /\ task[t].pc = "count"
    /\ Continue(t, OthersHold(task[t].target), AfterFirstCheck(t))
CountLeaving(t) ==
    /\ task[t].pc = "count leaving"
    /\ Continue(t, OthersHold(task[t].target), "swap")

AssignUnchecked(t) == task[t].role \in RoleIds
MayAssign(t) == task[t].role \in RoleIds /\ (task[t].role = SuperAdmin => task[t].admin)

ReadRole(t) ==
    /\ task[t].pc = "role"
    /\ Continue(t, MayAssign(t),
                CASE task[t].op = "create" -> "insert"
                  [] task[t].op # "create" /\ task[t].super /\ task[t].role # SuperAdmin -> "count leaving"
                  [] OTHER -> "swap")

-----------------------------------------------------------------------------
(* Writes.  One that takes a SuperAdmin's rights away makes every other request in progress    *)
(* stale.                                                                     *)
TakesAway(old, new) ==
    SuperAdmin \in old.roles /\ (SuperAdmin \notin new.roles \/ (old.active /\ ~new.active))

Put(t, row, next) ==
    LET u == task[t].target IN
    /\ user' = [user EXCEPT ![u] = row]
    /\ raced' = (raced \/ task[t].stale)
    /\ task' = [x \in Requests |->
                  IF x = t THEN next
                  ELSE [task[x] EXCEPT !.stale =
                          @ \/ (task[x].pc # "idle" /\ TakesAway(user[u], row))]]
    /\ UNCHANGED <<role, delegated, spent>>

(* A write of a row that is gone throws, as does the insert of a name or a role *)
(* that the database refuses.                                                 *)
Refuse(t, steps, possible) ==
    /\ task[t].pc \in steps /\ ~possible
    /\ Continue(t, FALSE, "idle")

CanInsert(t) == task[t].target \notin Present
CanAssign(t) == task[t].target \in Present /\ task[t].role \in RoleIds \ user[task[t].target].roles
CanSwap(t) == task[t].target \in Present /\ task[t].role \in RoleIds
CanWrite(t) == task[t].target \in Present

Insert(t) ==
    /\ task[t].pc = "insert" /\ CanInsert(t)
    /\ Put(t, [exists |-> TRUE, active |-> TRUE, roles |-> {}],
           IF task[t].role = NoRole THEN Idle ELSE [task[t] EXCEPT !.pc = "assign"])
Assign(t) ==
    /\ task[t].pc = "assign" /\ CanAssign(t)
    /\ Put(t, [user[task[t].target] EXCEPT !.roles = @ \cup {task[t].role}], Idle)
Swap(t) ==
    /\ task[t].pc = "swap" /\ CanSwap(t)
    /\ Put(t, [user[task[t].target] EXCEPT !.roles = {task[t].role}],
           IF task[t].op = "update" THEN [task[t] EXCEPT !.pc = "write"] ELSE Idle)
Write(t) ==
    /\ task[t].pc = "write" /\ CanWrite(t)
    /\ Put(t, [user[task[t].target] EXCEPT
                   !.active = IF task[t].active = "keep" THEN @ ELSE task[t].active = "on"], Idle)
DeleteLeavingRoles(t) ==
    /\ task[t].pc = "delete" /\ CanWrite(t)
    /\ Put(t, [user[task[t].target] EXCEPT !.exists = FALSE], Idle)
Delete(t) ==
    /\ task[t].pc = "delete" /\ CanWrite(t)
    /\ Put(t, Absent, Idle)

Refused(t) ==
    \/ Refuse(t, {"insert"}, CanInsert(t))
    \/ Refuse(t, {"assign"}, CanAssign(t))
    \/ Refuse(t, {"swap"}, CanSwap(t))
    \/ Refuse(t, {"write", "delete"}, CanWrite(t))

(* The role's row is there and the name is free; SuperAdmin is only given menus. *)
CanChangeRole(r) == role[r].exists /\ r # SuperAdmin
NameFree(t) == task[t].viewOnly => \A r \in RoleIds \ {task[t].role} : ~role[r].viewOnly

RemoveRole(t) ==
    LET r == task[t].role IN
    /\ task[t].op = "removeRole" /\ CanChangeRole(r)
    /\ role' = [role EXCEPT ![r] = NoSuchRole]
    /\ user' = [u \in Users |-> [user[u] EXCEPT !.roles = @ \ {r}]]

MakeRole(t) ==
    /\ task[t].op = "makeRole" /\ ~role[task[t].role].exists /\ NameFree(t)
    /\ role' = [role EXCEPT ![task[t].role] = Named(task[t].viewOnly, {})]
    /\ UNCHANGED user
RenameRole(t) ==
    /\ task[t].op = "renameRole" /\ CanChangeRole(task[t].role) /\ NameFree(t)
    /\ role' = [role EXCEPT ![task[t].role].viewOnly = task[t].viewOnly]
    /\ UNCHANGED user
SetMenus(t) ==
    /\ task[t].op = "setMenus" /\ role[task[t].role].exists
    /\ role' = [role EXCEPT ![task[t].role].menus = task[t].menus]
    /\ UNCHANGED user

ChangeRole(t) ==
    /\ task[t].pc = "role row"
    /\ MakeRole(t) \/ RenameRole(t) \/ RemoveRole(t) \/ SetMenus(t)
    /\ Become(t, Idle)
    /\ UNCHANGED <<raced, delegated, spent>>

-----------------------------------------------------------------------------
Ask(t, actor) ==
    \/ AskCreate(t, actor) \/ AskUpdate(t, actor) \/ AskRemove(t, actor)
    \/ AskSetRole(t, actor) \/ AskRole(t, actor)
Check(t) == Find(t) \/ Read(t) \/ Count(t) \/ ReadRole(t) \/ CountLeaving(t)
Change(t) ==
    Insert(t) \/ Assign(t) \/ Swap(t) \/ Write(t) \/ Delete(t) \/ Refused(t) \/ ChangeRole(t)

Next == \E t \in Requests : Check(t) \/ Change(t) \/ \E u \in Users : Ask(t, u)

Spec == Init /\ [][Next]_vars

-----------------------------------------------------------------------------
Steps == {"idle", "find", "read", "count", "role", "count leaving", "insert", "assign", "swap",
          "write", "delete", "role row"}
Operations == {"none", "create", "update", "remove", "setRole", "makeRole", "renameRole",
               "removeRole", "setMenus"}

TypeOK ==
    /\ user \in [Users -> [exists : BOOLEAN, active : BOOLEAN, roles : SUBSET Roles]]
    /\ \A u \in Users : ~user[u].exists => user[u] = Absent
    /\ role \in [Roles -> [exists : BOOLEAN, viewOnly : BOOLEAN, menus : SUBSET Menus]]
    /\ task \in [Requests ->
                   [pc : Steps, op : Operations, admin : BOOLEAN, target : Users \cup {Nobody},
                    role : Roles \cup {NoRole}, active : {"keep", "on", "off"}, super : BOOLEAN,
                    stale : BOOLEAN, menus : SUBSET Menus, viewOnly : BOOLEAN]]
    /\ raced \in BOOLEAN /\ delegated \in BOOLEAN
    /\ spent \in Nat

Given ==
    \A u \in Users : SuperAdmin \in user'[u].roles \ user[u].roles
        => \E t \in Requests : /\ task[t].target = u /\ task[t].role = SuperAdmin
                               /\ task[t].admin /\ task'[t] # task[t]

\* No account gets the SuperAdmin role but by a request of someone who was a
\* SuperAdmin when it was accepted, however the requests interleave.
GivenBySuperAdmin == [][Given]_vars

\* The counts keep the role of SuperAdmin held by somebody, except when a request
\* overlaps another that takes a SuperAdmin's rights away between its check and its
\* write.
SomeoneHolds == ~raced => Holders # {}

\* What the counts and the checks of the actor himself achieve together: unless requests
\* overlap in that way, or accounts are managed by someone who is no SuperAdmin, a
\* SuperAdmin can sign in.  (The counts alone do not: they count deactivated accounts.)
SomeoneCanAdminister == ~raced /\ ~delegated => \E u \in Holders : user[u].active
=============================================================================
