--------------------------- MODULE Administration ---------------------------
(* Accounts at the server, and the pages where accounts, roles and routers are   *)
(* edited, checked in one run: the two share no state of the models, so that     *)
(* only one of them moves at a time.                                            *)
EXTENDS Accounts, AdminPages, TLC

VARIABLE part

administrationVars == <<part, vars, adminVars>>

AdministrationInit ==
    \/ /\ part = "accounts" /\ Init
       /\ AdminInit /\ kind = "users" /\ Existing(stored) = {Own}
    \/ /\ part = "pages" /\ AdminInit
       /\ Init /\ Present = {Seeded} /\ RoleIds = {SuperAdmin}

AdministrationNext ==
    /\ \/ part = "accounts" /\ Next /\ UNCHANGED adminVars
       \/ part = "pages" /\ AdminNext /\ UNCHANGED vars
    /\ UNCHANGED part

AdministrationSpec == AdministrationInit /\ [][AdministrationNext]_administrationVars

(* Accounts that the code does not name are alike; so are requests and names.   *)
Symmetry ==
    Permutations(Users \ ({Seeded} \cup Undeletable)) \cup Permutations(Requests)
        \cup Permutations(EntryNames) \cup Permutations(Asks)
=============================================================================
