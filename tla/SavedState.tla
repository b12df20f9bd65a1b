------------------------------ MODULE SavedState ------------------------------
(* What keeping the settings in a database and a file promises, whoever saves   *)
(* and in whatever order the copies are written: a restart brings back a state  *)
(* the database has held, whole; and while the file cannot be read, the         *)
(* database keeps the last one.                                                 *)
CONSTANTS Values, None

VARIABLES current,   \* what the database holds
          durable,   \* what a restart would bring back; None: nothing
          held       \* every value the database has held

vars == <<current, durable, held>>

Init == /\ current \in Values
        /\ durable = current
        /\ held = {current}

Change == /\ current' \in Values
          /\ held' = held \cup {current'}
          /\ UNCHANGED durable

Copy == /\ durable' \in held \cup {None}
        /\ UNCHANGED <<current, held>>

Restart == /\ current' = IF durable = None THEN current ELSE durable
           /\ durable' \in {current', None}
           /\ UNCHANGED held

Next == Change \/ Copy \/ Restart

Spec == Init /\ [][Next]_vars
=============================================================================
