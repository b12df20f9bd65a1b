---------------------------- MODULE RegistryProofs ----------------------------
(* The registry of routers and its file: the file comes in line with the table, *)
(* a restart gives back what was lost and registers no address twice, and no    *)
(* long retention appears without a license, for any number of ids, requests,   *)
(* crashes and failed writes.                                                   *)
EXTENDS Registry, FiniteSetTheorems, Induction

TaskType ==
    [pc : {"idle", "count", "find", "insert", "update", "toggle", "remove", "persist", "save",
           "spread"},
     id : 0..MaxIds, row : RouterRows \cup {NoRow}, port : Ports \cup {NoPort}, seen : Seq(RouterRows), at : Nat]
BootType ==
    [pc : {"up", "read", "restore", "persist"}, todo : Seq(RouterRows), known : SUBSET Urls]
SpentType == [requests : Nat, verdicts : Nat, faults : Nat]

(* With the types: a request that is to write a row or a port has one, ids are  *)
(* given in order, and no request is served while the process starts.           *)
InHand ==
    \A t \in Requests :
        /\ task[t].pc \in {"count", "find", "insert", "update", "toggle"} => task[t].row \in RouterRows
        /\ task[t].pc = "spread" => task[t].port \in Ports
IdsInOrder == \A i \in Ids : i > lastId => table[i] = NoRow
ServedWhenUp == boot.pc # "up" => \A t \in Requests : task[t].pc = "idle"
TypeInv == RegistryTypeOK /\ InHand /\ IdsInOrder /\ ServedWhenUp

(* The parts of the type invariant.                                             *)
LEMMA Types ==
  RegistryTypeOK <=>
    /\ table \in [Ids -> RouterRows \cup {NoRow}] /\ lastId \in 0..MaxIds
    /\ file \in Seq(RouterRows)
    /\ licensed \in BOOLEAN /\ everLicensed \in BOOLEAN
    /\ boot \in BootType /\ task \in [Requests -> TaskType]
    /\ version \in Nat /\ due \in Nat /\ ported \in Nat /\ copied \in Int /\ missed \in Nat
    /\ owed \subseteq Urls /\ spent \in SpentType
  BY DEF RegistryTypeOK, TaskType, BootType, SpentType

LEMMA TypesNext ==
  ASSUME /\ table' \in [Ids -> RouterRows \cup {NoRow}] /\ lastId' \in 0..MaxIds
         /\ file' \in Seq(RouterRows)
         /\ licensed' \in BOOLEAN /\ everLicensed' \in BOOLEAN
         /\ boot' \in BootType /\ task' \in [Requests -> TaskType]
         /\ version' \in Nat /\ due' \in Nat /\ ported' \in Nat /\ copied' \in Int /\ missed' \in Nat
         /\ owed' \subseteq Urls /\ spent' \in SpentType
  PROVE  RegistryTypeOK'
  BY DEF RegistryTypeOK, TaskType, BootType, SpentType

LEMMA Rows ==
  /\ NoRow \notin RouterRows /\ MaxIds \in Nat
  /\ Bodies \subseteq RouterRows /\ Idle \in TaskType /\ Idle.pc = "idle"
  /\ Up \in BootType /\ Up.pc = "up" /\ Booting \in BootType /\ Booting.pc = "read"
<1>1. NoRow \notin RouterRows /\ MaxIds \in Nat /\ Bodies \subseteq RouterRows
  BY RegistryAssumption DEF NoRow, RouterRows, Bodies
<1>2. Idle \in TaskType /\ Idle.pc = "idle"
  <2>1. 0 \in 0..MaxIds /\ <<>> \in Seq(RouterRows)
    BY <1>1
  <2> QED
    BY <2>1 DEF Idle, TaskType
<1>3. /\ Up \in BootType /\ Up.pc = "up" /\ Booting \in BootType /\ Booting.pc = "read"
  <2>1. <<>> \in Seq(RouterRows) /\ {} \in SUBSET Urls
    OBVIOUS
  <2> QED
    BY <2>1 DEF Up, Booting, BootType
<1> QED
  BY <1>1, <1>2, <1>3

(* The rows of a table in a sequence: built up id by id.                        *)
BuildUp(f, rows) ==
    /\ f[0] = <<>> /\ RowsOf(rows) = f[MaxIds]
    /\ \A i \in 1..MaxIds :
          f[i] = IF rows[i] = NoRow THEN f[i - 1] ELSE Append(f[i - 1], rows[i])

LEMMA RowsOfSteps ==
  ASSUME NEW X, NoRow \notin X, NEW rows \in [Ids -> X \cup {NoRow}]
  PROVE  \E f \in [0..MaxIds -> Seq(X)] : BuildUp(f, rows)
<1> DEFINE n == MaxIds
           S == Seq(X)
           base == <<>>
           next(q, i) == IF rows[i] = NoRow THEN q ELSE Append(q, rows[i])
           step == [i \in 1..n |-> [q \in S |-> next(q, i)]]
           body(f) == [i \in 0..n |-> IF i = 0 THEN <<>> ELSE next(f[i - 1], i)]
           upTo == CHOOSE f : f = body(f)
<1>1. base \in S /\ n \in Nat
  BY Rows
<1>2. \A i \in 1..n, q \in S : next(q, i) \in S
  <2>1. \A i \in 1..n : rows[i] \in X \cup {NoRow}
    BY DEF Ids
  <2> QED
    BY <2>1
<1> HIDE DEF n, S, base, next
<1>3. step \in [1..n -> [S -> S]]
  BY <1>2
<1>4. \A i \in 1..n, q \in S : step[i][q] = next(q, i)
  BY <1>2
<1> HIDE DEF step, body, upTo
<1>5. \E f \in [0..n -> S] : Iteration(f, base, n, step)
  BY <1>1, <1>3, Iterates, Zenon
<1>6. PICK f \in [0..n -> S] : Iteration(f, base, n, step)
  BY <1>5
<1>7. \A i \in 1..n : i - 1 \in 0..n /\ i \in 0..n
  BY <1>1
<1>8. \A i \in 1..n : f[i] = next(f[i - 1], i)
  BY <1>4, <1>6, <1>7 DEF Iteration
<1>9. f = body(f)
  <2>1. f = [i \in 0..n |-> f[i]]
    BY <1>6
  <2>2. \A i \in 0..n : i # 0 => i \in 1..n
    BY <1>1
  <2>3. \A i \in 0..n : f[i] = IF i = 0 THEN <<>> ELSE next(f[i - 1], i)
    BY <1>6, <1>8, <2>2 DEF base, Iteration
  <2> QED
    BY <2>1, <2>3 DEF body
<1>10. upTo = body(upTo)
  BY <1>9 DEF upTo
<1>11. upTo[0] = base /\ \A i \in 1..n : upTo[i] = next(upTo[i - 1], i)
  BY <1>1, <1>7, <1>10 DEF body, base
<1>12. \A i \in 0..n : upTo[i] \in S
  BY <1>1, <1>2, <1>11, IterationStays
<1>13. upTo \in [0..n -> S]
  BY <1>10, <1>12 DEF body
<1>14. RowsOf(rows) = upTo[n]
  BY DEF RowsOf, upTo, body, next, n
<1>15. upTo \in [0..MaxIds -> Seq(X)] /\ BuildUp(upTo, rows)
  BY <1>11, <1>13, <1>14 DEF BuildUp, next, base, n, S
<1> QED
  BY <1>15

LEMMA RowsOfType ==
  ASSUME NEW X, NoRow \notin X, NEW rows \in [Ids -> X \cup {NoRow}]
  PROVE  RowsOf(rows) \in Seq(X)
<1>1. PICK f \in [0..MaxIds -> Seq(X)] : BuildUp(f, rows)
  BY RowsOfSteps, Zenon
<1>2. MaxIds \in 0..MaxIds
  BY Rows
<1> QED
  BY <1>1, <1>2 DEF BuildUp

(* Tables that differ in ports only have sequences that do.                     *)
PortAside(row) == [row EXCEPT !.port = NoPort]

LEMMA RowsButForPorts ==
  ASSUME NEW a \in [Ids -> RouterRows \cup {NoRow}], NEW b \in [Ids -> RouterRows \cup {NoRow}],
         \A i \in Ids : (a[i] = NoRow <=> b[i] = NoRow) /\ PortAside(a[i]) = PortAside(b[i])
  PROVE  ButForPorts(RowsOf(a)) = ButForPorts(RowsOf(b))
<1>0. NoRow \notin RouterRows /\ MaxIds \in Nat
  BY Rows
<1>1. PICK f \in [0..MaxIds -> Seq(RouterRows)] : BuildUp(f, a)
  BY <1>0, RowsOfSteps, Zenon
<1>2. PICK g \in [0..MaxIds -> Seq(RouterRows)] : BuildUp(g, b)
  BY <1>0, RowsOfSteps, Zenon
<1> DEFINE Same(p, q) == /\ Len(p) = Len(q)
                         /\ \A n \in 1..Len(p) : PortAside(p[n]) = PortAside(q[n])
           T == {i \in Nat : i <= MaxIds => Same(f[i], g[i])}
<1>3. 0 \in T
  BY <1>1, <1>2 DEF BuildUp
<1>4. ASSUME NEW i \in Nat, i \in T PROVE i + 1 \in T
  <2> SUFFICES ASSUME i + 1 <= MaxIds PROVE Same(f[i + 1], g[i + 1])
    OBVIOUS
  <2>1. i + 1 \in 1..MaxIds /\ (i + 1) - 1 = i /\ i \in 0..MaxIds /\ Same(f[i], g[i])
    BY <1>0, <1>4
  <2>2. f[i] \in Seq(RouterRows) /\ g[i] \in Seq(RouterRows)
    BY <2>1
  <2>3. CASE a[i + 1] = NoRow
    BY <1>1, <1>2, <2>1, <2>3 DEF BuildUp, Ids
  <2>4. CASE a[i + 1] # NoRow
    <3>1. /\ f[i + 1] = Append(f[i], a[i + 1]) /\ g[i + 1] = Append(g[i], b[i + 1])
          /\ a[i + 1] \in RouterRows /\ b[i + 1] \in RouterRows
          /\ PortAside(a[i + 1]) = PortAside(b[i + 1])
      BY <1>1, <1>2, <2>1, <2>4 DEF BuildUp, Ids
    <3> HIDE DEF PortAside
    <3>2. Len(f[i + 1]) = Len(f[i]) + 1 /\ Len(g[i + 1]) = Len(g[i]) + 1
      BY <2>2, <3>1
    <3>3. \A n \in 1..Len(f[i + 1]) :
             \/ n \in 1..Len(f[i]) /\ f[i + 1][n] = f[i][n] /\ g[i + 1][n] = g[i][n]
             \/ f[i + 1][n] = a[i + 1] /\ g[i + 1][n] = b[i + 1]
      BY <2>1, <2>2, <3>1, <3>2
    <3> QED
      BY <2>1, <3>1, <3>2, <3>3
  <2> QED
    BY <2>3, <2>4
<1> HIDE DEF T
<1>5. Nat \subseteq T
  BY <1>3, <1>4, SetInduction
<1>6. Same(RowsOf(a), RowsOf(b)) /\ RowsOf(a) \in Seq(RouterRows) /\ RowsOf(b) \in Seq(RouterRows)
  BY <1>0, <1>1, <1>2, <1>5 DEF T, BuildUp
<1>7. DOMAIN RowsOf(a) = 1..Len(RowsOf(a)) /\ DOMAIN RowsOf(b) = DOMAIN RowsOf(a)
  BY <1>6
<1> QED
  BY <1>6, <1>7 DEF ButForPorts, PortAside

LEMMA Snapshots ==
  ASSUME RegistryTypeOK
  PROVE  /\ Snapshot \in Seq(RouterRows)
         /\ \A n \in 1..Len(Snapshot) : \E i \in Live : Snapshot[n] = table[i]
<1> DEFINE X == {table[i] : i \in Live}
<1>1. table \in [Ids -> X \cup {NoRow}]
  <2>1. table \in [Ids -> RouterRows \cup {NoRow}]
    BY Types
  <2>2. \A i \in Ids : table[i] \in X \cup {NoRow}
    BY DEF Live
  <2> HIDE DEF X
  <2> QED
    BY <2>1, <2>2
<1>2. NoRow \notin X /\ X \subseteq RouterRows
  BY Types DEF Live
<1>3. Snapshot \in Seq(X)
  <2> HIDE DEF X
  <2> QED
    BY <1>1, <1>2, RowsOfType DEF Snapshot
<1>4. \A n \in 1..Len(Snapshot) : Snapshot[n] \in X
  <2> HIDE DEF X
  <2> QED
    BY <1>3
<1>5. Snapshot \in Seq(RouterRows)
  <2> HIDE DEF X
  <2> QED
    BY <1>2, <1>3
<1> QED
  BY <1>4, <1>5

LEMMA SnapshotSame ==
  ASSUME table' = table PROVE Snapshot' = Snapshot /\ Live' = Live /\ Registered' = Registered
  BY DEF Snapshot, Live, Registered

(* It holds at first.                                                           *)
LEMMA TypeInit == RegistryInit => TypeInv
<1> SUFFICES ASSUME RegistryInit PROVE TypeInv
  OBVIOUS
<1>1. PICK row \in Bodies \cup {NoRow} : table = [i \in Ids |-> IF i = 1 THEN row ELSE NoRow]
  BY DEF RegistryInit
<1>2. table \in [Ids -> RouterRows \cup {NoRow}]
  BY <1>1, Rows
<1>3. Live = {} \/ (Live = {1} /\ 1 \in Ids)
  BY <1>1 DEF Live
<1>4. lastId \in 0..MaxIds /\ IdsInOrder
  <2>1. CASE Live = {}
    <3>1. lastId = 0
      BY <2>1, FS_EmptySet DEF RegistryInit
    <3> QED
      BY <2>1, <3>1, Rows DEF Live, IdsInOrder
  <2>2. CASE Live = {1} /\ 1 \in Ids
    <3>1. lastId = 1
      BY <2>2, FS_Singleton DEF RegistryInit
    <3> QED
      BY <2>2, <3>1, Rows DEF Live, IdsInOrder, Ids
  <2> QED
    BY <1>3, <2>1, <2>2
<1>5. file \in Seq(RouterRows)
  <2>1. Snapshot \in Seq(RouterRows)
    BY <1>2, Rows, RowsOfType DEF Snapshot
  <2> QED
    BY <2>1 DEF RegistryInit
<1>6. RegistryTypeOK
  <2>1. /\ licensed \in BOOLEAN /\ everLicensed \in BOOLEAN
    BY DEF RegistryInit
  <2>2. /\ boot \in BootType /\ task \in [Requests -> TaskType] /\ spent \in SpentType
        /\ version \in Nat /\ due \in Nat /\ ported \in Nat
        /\ copied \in Int /\ missed \in Nat /\ owed \subseteq Urls
    BY Rows DEF RegistryInit, SpentType
  <2> QED
    BY <1>2, <1>4, <1>5, <2>1, <2>2, Types
<1>7. InHand /\ ServedWhenUp
  BY Rows DEF RegistryInit, InHand, ServedWhenUp
<1> QED
  BY <1>4, <1>6, <1>7 DEF TypeInv

-----------------------------------------------------------------------------
(* Types.                                                                       *)
HandOK(r) ==
    /\ r.pc \in {"count", "find", "insert", "update", "toggle"} => r.row \in RouterRows
    /\ r.pc = "spread" => r.port \in Ports

LEMMA Becomes ==
  ASSUME NEW t \in Requests, NEW r \in TaskType, task \in [Requests -> TaskType], Become(t, r)
  PROVE  /\ task' \in [Requests -> TaskType] /\ task'[t] = r
         /\ \A u \in Requests : u # t => task'[u] = task[u]
  BY DEF Become

LEMMA EndsIdle ==
  ASSUME NEW t \in Requests, CopyEnds(t)
  PROVE  \E r : Become(t, r) /\ r.pc \in {"idle", "spread"}
<1>1. CASE task[t].port = NoPort
  BY <1>1, Rows DEF CopyEnds
<1>2. CASE task[t].port # NoPort
  <2> DEFINE r == [Idle EXCEPT !.pc = "spread", !.port = task[t].port]
  <2>1. r.pc = "spread"
    BY DEF Idle
  <2>2. Become(t, r)
    BY <1>2 DEF CopyEnds
  <2> HIDE DEF r
  <2> QED
    BY <2>1, <2>2
<1> QED
  BY <1>1, <1>2

LEMMA Spends ==
  ASSUME NEW what \in {"requests", "verdicts", "faults"}, NEW max, spent \in SpentType,
         Spend(what, max)
  PROVE  spent' \in SpentType
  BY DEF Spend, SpentType

(* A step that only moves a request.                                            *)
LEMMA TaskTypes ==
  ASSUME TypeInv, NEW t \in Requests, NEW r \in TaskType, Become(t, r), HandOK(r),
         boot.pc = "up" \/ r.pc = "idle", spent' \in SpentType,
         UNCHANGED <<table, lastId, licensed, boot, changes, owed, everLicensed>>,
         file' \in Seq(RouterRows), copied' \in Int, missed' \in Nat
  PROVE  TypeInv'
<1>1. RegistryTypeOK /\ InHand /\ IdsInOrder /\ ServedWhenUp
  BY DEF TypeInv
<1>2. task \in [Requests -> TaskType]
  BY <1>1, Types
<1>3. /\ task' \in [Requests -> TaskType] /\ task'[t] = r
      /\ \A u \in Requests : u # t => task'[u] = task[u]
  BY <1>2, Becomes
<1>4. RegistryTypeOK'
  <2>1. /\ due' \in Nat /\ ported' \in Nat /\ version' \in Nat /\ boot' \in BootType
    BY <1>1, Types DEF changes
  <2> QED
    BY <1>1, <1>3, <2>1 DEF RegistryTypeOK, TaskType, SpentType, changes
<1>5. InHand'
  BY <1>1, <1>3 DEF InHand, HandOK
<1>6. IdsInOrder' /\ ServedWhenUp'
  BY <1>1, <1>3 DEF IdsInOrder, ServedWhenUp
<1> QED
  BY <1>4, <1>5, <1>6 DEF TypeInv

LEMMA AskTypes ==
  ASSUME TypeInv, NEW t \in Requests,
         \/ \E row \in Bodies : AskCreate(t, row) \/ \E i \in Live : AskUpdate(t, i, row)
         \/ \E i \in Live : AskToggle(t, i) \/ AskRemove(t, i)
         \/ \E port \in Ports \cup {NoPort} : AskSettings(t, port)
  PROVE  TypeInv'
<1>0. /\ table \in [Ids -> RouterRows \cup {NoRow}] /\ spent \in SpentType
      /\ file \in Seq(RouterRows) /\ copied \in Int /\ missed \in Nat
  BY Types DEF TypeInv
<1>1. ASSUME NEW r \in TaskType, HandOK(r), Ask(t, r) PROVE TypeInv'
  <2>1. Become(t, r) /\ boot.pc = "up" /\ spent' \in SpentType
    BY <1>0, <1>1, Spends DEF Ask
  <2>2. UNCHANGED <<table, lastId, copying, licensed, boot, changes, owed, everLicensed>>
    BY <1>1 DEF Ask
  <2> QED
    BY <1>0, <1>1, <2>1, <2>2, TaskTypes DEF copying, changes
<1>2. /\ \A row \in RouterRows, pc \in {"find", "count"} :
            [Idle EXCEPT !.pc = pc, !.row = row] \in TaskType
      /\ \A row \in RouterRows, i \in Ids, pc \in {"update", "toggle"} :
            [Idle EXCEPT !.pc = pc, !.id = i, !.row = row] \in TaskType
      /\ \A i \in Ids : [Idle EXCEPT !.pc = "remove", !.id = i] \in TaskType
  <2>1. \A i \in Ids : i \in 0..MaxIds
    BY Rows DEF Ids
  <2> QED
    BY <2>1, Rows DEF Idle, TaskType
<1>3. ASSUME NEW row \in Bodies, AskCreate(t, row) PROVE TypeInv'
  <2> DEFINE r(pc) == [Idle EXCEPT !.pc = pc, !.row = row]
  <2>1. PICK pc \in {"find", "count"} : Ask(t, r(pc))
    BY <1>3 DEF AskCreate
  <2>2. row \in RouterRows
    BY Rows
  <2>3. r(pc) \in TaskType /\ HandOK(r(pc))
    BY <1>2, <2>2 DEF HandOK, Idle
  <2> QED
    BY <1>1, <2>1, <2>3
<1>4. ASSUME NEW row \in Bodies, NEW i \in Live, AskUpdate(t, i, row) PROVE TypeInv'
  <2> DEFINE r == [Idle EXCEPT !.pc = "update", !.id = i, !.row = row]
  <2>1. Ask(t, r)
    BY <1>4 DEF AskUpdate
  <2>2. row \in RouterRows /\ i \in Ids
    BY Rows DEF Live
  <2>3. r \in TaskType /\ HandOK(r)
    BY <1>2, <2>2 DEF HandOK, Idle
  <2> QED
    BY <1>1, <2>1, <2>3
<1>5. ASSUME NEW i \in Live, AskToggle(t, i) PROVE TypeInv'
  <2> DEFINE row == [table[i] EXCEPT !.disabled = ~@]
             r == [Idle EXCEPT !.pc = "toggle", !.id = i, !.row = row]
  <2>1. Ask(t, r)
    BY <1>5 DEF AskToggle
  <2>2. row \in RouterRows /\ i \in Ids
    BY <1>0 DEF Live, RouterRows
  <2>3. r \in TaskType /\ HandOK(r)
    <3> HIDE DEF row
    <3> QED
      BY <1>2, <2>2 DEF HandOK, Idle
  <2> QED
    BY <1>1, <2>1, <2>3
<1>6. ASSUME NEW i \in Live, AskRemove(t, i) PROVE TypeInv'
  <2> DEFINE r == [Idle EXCEPT !.pc = "remove", !.id = i]
  <2>1. Ask(t, r)
    BY <1>6 DEF AskRemove
  <2>2. i \in Ids
    BY DEF Live
  <2>3. r \in TaskType /\ HandOK(r)
    BY <1>2, <2>2 DEF HandOK, Idle
  <2> QED
    BY <1>1, <2>1, <2>3
<1>7. ASSUME NEW port \in Ports \cup {NoPort}, AskSettings(t, port) PROVE TypeInv'
  <2> DEFINE r == [Idle EXCEPT !.pc = "persist", !.port = port]
  <2>1. Ask(t, r)
    BY <1>7 DEF AskSettings
  <2>2. r \in TaskType /\ HandOK(r)
    BY Rows DEF HandOK, Idle, TaskType
  <2> QED
    BY <1>1, <2>1, <2>2
<1> QED
  BY <1>3, <1>4, <1>5, <1>6, <1>7

(* A request that writes the table: what it writes is a row, or none.           *)
LEMMA WriteTypes ==
  ASSUME TypeInv, NEW t \in Requests, Insert(t) \/ Update(t) \/ Remove(t)
  PROVE  /\ TypeInv'
         /\ Insert(t) => table' = [table EXCEPT ![lastId + 1] = task[t].row] /\ task[t].row \in RouterRows
         /\ Update(t) => Rewritten(t) \in RouterRows
<1>0. /\ RegistryTypeOK /\ table \in [Ids -> RouterRows \cup {NoRow}] /\ lastId \in 0..MaxIds
      /\ InHand /\ IdsInOrder /\ ServedWhenUp /\ task \in [Requests -> TaskType]
      /\ version \in Nat /\ ported \in Nat /\ owed \subseteq Urls
  BY Types DEF TypeInv
<1>1. [Idle EXCEPT !.pc = "persist"] \in TaskType
  BY Rows DEF TaskType, Idle
<1>2. ASSUME NEW rows \in [Ids -> RouterRows \cup {NoRow}], Write(t, rows), lastId' \in 0..MaxIds,
             owed' \subseteq Urls, task[t].pc # "idle",
             \A i \in Ids : i > lastId' => rows[i] = NoRow
      PROVE  TypeInv'
  <2>1. /\ table' = rows /\ version' \in Nat /\ due' \in Nat /\ ported' \in Nat
        /\ Become(t, [Idle EXCEPT !.pc = "persist"])
        /\ UNCHANGED <<copying, licensed, boot, everLicensed, spent>>
    BY <1>0, <1>2 DEF Write, Changed
  <2>2. /\ task' \in [Requests -> TaskType] /\ task'[t].pc = "persist"
        /\ \A u \in Requests : u # t => task'[u] = task[u]
    BY <1>0, <1>1, <2>1, Becomes DEF Idle
  <2>3. boot.pc = "up"
    BY <1>0, <1>2 DEF ServedWhenUp
  <2>4. RegistryTypeOK'
    <3>1. /\ file' \in Seq(RouterRows) /\ copied' \in Int /\ missed' \in Nat
          /\ licensed' \in BOOLEAN /\ everLicensed' \in BOOLEAN
          /\ boot' \in BootType /\ spent' \in SpentType
      BY <1>0, <2>1, Types DEF copying
    <3> QED
      BY <1>2, <2>1, <2>2, <3>1, TypesNext
  <2>5. InHand' /\ IdsInOrder' /\ ServedWhenUp'
    BY <1>0, <1>2, <2>1, <2>2, <2>3 DEF InHand, IdsInOrder, ServedWhenUp
  <2> QED
    BY <2>4, <2>5 DEF TypeInv
<1>3. ASSUME Insert(t)
      PROVE  /\ TypeInv' /\ task[t].row \in RouterRows
             /\ table' = [table EXCEPT ![lastId + 1] = task[t].row]
  <2> DEFINE rows == [table EXCEPT ![lastId + 1] = task[t].row]
  <2>1. task[t].row \in RouterRows /\ task[t].pc # "idle"
    BY <1>0, <1>3 DEF Insert, InHand
  <2>2. rows \in [Ids -> RouterRows \cup {NoRow}]
    BY <1>0, <2>1
  <2>3. /\ Write(t, rows) /\ lastId' = lastId + 1 /\ lastId' \in 0..MaxIds /\ owed' \subseteq Urls
    BY <1>0, <1>3, Rows DEF Insert
  <2>4. \A i \in Ids : i > lastId' => rows[i] = NoRow
    BY <1>0, <2>3 DEF IdsInOrder, Ids
  <2> HIDE DEF rows
  <2>5. TypeInv'
    BY <1>2, <2>1, <2>2, <2>3, <2>4
  <2> QED
    BY <1>3, <2>1, <2>5 DEF Insert, Write
<1>4. ASSUME Update(t) PROVE TypeInv' /\ Rewritten(t) \in RouterRows
  <2> DEFINE rows == [table EXCEPT ![task[t].id] = Rewritten(t)]
  <2>1. /\ task[t].row \in RouterRows /\ task[t].id \in Ids /\ table[task[t].id] \in RouterRows
        /\ task[t].pc # "idle" /\ task[t].id <= lastId
    BY <1>0, <1>4 DEF Update, InHand, Live, IdsInOrder, Ids
  <2>2. Rewritten(t) \in RouterRows
    BY <2>1 DEF Rewritten, RouterRows
  <2>3. rows \in [Ids -> RouterRows \cup {NoRow}]
    BY <1>0, <2>2
  <2>4. Write(t, rows) /\ lastId' = lastId /\ lastId' \in 0..MaxIds /\ owed' \subseteq Urls
    BY <1>0, <1>4 DEF Update
  <2>5. \A i \in Ids : i > lastId' => rows[i] = NoRow
    BY <1>0, <2>1, <2>4 DEF IdsInOrder, Ids
  <2> HIDE DEF rows
  <2> QED
    BY <1>2, <2>1, <2>2, <2>3, <2>4, <2>5
<1>5. ASSUME Remove(t) PROVE TypeInv'
  <2> DEFINE rows == [table EXCEPT ![task[t].id] = NoRow]
  <2>1. task[t].pc # "idle"
    BY <1>5 DEF Remove
  <2>2. rows \in [Ids -> RouterRows \cup {NoRow}]
    BY <1>0
  <2>3. Write(t, rows) /\ lastId' = lastId /\ lastId' \in 0..MaxIds /\ owed' \subseteq Urls
    BY <1>0, <1>5 DEF Remove
  <2>4. \A i \in Ids : i > lastId' => rows[i] = NoRow
    BY <1>0, <2>3 DEF IdsInOrder
  <2> HIDE DEF rows
  <2> QED
    BY <1>2, <2>1, <2>2, <2>3, <2>4
<1> QED
  BY <1>3, <1>4, <1>5

LEMMA TaskStepTypes ==
  ASSUME TypeInv, NEW t \in Requests, Check(t) \/ Gone(t) \/ Copying(t)
  PROVE  TypeInv'
<1>0. /\ RegistryTypeOK /\ InHand /\ ServedWhenUp /\ task \in [Requests -> TaskType]
      /\ task[t] \in TaskType /\ spent \in SpentType /\ version \in Nat
      /\ file \in Seq(RouterRows) /\ copied \in Int /\ missed \in Nat
  BY Types DEF TypeInv
<1>1. Idle \in TaskType /\ HandOK(Idle) /\ Idle.pc = "idle"
  BY Rows DEF HandOK
<1>1a. ASSUME CopyEnds(t)
      PROVE  \E r \in TaskType : Become(t, r) /\ HandOK(r)
  <2>1. CASE task[t].port = NoPort
    BY <1>1, <1>1a, <2>1 DEF CopyEnds
  <2>2. CASE task[t].port # NoPort
    <3> DEFINE r == [Idle EXCEPT !.pc = "spread", !.port = task[t].port]
    <3>1. task[t].port \in Ports
      BY <1>0, <2>2 DEF TaskType
    <3>2. r \in TaskType /\ HandOK(r)
      BY <1>1, <3>1 DEF TaskType, Idle, HandOK
    <3> QED
      BY <1>1a, <2>2, <3>2 DEF CopyEnds
  <2> QED
    BY <2>1, <2>2
<1>2. CASE Check(t)
  <2>1. PICK r \in {Idle, [task[t] EXCEPT !.pc = "find"], [task[t] EXCEPT !.pc = "insert"]} :
            Become(t, r)
    BY <1>2 DEF Check, GoOn
  <2>2. /\ task[t].row \in RouterRows /\ boot.pc = "up"
        /\ UNCHANGED <<table, lastId, copying, licensed, boot, changes, owed, everLicensed, spent>>
    BY <1>0, <1>2 DEF Check, InHand, ServedWhenUp
  <2>3. r \in TaskType /\ HandOK(r)
    BY <1>0, <1>1, <2>1, <2>2 DEF TaskType, HandOK
  <2> QED
    BY <1>0, <2>1, <2>2, <2>3, TaskTypes DEF copying, changes
<1>3. CASE Gone(t)
  BY <1>0, <1>1, <1>3, TaskTypes DEF Gone, copying, changes
<1>4. CASE Persist(t)
  <2> DEFINE r == [task[t] EXCEPT !.pc = "save", !.seen = Snapshot, !.at = version]
  <2>1. r \in TaskType /\ r.pc = "save"
    BY <1>0, Snapshots DEF TaskType
  <2>2. HandOK(r) /\ boot.pc = "up" /\ Become(t, r)
    BY <1>0, <1>4, <2>1 DEF Persist, ServedWhenUp, HandOK
  <2> HIDE DEF r
  <2> QED
    BY <1>0, <1>4, <2>1, <2>2, TaskTypes DEF Persist, copying, changes
<1>5. CASE SaveFile(t)
  <2>1. file' \in Seq(RouterRows) /\ copied' \in Int /\ missed' \in Nat
    BY <1>0, <1>5 DEF SaveFile, Copy, Later, TaskType
  <2>2. boot.pc = "up"
    BY <1>0, <1>5 DEF SaveFile, ServedWhenUp
  <2> QED
    BY <1>0, <1>5, <1>1a, <2>1, <2>2, TaskTypes DEF SaveFile
<1>6. CASE SaveFileFails(t)
  <2>1. file' \in Seq(RouterRows) /\ copied' \in Int /\ missed' \in Nat /\ spent' \in SpentType
    BY <1>0, <1>6, Spends DEF SaveFileFails, NotCopied, Later, TaskType
  <2>2. boot.pc = "up"
    BY <1>0, <1>6 DEF SaveFileFails, ServedWhenUp
  <2> QED
    BY <1>0, <1>6, <1>1a, <2>1, <2>2, TaskTypes DEF SaveFileFails
<1> QED
  BY <1>2, <1>3, <1>4, <1>5, <1>6 DEF Copying

(* The ports: rows stay rows, where they were, with the addresses they had.      *)
LEMMA SpreadKeeps ==
  ASSUME TypeInv, NEW t \in Requests, Spread(t)
  PROVE  /\ TypeInv' /\ boot.pc = "up"
         /\ Live' = Live /\ Registered' = Registered
         /\ \A i \in Live : table'[i].long = table[i].long
         /\ ButForPorts(Snapshot') = ButForPorts(Snapshot)
<1>0. /\ RegistryTypeOK /\ InHand /\ IdsInOrder /\ ServedWhenUp /\ task \in [Requests -> TaskType]
      /\ table \in [Ids -> RouterRows \cup {NoRow}] /\ version \in Nat /\ NoRow \notin RouterRows
  BY Types, Rows DEF TypeInv
<1> DEFINE port == task[t].port
<1>1. /\ port \in Ports /\ boot.pc = "up" /\ Become(t, Idle)
      /\ table' = [i \in Ids |-> IF i \in Live THEN [table[i] EXCEPT !.port = port] ELSE NoRow]
      /\ version' = version + 1 /\ ported' = version + 1
      /\ UNCHANGED <<lastId, copying, licensed, boot, due, owed, everLicensed, spent>>
  BY <1>0 DEF Spread, InHand, ServedWhenUp
<1> HIDE DEF port
<1>2. \A i \in Live : /\ i \in Ids /\ table[i] \in RouterRows /\ table'[i] \in RouterRows
                      /\ table'[i] = [table[i] EXCEPT !.port = port]
                      /\ table'[i].url = table[i].url /\ table'[i].long = table[i].long
  BY <1>0, <1>1 DEF Live, RouterRows
<1>3. \A i \in Ids : i \notin Live => table'[i] = NoRow /\ table[i] = NoRow
  BY <1>1 DEF Live
<1>4. /\ table' \in [Ids -> RouterRows \cup {NoRow}]
      /\ \A i \in Ids : table'[i] = NoRow <=> table[i] = NoRow
  <2>1. table' = [i \in Ids |-> table'[i]]
    BY <1>1
  <2>2. \A i \in Ids : table'[i] \in RouterRows \cup {NoRow}
    BY <1>2, <1>3
  <2> QED
    BY <1>0, <1>2, <1>3, <2>1, <2>2 DEF Live
<1>5. Live' = Live
  BY <1>4 DEF Live
<1>6. Registered' = Registered
  BY <1>2, <1>5 DEF Registered
<1>7. TypeInv'
  <2>1. task' \in [Requests -> TaskType] /\ \A u \in Requests : task'[u] \in {task[u], Idle}
    BY <1>0, <1>1, Rows DEF Become
  <2>2. RegistryTypeOK'
    <3>1. /\ lastId' \in 0..MaxIds /\ file' \in Seq(RouterRows) /\ copied' \in Int /\ missed' \in Nat
          /\ licensed' \in BOOLEAN /\ everLicensed' \in BOOLEAN /\ boot' \in BootType
          /\ version' \in Nat /\ due' \in Nat /\ ported' \in Nat
          /\ owed' \subseteq Urls /\ spent' \in SpentType
      BY <1>0, <1>1, Types DEF copying
    <3> QED
      BY <1>4, <2>1, <3>1, TypesNext
  <2>3. InHand' /\ IdsInOrder' /\ ServedWhenUp'
    BY <1>0, <1>1, <1>4, <2>1, Rows DEF InHand, IdsInOrder, ServedWhenUp
  <2> QED
    BY <2>2, <2>3 DEF TypeInv
<1>8. \A i \in Ids : PortAside(table'[i]) = PortAside(table[i])
  <2>1. \A i \in Live : PortAside(table'[i]) = PortAside(table[i])
    BY <1>2 DEF PortAside, RouterRows
  <2> QED
    BY <1>3, <2>1
<1>9. ButForPorts(Snapshot') = ButForPorts(Snapshot)
  BY <1>0, <1>4, <1>8, RowsButForPorts DEF Snapshot
<1> QED
  BY <1>1, <1>2, <1>5, <1>6, <1>7, <1>9

(* The start: the requests stand still.                                         *)
LEMMA StartTypes ==
  ASSUME TypeInv, Starting
  PROVE  /\ TypeInv'
         /\ RestoreRow => /\ Head(boot.todo) \in RouterRows /\ lastId + 1 \in Ids
                          /\ table[lastId + 1] = NoRow
<1>0. /\ RegistryTypeOK /\ InHand /\ IdsInOrder /\ ServedWhenUp /\ boot \in BootType
      /\ table \in [Ids -> RouterRows \cup {NoRow}] /\ lastId \in 0..MaxIds
      /\ version \in Nat /\ ported \in Nat
      /\ file \in Seq(RouterRows) /\ copied \in Int /\ missed \in Nat
      /\ spent \in SpentType /\ MaxIds \in Nat
  BY Types, Rows DEF TypeInv
<1>1. \A t \in Requests : task[t].pc = "idle"
  BY <1>0 DEF ServedWhenUp, Starting, BootRead, RestoreKnown, RestoreRow, BootPersist, Restored
<1>2. CASE BootRead
  <2>1. Registered \subseteq Urls
    BY <1>0 DEF Registered, Live, RouterRows
  <2>2. boot' \in BootType
    BY <1>0, <1>2, <2>1, Rows DEF BootRead, BootType, Up
  <2>3. UNCHANGED <<table, lastId, copying, licensed, task, changes, owed, everLicensed, spent>>
    BY <1>2 DEF BootRead
  <2>4. RegistryTypeOK'
    BY <1>0, <2>2, <2>3 DEF RegistryTypeOK, BootType, copying, changes
  <2>5. InHand' /\ IdsInOrder' /\ ServedWhenUp'
    BY <1>0, <1>1, <2>3 DEF InHand, IdsInOrder, ServedWhenUp
  <2> QED
    BY <1>2, <2>4, <2>5 DEF TypeInv, BootRead, RestoreRow
<1>3. CASE RestoreKnown
  <2>1. boot' \in BootType
    <3>1. Tail(boot.todo) \in Seq(RouterRows)
      BY <1>0, <1>3 DEF RestoreKnown, BootType
    <3>2. boot' = [boot EXCEPT !.todo = Tail(boot.todo)]
      BY <1>3 DEF RestoreKnown
    <3> QED
      BY <1>0, <3>1, <3>2 DEF BootType
  <2>2. UNCHANGED <<table, lastId, copying, licensed, task, changes, owed, everLicensed, spent>>
    BY <1>3 DEF RestoreKnown
  <2>3. RegistryTypeOK'
    BY <1>0, <2>1, <2>2 DEF RegistryTypeOK, BootType, copying, changes
  <2>4. InHand' /\ IdsInOrder' /\ ServedWhenUp'
    BY <1>0, <1>1, <2>2 DEF InHand, IdsInOrder, ServedWhenUp
  <2> QED
    BY <1>3, <2>3, <2>4 DEF TypeInv, RestoreKnown, RestoreRow
<1>4. CASE RestoreRow
  <2>1. Head(boot.todo) \in RouterRows /\ Tail(boot.todo) \in Seq(RouterRows)
    BY <1>0, <1>4 DEF RestoreRow, BootType
  <2>2. boot' \in BootType
    BY <1>0, <1>4, <2>1 DEF RestoreRow, BootType, KnownAfter, RouterRows
  <2>3. /\ table' = [table EXCEPT ![lastId + 1] = Head(boot.todo)]
        /\ lastId' = lastId + 1 /\ lastId' \in 0..MaxIds
        /\ version' \in Nat /\ due' \in Nat /\ ported' \in Nat /\ lastId + 1 \in Ids
        /\ UNCHANGED <<copying, licensed, task, owed, everLicensed, spent>>
    BY <1>0, <1>4 DEF RestoreRow, Ids, Changed
  <2>4. table' \in [Ids -> RouterRows \cup {NoRow}]
    BY <1>0, <2>1, <2>3
  <2>5. RegistryTypeOK'
    BY <1>0, <2>2, <2>3, <2>4 DEF RegistryTypeOK, BootType, copying, changes
  <2>6. InHand' /\ ServedWhenUp'
    BY <1>0, <1>1, <2>3 DEF InHand, ServedWhenUp
  <2>7. IdsInOrder' /\ table[lastId + 1] = NoRow
    BY <1>0, <2>3 DEF IdsInOrder, Ids
  <2> QED
    BY <2>1, <2>3, <2>5, <2>6, <2>7 DEF TypeInv
<1>5. CASE BootPersist
  <2>1. /\ file' \in Seq(RouterRows) /\ copied' \in Int /\ missed' \in Nat /\ spent' \in SpentType
    <3>1. CASE Copy(Snapshot, version) /\ UNCHANGED spent
      <4>1. Snapshot \in Seq(RouterRows)
        BY <1>0, Snapshots
      <4> QED
        BY <1>0, <3>1, <4>1 DEF Copy, Later
    <3>2. CASE NotCopied(version)
      BY <1>0, <3>2, Spends DEF NotCopied, Later
    <3> QED
      BY <1>5, <3>1, <3>2 DEF BootPersist
  <2>2. boot' = Up /\ UNCHANGED <<table, lastId, licensed, task, changes, owed, everLicensed>>
    BY <1>5 DEF BootPersist
  <2>3. RegistryTypeOK'
    BY <1>0, <2>1, <2>2, Rows DEF RegistryTypeOK, BootType, SpentType, changes
  <2>4. InHand' /\ IdsInOrder' /\ ServedWhenUp'
    BY <1>0, <2>2, Rows DEF InHand, IdsInOrder, ServedWhenUp
  <2> QED
    BY <1>5, <2>3, <2>4 DEF TypeInv, BootPersist, RestoreRow, Restored
<1> QED
  BY <1>2, <1>3, <1>4, <1>5 DEF Starting

LEMMA OtherTypes ==
  ASSUME TypeInv, Decide \/ Crash \/ LoseDatabase
  PROVE  TypeInv'
<1>0. /\ RegistryTypeOK /\ InHand /\ IdsInOrder /\ ServedWhenUp
      /\ licensed \in BOOLEAN /\ everLicensed \in BOOLEAN
      /\ version \in Nat /\ ported \in Nat
      /\ file \in Seq(RouterRows) /\ copied \in Int /\ missed \in Nat
      /\ spent \in SpentType /\ MaxIds \in Nat
  BY Types, Rows DEF TypeInv
<1>1. CASE Decide
  <2>1. /\ licensed' \in BOOLEAN /\ everLicensed' \in BOOLEAN /\ spent' \in SpentType
        /\ UNCHANGED <<table, lastId, copying, boot, task, changes, owed>>
    BY <1>0, <1>1, Spends DEF Decide
  <2>2. RegistryTypeOK'
    BY <1>0, <2>1 DEF RegistryTypeOK, SpentType, copying, changes
  <2>3. InHand' /\ IdsInOrder' /\ ServedWhenUp'
    BY <1>0, <2>1 DEF InHand, IdsInOrder, ServedWhenUp
  <2> QED
    BY <2>2, <2>3 DEF TypeInv
<1>2. ASSUME Stop, Spend("faults", MaxFaults)
      PROVE  /\ boot' \in BootType /\ boot'.pc = "read" /\ task' \in [Requests -> TaskType]
             /\ \A t \in Requests : task'[t] = Idle
             /\ file' \in Seq(RouterRows) /\ copied' \in Int /\ missed' \in Nat
             /\ spent' \in SpentType /\ UNCHANGED <<licensed, everLicensed>>
  <2>1. file' \in Seq(RouterRows) /\ copied' \in Int /\ missed' \in Nat
    <3>1. <<>> \in Seq(RouterRows) /\ -1 \in Int
      OBVIOUS
    <3>2. CASE UNCHANGED copying
      BY <1>0, <3>2 DEF copying, changes
    <3>3. CASE Copy(<<>>, -1)
      BY <1>0, <3>1, <3>3 DEF Copy, Later
    <3> QED
      BY <1>2, <3>2, <3>3 DEF Stop
  <2> QED
    BY <1>0, <1>2, <2>1, Rows, Spends DEF Stop
<1>3. CASE Crash
  <2>1. UNCHANGED <<table, lastId, changes, owed>>
    BY <1>3 DEF Crash
  <2>2. RegistryTypeOK'
    BY <1>0, <1>2, <1>3, <2>1 DEF Crash, RegistryTypeOK, SpentType, BootType, TaskType, changes
  <2>3. InHand' /\ IdsInOrder' /\ ServedWhenUp'
    BY <1>0, <1>2, <1>3, <2>1, Rows DEF Crash, InHand, IdsInOrder, ServedWhenUp
  <2> QED
    BY <2>2, <2>3 DEF TypeInv
<1>4. CASE LoseDatabase
  <2>1. /\ table' = [i \in Ids |-> NoRow] /\ lastId' = 0
        /\ version' \in Nat /\ due' \in Nat /\ ported' \in Nat
        /\ owed' = {file'[n].url : n \in DOMAIN file'}
    BY <1>0, <1>4 DEF LoseDatabase, Changed
  <2>2. owed' \subseteq Urls
    <3>1. file' \in Seq(RouterRows)
      BY <1>2, <1>4 DEF LoseDatabase
    <3>2. \A n \in DOMAIN file' : file'[n] \in RouterRows
      BY <3>1
    <3> QED
      BY <2>1, <3>2 DEF RouterRows
  <2>3. RegistryTypeOK'
    <3>1. /\ table' \in [Ids -> RouterRows \cup {NoRow}] /\ lastId' \in 0..MaxIds
      BY <1>0, <2>1
    <3>2. Stop /\ Spend("faults", MaxFaults)
      BY <1>4 DEF LoseDatabase
    <3>3. /\ boot' \in BootType /\ task' \in [Requests -> TaskType]
          /\ file' \in Seq(RouterRows) /\ copied' \in Int /\ missed' \in Nat
          /\ spent' \in SpentType /\ licensed' \in BOOLEAN /\ everLicensed' \in BOOLEAN
      BY <1>0, <1>2, <3>2
    <3> QED
      BY <2>1, <2>2, <3>1, <3>3, TypesNext
  <2>4. InHand' /\ IdsInOrder' /\ ServedWhenUp'
    BY <1>0, <1>2, <1>4, <2>1, Rows DEF LoseDatabase, InHand, IdsInOrder, ServedWhenUp
  <2> QED
    BY <2>3, <2>4 DEF TypeInv
<1> QED
  BY <1>1, <1>3, <1>4

LEMMA TypeStep == TypeInv /\ [RegistryNext]_registryVars => TypeInv'
<1> SUFFICES ASSUME TypeInv, [RegistryNext]_registryVars PROVE TypeInv'
  OBVIOUS
<1>1. CASE RegistryNext
  BY <1>1, AskTypes, WriteTypes, SpreadKeeps, TaskStepTypes, StartTypes, OtherTypes DEF RegistryNext, RequestStep
<1>2. CASE UNCHANGED registryVars
  BY <1>2 DEF registryVars, copying, changes, TypeInv, RegistryTypeOK, InHand, IdsInOrder, ServedWhenUp
<1> QED
  BY <1>1, <1>2

(* The next invariants start from this one.                                     *)
LEMMA TypeAlways == RegistrySpec => []TypeInv
<1>1. RegistryInit => TypeInv
  BY TypeInit
<1>2. TypeInv /\ [RegistryNext]_registryVars => TypeInv'
  BY TypeStep
<1> QED
  BY <1>1, <1>2, PTL DEF RegistrySpec

(* The registry, the file, the start and every request keep their types.        *)
THEOREM RegistryTypes == RegistrySpec => []RegistryTypeOK
<1>1. TypeInv => RegistryTypeOK
  BY DEF TypeInv
<1> QED
  BY <1>1, TypeAlways, PTL

-----------------------------------------------------------------------------
(* What a restart has to give back: all that was lost is registered, or still   *)
(* in the file, and among the rows the start has not come to yet.  While it     *)
(* restores, it knows the registered addresses exactly: one it did not know     *)
(* would come twice, one it knew wrongly would be skipped.                      *)
UrlsOf(rows) == {rows[n].url : n \in DOMAIN rows}

OwedInv ==
    /\ boot.pc \in {"up", "persist"} => owed \subseteq Registered
    /\ boot.pc \in {"read", "restore"} => owed \subseteq Registered \cup UrlsOf(file)
    /\ boot.pc = "restore" => /\ boot.known = Registered
                              /\ owed \subseteq Registered \cup UrlsOf(boot.todo)

(* The addresses of a sequence of rows are that of its head and those behind.   *)
LEMMA UrlsOfTail ==
  ASSUME NEW X, NEW rows \in Seq(X), rows # <<>>
  PROVE  UrlsOf(rows) \subseteq {Head(rows).url} \cup UrlsOf(Tail(rows))
<1> SUFFICES ASSUME NEW n \in DOMAIN rows
             PROVE  rows[n].url \in {Head(rows).url} \cup UrlsOf(Tail(rows))
  BY DEF UrlsOf
<1>1. Tail(rows) \in Seq(X) /\ Len(Tail(rows)) = Len(rows) - 1 /\ n \in 1..Len(rows)
  OBVIOUS
<1>2. CASE n = 1
  <2>1. rows[1] = Head(rows)
    OBVIOUS
  <2> QED
    BY <1>2, <2>1
<1>3. CASE n # 1
  <2>1. n - 1 \in 1..Len(Tail(rows)) /\ Tail(rows)[n - 1] = rows[n]
    BY <1>1, <1>3
  <2>2. n - 1 \in DOMAIN Tail(rows)
    BY <1>1, <2>1
  <2> QED
    BY <2>1, <2>2 DEF UrlsOf
<1> QED
  BY <1>2, <1>3

(* A row in a free place adds its address.                                      *)
LEMMA RegisteredGrows ==
  ASSUME RegistryTypeOK, NEW i \in Ids, table[i] = NoRow,
         NEW row \in RouterRows, table' = [table EXCEPT ![i] = row]
  PROVE  Registered' = Registered \cup {row.url}
<1>1. row # NoRow /\ table'[i] = row /\ \A j \in Ids : j # i => table'[j] = table[j]
  BY Rows, Types
<1>2. Live' = Live \cup {i} /\ i \notin Live
  BY <1>1 DEF Live
<1>3. Registered' = {table'[j].url : j \in Live'}
  BY DEF Registered
<1>4. \A j \in Live : table'[j] = table[j]
  BY <1>1, <1>2 DEF Live
<1> QED
  BY <1>1, <1>2, <1>3, <1>4 DEF Registered

(* A row that changes or goes takes away no address but its own.                *)
LEMMA OwedStays ==
  ASSUME owed \subseteq Registered, table \in [Ids -> RouterRows \cup {NoRow}],
         NEW i \in Ids, NEW row, table' = [table EXCEPT ![i] = row],
         owed' = owed \ {table[i].url}
  PROVE  owed' \subseteq Registered'
<1> SUFFICES ASSUME NEW u \in owed' PROVE u \in Registered'
  OBVIOUS
<1>1. PICK j \in Live : u = table[j].url
  BY DEF Registered
<1>2. j # i /\ j \in Ids /\ table'[j] = table[j]
  BY <1>1 DEF Live
<1> QED
  BY <1>1, <1>2 DEF Registered, Live

LEMMA OwedWrites ==
  ASSUME TypeInv, OwedInv, NEW t \in Requests, Insert(t) \/ Update(t) \/ Remove(t)
  PROVE  OwedInv'
<1>1. /\ RegistryTypeOK /\ table \in [Ids -> RouterRows \cup {NoRow}] /\ lastId \in 0..MaxIds
      /\ IdsInOrder /\ boot.pc = "up" /\ owed \subseteq Registered /\ boot' = boot
  BY Types DEF TypeInv, ServedWhenUp, OwedInv, Insert, Update, Remove, Write
<1>2. CASE Insert(t)
  <2>1. /\ table' = [table EXCEPT ![lastId + 1] = task[t].row] /\ task[t].row \in RouterRows
        /\ owed' = owed /\ lastId < MaxIds
    BY <1>2, WriteTypes DEF Insert
  <2>2. lastId + 1 \in Ids /\ table[lastId + 1] = NoRow
    BY <1>1, <2>1, Rows DEF IdsInOrder, Ids
  <2>3. Registered \subseteq Registered'
    BY <1>1, <2>1, <2>2, RegisteredGrows
  <2> QED
    BY <1>1, <2>1, <2>3 DEF OwedInv
<1>3. CASE Update(t) \/ Remove(t)
  <2>1. /\ task[t].id \in Ids /\ owed' = owed \ {table[task[t].id].url}
        /\ \E row : table' = [table EXCEPT ![task[t].id] = row]
    BY <1>3 DEF Update, Remove, Write, Live
  <2>2. owed' \subseteq Registered'
    BY <1>1, <2>1, OwedStays
  <2> QED
    BY <1>1, <2>2 DEF OwedInv
<1> QED
  BY <1>2, <1>3

LEMMA OwedStarts ==
  ASSUME TypeInv, OwedInv, Starting
  PROVE  OwedInv'
<1>1. RegistryTypeOK /\ file \in Seq(RouterRows) /\ boot \in BootType
  BY Types DEF TypeInv
<1>2. CASE BootRead
  <2>1. /\ owed \subseteq Registered \cup UrlsOf(file)
        /\ UNCHANGED <<table, owed, file>> /\ Registered' = Registered
    BY <1>2, SnapshotSame DEF OwedInv, BootRead, copying, changes
  <2>2. CASE file = <<>>
    <3>1. boot'.pc = "persist"
      BY <1>2, <2>2 DEF BootRead, Up
    <3>2. UrlsOf(file) = {}
      BY <2>2 DEF UrlsOf
    <3> QED
      BY <2>1, <3>1, <3>2 DEF OwedInv
  <2>3. CASE file # <<>>
    <3>1. boot' = [pc |-> "restore", todo |-> file, known |-> Registered]
      BY <1>2, <2>3 DEF BootRead
    <3> QED
      BY <2>1, <3>1 DEF OwedInv
  <2> QED
    BY <2>2, <2>3
<1>3. ASSUME boot.pc = "restore", boot.todo # <<>>, Head(boot.todo).url \in Registered'
      PROVE  UrlsOf(boot.todo) \subseteq Registered' \cup UrlsOf(Tail(boot.todo))
  BY <1>1, <1>3, UrlsOfTail DEF BootType
<1>4. CASE RestoreKnown
  <2>1. /\ boot.pc = "restore" /\ boot.todo # <<>> /\ UNCHANGED <<table, owed, file>>
        /\ boot' = [boot EXCEPT !.todo = Tail(boot.todo)]
        /\ Head(boot.todo).url \in boot.known /\ Registered' = Registered
    BY <1>4, SnapshotSame DEF RestoreKnown, copying, changes
  <2>2. boot'.pc = "restore" /\ boot'.todo = Tail(boot.todo) /\ boot'.known = boot.known
    BY <1>1, <2>1 DEF BootType
  <2> QED
    BY <1>3, <2>1, <2>2 DEF OwedInv
<1>5. CASE RestoreRow
  <2>1. /\ boot.pc = "restore" /\ boot.todo # <<>> /\ UNCHANGED <<owed, file>>
        /\ table' = [table EXCEPT ![lastId + 1] = Head(boot.todo)]
        /\ Head(boot.todo) \in RouterRows /\ lastId + 1 \in Ids /\ table[lastId + 1] = NoRow
    BY <1>5, StartTypes DEF RestoreRow, copying, changes
  <2>2. Registered' = Registered \cup {Head(boot.todo).url}
    BY <1>1, <2>1, RegisteredGrows
  <2>3. boot' = [boot EXCEPT !.todo = Tail(boot.todo), !.known = boot.known \cup {Head(boot.todo).url}]
    BY <1>5 DEF RestoreRow, KnownAfter
  <2>4. /\ boot'.pc = "restore" /\ boot'.todo = Tail(boot.todo)
        /\ boot'.known = boot.known \cup {Head(boot.todo).url}
    BY <1>1, <2>1, <2>3 DEF BootType
  <2> QED
    BY <1>3, <2>1, <2>2, <2>4 DEF OwedInv
<1>6. CASE BootPersist
  <2>1. owed \subseteq Registered
    <3>1. CASE boot.pc = "persist"
      BY <3>1 DEF OwedInv
    <3>2. CASE Restored
      BY <3>2 DEF OwedInv, Restored, UrlsOf
    <3> QED
      BY <1>6, <3>1, <3>2 DEF BootPersist
  <2>2. boot'.pc = "up" /\ owed' = owed /\ Registered' = Registered
    BY <1>6, Rows, SnapshotSame DEF BootPersist
  <2> QED
    BY <2>1, <2>2 DEF OwedInv
<1> QED
  BY <1>2, <1>4, <1>5, <1>6 DEF Starting

(* A crash that tears the file comes when all of it has been restored.          *)
LEMMA OwedStops ==
  ASSUME TypeInv, OwedInv, Crash \/ LoseDatabase
  PROVE  OwedInv'
<1>1. ServedWhenUp /\ boot \in BootType /\ boot' = Booting /\ boot'.pc = "read"
  BY Types, Rows DEF TypeInv, Crash, LoseDatabase, Stop
<1>2. CASE LoseDatabase
  BY <1>1, <1>2 DEF LoseDatabase, OwedInv, UrlsOf
<1>3. CASE Crash
  <2>1. owed' = owed /\ Registered' = Registered
    BY <1>3, SnapshotSame DEF Crash
  <2>2. file' = file \/ Writing
    BY <1>3 DEF Crash, Stop, copying, changes
  <2>3. owed \subseteq Registered \/ (file' = file /\ owed \subseteq Registered \cup UrlsOf(file))
    <3>1. CASE boot.pc \in {"up", "persist"}
      BY <3>1 DEF OwedInv
    <3>2. CASE boot.pc = "read"
      BY <1>1, <2>2, <3>2 DEF OwedInv, ServedWhenUp, Writing, Restored
    <3>3. CASE boot.pc = "restore"
      BY <1>1, <2>2, <3>3 DEF OwedInv, ServedWhenUp, Writing, Restored, UrlsOf
    <3> QED
      BY <1>1, <3>1, <3>2, <3>3 DEF BootType
  <2> QED
    BY <1>1, <2>1, <2>3 DEF OwedInv
<1> QED
  BY <1>2, <1>3

LEMMA OwedStep == TypeInv /\ OwedInv /\ [RegistryNext]_registryVars => OwedInv'
<1> SUFFICES ASSUME TypeInv, OwedInv, [RegistryNext]_registryVars PROVE OwedInv'
  OBVIOUS
<1>1. ASSUME UNCHANGED <<table, owed, boot>>, file' = file \/ boot.pc = "up" PROVE OwedInv'
  <2>1. Registered' = Registered
    BY <1>1, SnapshotSame
  <2> QED
    BY <1>1, <2>1 DEF OwedInv
<1>2. ASSUME NEW t \in Requests, Copying(t) PROVE boot.pc = "up"
  BY <1>2 DEF TypeInv, ServedWhenUp, Copying, Persist, SaveFile, SaveFileFails
<1>3. CASE RegistryNext
  <2>1. ASSUME NEW t \in Requests, Copying(t) PROVE OwedInv'
    BY <1>1, <1>2, <2>1 DEF Copying, Persist, SaveFile, SaveFileFails
  <2>2. ASSUME NEW t \in Requests,
               \/ \E row \in Bodies : AskCreate(t, row) \/ \E i \in Live : AskUpdate(t, i, row)
               \/ \E i \in Live : AskToggle(t, i) \/ AskRemove(t, i)
               \/ \E port \in Ports \cup {NoPort} : AskSettings(t, port)
               \/ Check(t) \/ Gone(t)
        PROVE  OwedInv'
    BY <1>1, <2>2 DEF AskCreate, AskUpdate, AskToggle, AskRemove, AskSettings, Ask, Check, Gone, copying
  <2>3. CASE Decide
    BY <1>1, <2>3 DEF Decide, copying, changes
  <2>4. ASSUME NEW t \in Requests, Spread(t) PROVE OwedInv'
    BY <2>4, SpreadKeeps DEF Spread, OwedInv
  <2> QED
    BY <1>3, <2>1, <2>2, <2>3, <2>4, OwedWrites, OwedStarts, OwedStops DEF RegistryNext, RequestStep
<1>4. CASE UNCHANGED registryVars
  BY <1>1, <1>4 DEF registryVars, copying, changes
<1> QED
  BY <1>3, <1>4

LEMMA OwedAlways == RegistrySpec => [](TypeInv /\ OwedInv)
<1>1. RegistryInit => OwedInv
  BY Rows DEF RegistryInit, OwedInv
<1>2. TypeInv /\ OwedInv /\ [RegistryNext]_registryVars => OwedInv'
  BY OwedStep
<1> QED
  BY <1>1, <1>2, TypeAlways, PTL DEF RegistrySpec

(* A restart on an empty database gives back every router the file held, however *)
(* often the process crashes in the middle of it.                               *)
THEOREM RestoreGivesBack == RegistrySpec => []RestoreCompletes
<1>1. OwedInv => RestoreCompletes
  BY DEF OwedInv, RestoreCompletes
<1> QED
  BY <1>1, OwedAlways, PTL

(* The start registers no address that is registered, whatever the file says.   *)
THEOREM RestoresOnce == RegistrySpec => RestoredOnce
<1>1. ASSUME TypeInv, OwedInv, [RegistryNext]_registryVars, NEW i \in Ids,
             boot.pc = "restore", table[i] = NoRow, table'[i] # NoRow
      PROVE  table'[i].url \notin Registered
  <2>1. \A t \in Requests : task[t].pc = "idle"
    BY <1>1 DEF TypeInv, ServedWhenUp
  <2>2. table' # table /\ ~ LoseDatabase
    BY <1>1 DEF LoseDatabase
  <2>3. RestoreRow
    <3>1. \A t \in Requests : ~ Insert(t) /\ ~ Update(t) /\ ~ Remove(t) /\ ~ Spread(t)
      BY <2>1 DEF Insert, Update, Remove, Spread
    <3>2. \A t \in Requests : ~ Check(t) /\ ~ Gone(t) /\ ~ Copying(t)
      BY <2>2 DEF Check, Gone, Copying, Persist, SaveFile, SaveFileFails
    <3>3. \A t \in Requests :
            /\ ~ \E row \in Bodies : AskCreate(t, row) \/ \E j \in Live : AskUpdate(t, j, row)
            /\ ~ \E j \in Live : AskToggle(t, j) \/ AskRemove(t, j)
            /\ ~ \E port \in Ports \cup {NoPort} : AskSettings(t, port)
      BY <2>2 DEF AskCreate, AskUpdate, AskToggle, AskRemove, AskSettings, Ask
    <3>4. ~ BootRead /\ ~ RestoreKnown /\ ~ BootPersist /\ ~ Decide /\ ~ Crash
      BY <2>2 DEF BootRead, RestoreKnown, BootPersist, Decide, Crash
    <3>5. RegistryNext
      BY <1>1, <2>2 DEF registryVars
    <3> QED
      BY <2>2, <3>1, <3>2, <3>3, <3>4, <3>5 DEF RegistryNext, RequestStep, Starting
  <2>4. /\ table \in [Ids -> RouterRows \cup {NoRow}]
        /\ table' = [table EXCEPT ![lastId + 1] = Head(boot.todo)]
        /\ Head(boot.todo).url \notin boot.known
    BY <1>1, <2>3, Types DEF RestoreRow, TypeInv
  <2>5. table'[i] = Head(boot.todo)
    BY <1>1, <2>4
  <2> QED
    BY <1>1, <2>4, <2>5 DEF OwedInv
<1>2. TypeInv /\ OwedInv /\ [RegistryNext]_registryVars
        => [\A i \in Ids : boot.pc = "restore" /\ table[i] = NoRow /\ table'[i] # NoRow
                           => table'[i].url \notin Registered]_registryVars
  BY <1>1
<1> QED
  BY <1>2, OwedAlways, PTL DEF RegistrySpec, RestoredOnce

-----------------------------------------------------------------------------
(* What the file holds.  The newest change that has a copy made after it is in  *)
(* the file, or did not reach it, or a request that will write it, or rows as    *)
(* new, is under way: the request whose own write made that change may long be  *)
(* done.  Rows as new as that change differ from the table in ports at most.    *)
Pending(t) == task[t].pc = "persist" \/ (task[t].pc = "save" /\ task[t].at >= due)

AsNew(rows, at) ==
    /\ at <= version
    /\ at = version => rows = Snapshot
    /\ at >= due => ButForPorts(rows) = ButForPorts(Snapshot)

CopyInv ==
    /\ copied >= -1 /\ missed <= version
    /\ due <= version /\ ported <= version /\ version \in {due, ported}
    /\ AsNew(file, copied)
    /\ \A t \in Requests : task[t].pc = "save" => AsNew(task[t].seen, task[t].at)
    /\ boot.pc = "up" /\ copied < due /\ missed < due => \E t \in Requests : Pending(t)

LEMMA Numbers ==
  ASSUME TypeInv
  PROVE  /\ version \in Nat /\ due \in Nat /\ ported \in Nat
         /\ copied \in Int /\ missed \in Nat /\ boot \in BootType
         /\ task \in [Requests -> TaskType] /\ \A t \in Requests : task[t].at \in Nat
         /\ spent \in SpentType
<1>1. /\ version \in Nat /\ due \in Nat /\ ported \in Nat
      /\ copied \in Int /\ missed \in Nat /\ boot \in BootType
      /\ task \in [Requests -> TaskType] /\ spent \in SpentType
  BY Types DEF TypeInv
<1> QED
  BY <1>1 DEF TaskType

(* A change that a copy follows: nothing holds it yet.                          *)
LEMMA CopyChanged ==
  ASSUME TypeInv, CopyInv, Changed, copied' \in Int, copied' >= -1, copied' <= version,
         missed' \in Nat, missed' <= version,
         \A t \in Requests : task'[t].pc = "save" => task'[t] = task[t],
         boot'.pc = "up" => \E t \in Requests : Pending(t)'
  PROVE  CopyInv'
<1>1. version' = version + 1 /\ due' = version + 1 /\ ported' = ported
  BY DEF Changed
<1>2. ASSUME NEW rows, NEW at \in Int, at <= version
      PROVE  /\ at <= version' /\ at # version' /\ ~(at >= due')
  BY <1>1, <1>2, Numbers
<1>3. AsNew(file, copied)'
  BY <1>2 DEF AsNew
<1>4. \A t \in Requests : task'[t].pc = "save" => AsNew(task[t].seen, task[t].at)'
  BY <1>2, Numbers DEF AsNew, CopyInv
<1>5. /\ missed' <= version' /\ due' <= version' /\ ported' <= version'
      /\ version' \in {due', ported'}
  BY <1>1, Numbers DEF CopyInv
<1> QED
  BY <1>3, <1>4, <1>5 DEF CopyInv

(* The request that made it will read it.                                       *)
LEMMA CopyWrites ==
  ASSUME TypeInv, CopyInv, NEW t \in Requests, Insert(t) \/ Update(t) \/ Remove(t)
  PROVE  CopyInv'
<1>1. /\ UNCHANGED <<copied, missed>> /\ Changed
      /\ Become(t, [Idle EXCEPT !.pc = "persist"])
  BY DEF Insert, Update, Remove, Write, copying
<1>2. /\ task'[t].pc = "persist" /\ \A u \in Requests : u # t => task'[u] = task[u]
  BY <1>1, Numbers DEF Become, Idle, TaskType
<1>3. Pending(t)'
  BY <1>2 DEF Pending
<1>4. \A u \in Requests : task'[u].pc = "save" => task'[u] = task[u]
  BY <1>2
<1>5. copied >= -1 /\ copied <= version /\ missed <= version
  BY DEF CopyInv, AsNew
<1> QED
  BY <1>1, <1>3, <1>4, <1>5, CopyChanged, Numbers

(* The ports are given to every router, and no copy follows: what is in the     *)
(* file or on its way there is as new as it was but for the ports.              *)
LEMMA CopySpread ==
  ASSUME TypeInv, CopyInv, NEW t \in Requests, Spread(t)
  PROVE  CopyInv'
<1>1. /\ version' = version + 1 /\ ported' = version + 1 /\ due' = due
      /\ UNCHANGED <<file, copied, missed, boot>> /\ Become(t, Idle) /\ task[t].pc = "spread"
  BY DEF Spread, copying
<1>2. /\ task'[t].pc = "idle" /\ \A u \in Requests : u # t => task'[u] = task[u]
  BY <1>1, Numbers, Rows DEF Become
<1>3. ButForPorts(Snapshot') = ButForPorts(Snapshot)
  BY SpreadKeeps
<1>4. ASSUME NEW rows, NEW at \in Int, AsNew(rows, at)
      PROVE  /\ at <= version' /\ at # version'
             /\ at >= due' => ButForPorts(rows) = ButForPorts(Snapshot')
  BY <1>1, <1>3, <1>4, Numbers DEF AsNew
<1>5. AsNew(file, copied)'
  BY <1>1, <1>4, Numbers DEF AsNew, CopyInv
<1>6. \A u \in Requests : task'[u].pc = "save" => AsNew(task[u].seen, task[u].at)'
  BY <1>2, <1>4, Numbers DEF AsNew, CopyInv
<1>7. /\ copied' >= -1 /\ missed' <= version' /\ due' <= version' /\ ported' <= version'
      /\ version' \in {due', ported'}
  BY <1>1, Numbers DEF CopyInv
<1>8. \A u \in Requests : Pending(u) => Pending(u)'
  BY <1>1, <1>2 DEF Pending
<1>9. boot'.pc = "up" /\ copied' < due' /\ missed' < due' => \E u \in Requests : Pending(u)'
  BY <1>1, <1>8 DEF CopyInv
<1> QED
  BY <1>5, <1>6, <1>7, <1>9 DEF CopyInv

(* Steps of requests that leave the table and the file alone.                   *)
LEMMA CopyQuiet ==
  ASSUME TypeInv, CopyInv, UNCHANGED <<table, changes, copying>>,
         boot'.pc = "up" => boot.pc = "up",
         \A t \in Requests : /\ task'[t].pc # "save" \/ task'[t] = task[t]
                             /\ task[t].pc \in {"persist", "save"} => boot'.pc # "up" \/ task'[t] = task[t]
  PROVE  CopyInv'
<1>1. /\ Snapshot' = Snapshot /\ UNCHANGED <<file, copied, missed, version, due, ported>>
  BY SnapshotSame DEF copying, changes
<1>2. \A t \in Requests : Pending(t) /\ boot'.pc = "up" => Pending(t)'
  BY <1>1 DEF Pending
<1>3. \A t \in Requests : task'[t].pc = "save" => AsNew(task[t].seen, task[t].at)'
  BY <1>1 DEF CopyInv, AsNew
<1> QED
  BY <1>1, <1>2, <1>3 DEF CopyInv, AsNew

LEMMA CopyCopies ==
  ASSUME TypeInv, CopyInv, NEW t \in Requests, Copying(t)
  PROVE  CopyInv'
<1>0. /\ UNCHANGED <<version, due, ported, boot>> /\ Snapshot' = Snapshot
      /\ \A u \in Requests : u # t => task'[u] = task[u]
  <2>1. /\ UNCHANGED <<table, changes, boot>> /\ \E r : Become(t, r)
    BY DEF Copying, Persist, SaveFile, SaveFileFails, CopyEnds
  <2> QED
    BY <2>1, SnapshotSame, Numbers DEF Become, changes
<1>2. CASE Persist(t)
  <2> DEFINE r == [task[t] EXCEPT !.pc = "save", !.seen = Snapshot, !.at = version]
  <2>1. task' = [task EXCEPT ![t] = r] /\ UNCHANGED <<file, copied, missed>>
    BY <1>2 DEF Persist, Become, copying
  <2>2. r.pc = "save" /\ r.seen = Snapshot /\ r.at = version
    BY Numbers DEF TaskType
  <2> HIDE DEF r
  <2>3. task'[t] = r
    BY <2>1, Numbers
  <2>4. Pending(t)'
    BY <1>0, <2>2, <2>3, Numbers DEF Pending, CopyInv
  <2>5. \A u \in Requests : task'[u].pc = "save" => AsNew(task[u].seen, task[u].at)'
    BY <1>0, <2>2, <2>3, Numbers DEF CopyInv, AsNew
  <2> QED
    BY <1>0, <2>1, <2>4, <2>5 DEF CopyInv, AsNew
<1>3. CASE SaveFile(t) \/ SaveFileFails(t)
  <2>1. task'[t].pc \in {"idle", "spread"}
    <3>1. PICK r : Become(t, r) /\ r.pc \in {"idle", "spread"}
      BY <1>3, EndsIdle DEF SaveFile, SaveFileFails
    <3> QED
      BY <3>1, Numbers DEF Become
  <2>2. \A u \in Requests : task'[u].pc = "save" => AsNew(task[u].seen, task[u].at)'
    BY <1>0, <2>1 DEF CopyInv, AsNew
  <2>3. CASE SaveFile(t)
    <3>1. /\ task[t].pc = "save" /\ file' = task[t].seen /\ copied' = task[t].at
          /\ missed' = IF task[t].at < copied THEN Later(missed, copied) ELSE missed
      BY <2>3 DEF SaveFile, Copy
    <3>2. copied' >= -1 /\ missed' <= version' /\ missed' \in Nat
      BY <1>0, <3>1, Numbers DEF CopyInv, AsNew, Later
    <3>3. AsNew(file, copied)'
      BY <1>0, <3>1 DEF CopyInv, AsNew
    <3>4. ASSUME boot'.pc = "up", copied' < due', missed' < due'
          PROVE  \E u \in Requests : Pending(u)'
      <4>1. copied < due /\ missed < due /\ ~ (task[t].at >= due)
        BY <1>0, <3>1, <3>4, Numbers DEF Later
      <4>2. PICK u \in Requests : Pending(u)
        BY <1>0, <3>4, <4>1 DEF CopyInv
      <4>3. u # t
        BY <3>1, <4>1, <4>2 DEF Pending
      <4> QED
        BY <1>0, <4>2, <4>3 DEF Pending
    <3> QED
      BY <1>0, <2>2, <3>2, <3>3, <3>4 DEF CopyInv
  <2>4. CASE SaveFileFails(t)
    <3> DEFINE at == IF task[t].pc = "save" THEN task[t].at ELSE version
    <3>1. /\ task[t].pc \in {"persist", "save"} /\ UNCHANGED <<file, copied>>
          /\ missed' = Later(missed, at)
      BY <2>4 DEF SaveFileFails, NotCopied
    <3>2. at <= version /\ at \in Nat /\ (at < due => ~ Pending(t))
      BY <3>1, Numbers DEF CopyInv, Pending, AsNew
    <3> HIDE DEF at
    <3>3. missed' <= version' /\ missed' >= at /\ missed' >= missed /\ missed' \in Nat
      BY <1>0, <3>1, <3>2, Numbers DEF CopyInv, Later
    <3>4. ASSUME boot'.pc = "up", copied' < due', missed' < due'
          PROVE  \E u \in Requests : Pending(u)'
      <4>1. copied < due /\ missed < due /\ at < due
        BY <1>0, <3>1, <3>2, <3>3, <3>4, Numbers
      <4>2. PICK u \in Requests : Pending(u)
        BY <1>0, <3>4, <4>1 DEF CopyInv
      <4>3. u # t
        BY <3>2, <4>1, <4>2
      <4> QED
        BY <1>0, <4>2, <4>3 DEF Pending
    <3>5. copied' >= -1 /\ AsNew(file, copied)'
      BY <1>0, <3>1 DEF CopyInv, AsNew
    <3> QED
      BY <1>0, <2>2, <3>3, <3>4, <3>5 DEF CopyInv
  <2> QED
    BY <1>3, <2>3, <2>4
<1> QED
  BY <1>2, <1>3 DEF Copying

(* The start, with no request under way: it reads the table and writes it at once. *)
LEMMA CopyStarts ==
  ASSUME TypeInv, CopyInv, Starting
  PROVE  CopyInv'
<1>1. /\ task' = task /\ \A t \in Requests : task[t].pc = "idle"
  BY DEF TypeInv, ServedWhenUp, Starting, BootRead, RestoreKnown, RestoreRow, BootPersist, Restored
<1>2. \A t \in Requests : task'[t].pc # "save"
  BY <1>1
<1>3. CASE BootRead \/ RestoreKnown
  <2>1. UNCHANGED <<table, changes, copying>> /\ boot'.pc # "up"
    BY <1>3, Numbers DEF BootRead, RestoreKnown, Up, BootType
  <2> QED
    BY <1>1, <2>1, CopyQuiet
<1>4. CASE RestoreRow
  <2>1. UNCHANGED <<copied, missed>> /\ Changed /\ boot'.pc # "up"
    BY <1>4, Numbers DEF RestoreRow, BootType, copying
  <2>2. copied >= -1 /\ copied <= version /\ missed <= version
    BY DEF CopyInv, AsNew
  <2> QED
    BY <1>2, <2>1, <2>2, CopyChanged, Numbers
<1>5. CASE BootPersist
  <2>1. UNCHANGED <<version, due, ported>> /\ Snapshot' = Snapshot
    BY <1>5, SnapshotSame DEF BootPersist, changes
  <2>2. due <= version /\ ported <= version /\ version \in {due, ported} /\ missed <= version
    BY DEF CopyInv
  <2>3. CASE Copy(Snapshot, version)
    <3>1. copied' = version /\ file' = Snapshot /\ missed' <= version
      BY <2>3, Numbers DEF Copy, Later, CopyInv, AsNew
    <3>2. copied' >= -1 /\ ~ (copied' < due') /\ AsNew(file, copied)'
      BY <2>1, <2>2, <3>1, Numbers DEF AsNew
    <3> QED
      BY <1>2, <2>1, <2>2, <3>1, <3>2 DEF CopyInv
  <2>4. CASE NotCopied(version)
    <3>1. missed' = version /\ UNCHANGED <<file, copied>>
      BY <2>2, <2>4, Numbers DEF NotCopied, Later
    <3>2. ~ (missed' < due') /\ missed' <= version' /\ AsNew(file, copied)' /\ copied' >= -1
      BY <2>1, <2>2, <3>1, Numbers DEF AsNew, CopyInv
    <3> QED
      BY <1>2, <2>1, <2>2, <3>1, <3>2 DEF CopyInv
  <2> QED
    BY <1>5, <2>3, <2>4 DEF BootPersist
<1> QED
  BY <1>3, <1>4, <1>5 DEF Starting

LEMMA CopyStops ==
  ASSUME TypeInv, CopyInv, Crash \/ LoseDatabase
  PROVE  CopyInv'
<1>1. /\ boot'.pc = "read" /\ \A t \in Requests : task'[t].pc = "idle"
  BY Rows DEF Crash, LoseDatabase, Stop
<1>2. \/ UNCHANGED <<file, copied, missed>>
      \/ copied' = -1 /\ missed' \in {missed, Later(missed, copied)}
  BY DEF Crash, LoseDatabase, Stop, Copy, copying
<1>3. copied' >= -1 /\ copied' <= version /\ missed' <= version /\ missed' \in Nat /\ copied' \in Int
  <2>1. CASE UNCHANGED <<file, copied, missed>>
    BY <2>1, Numbers DEF CopyInv, AsNew
  <2>2. CASE copied' = -1 /\ missed' \in {missed, Later(missed, copied)}
    <3>1. -1 <= version /\ copied' = -1
      BY <2>2, Numbers
    <3>2. missed' <= version
      BY <2>2, Numbers DEF CopyInv, AsNew, Later
    <3>3. missed' \in Nat
      <4>1. missed' = missed \/ (missed' = copied /\ missed < copied)
        BY <2>2 DEF Later
      <4> QED
        BY <4>1, Numbers
    <3> QED
      BY <3>1, <3>2, <3>3
  <2> QED
    BY <1>2, <2>1, <2>2
<1>4. CASE Crash
  <2>1. UNCHANGED <<version, due, ported>> /\ Snapshot' = Snapshot
    BY <1>4, SnapshotSame DEF Crash, changes
  <2>2. AsNew(file, copied)'
    <3>1. CASE UNCHANGED <<file, copied, missed>>
      BY <2>1, <3>1 DEF AsNew, CopyInv
    <3>2. CASE copied' = -1
      BY <2>1, <3>2, Numbers DEF AsNew
    <3> QED
      BY <1>2, <3>1, <3>2
  <2> QED
    BY <1>1, <1>3, <2>1, <2>2 DEF CopyInv
<1>5. CASE LoseDatabase
  <2>1. Changed /\ \A t \in Requests : task'[t].pc # "save"
    BY <1>1, <1>5 DEF LoseDatabase
  <2> QED
    BY <1>1, <1>3, <2>1, CopyChanged
<1> QED
  BY <1>4, <1>5

LEMMA CopyStep == TypeInv /\ CopyInv /\ [RegistryNext]_registryVars => CopyInv'
<1> SUFFICES ASSUME TypeInv, CopyInv, [RegistryNext]_registryVars PROVE CopyInv'
  OBVIOUS
<1>1. CASE RegistryNext
  <2>1. ASSUME NEW t \in Requests, NEW r, Become(t, r), r.pc # "save",
               task[t].pc \notin {"persist", "save"}, UNCHANGED <<table, changes, copying, boot>>
        PROVE  CopyInv'
    <3>1. task'[t] = r /\ \A u \in Requests : u # t => task'[u] = task[u]
      BY <2>1, Numbers DEF Become
    <3> QED
      BY <2>1, <3>1, CopyQuiet
  <2>2. ASSUME NEW t \in Requests,
               \/ \E row \in Bodies : AskCreate(t, row) \/ \E i \in Live : AskUpdate(t, i, row)
               \/ \E i \in Live : AskToggle(t, i) \/ AskRemove(t, i)
               \/ \E port \in Ports \cup {NoPort} : AskSettings(t, port)
        PROVE  CopyInv'
    <3>1. ASSUME NEW r, Ask(t, r), r.pc # "save" PROVE CopyInv'
      BY <2>1, <3>1 DEF Ask
    <3>2. CASE \E row \in Bodies : AskCreate(t, row)
      BY <3>1, <3>2 DEF AskCreate, Idle
    <3>3. CASE \E row \in Bodies : \E i \in Live : AskUpdate(t, i, row)
      BY <3>1, <3>3 DEF AskUpdate, Idle
    <3>4. ASSUME NEW i \in Live, AskToggle(t, i) PROVE CopyInv'
      <4> DEFINE row == [table[i] EXCEPT !.disabled = ~@]
      <4>1. Ask(t, [Idle EXCEPT !.pc = "toggle", !.id = i, !.row = row])
        BY <3>4 DEF AskToggle
      <4> HIDE DEF row
      <4> QED
        BY <3>1, <4>1 DEF Idle
    <3>5. CASE \E i \in Live : AskRemove(t, i)
      BY <3>1, <3>5 DEF AskRemove, Idle
    <3>6. CASE \E port \in Ports \cup {NoPort} : AskSettings(t, port)
      BY <3>1, <3>6 DEF AskSettings, Idle
    <3> QED
      BY <2>2, <3>2, <3>3, <3>4, <3>5, <3>6
  <2>3. ASSUME NEW t \in Requests, Check(t) \/ Gone(t) PROVE CopyInv'
    <3>1. PICK r : Become(t, r) /\ r.pc \in {"idle", "find", "insert"}
      <4>1. \A pc \in {"find", "insert"} : [task[t] EXCEPT !.pc = pc].pc = pc
        BY Numbers DEF TaskType
      <4> QED
        BY <2>3, <4>1, Rows DEF Check, Gone, GoOn
    <3>2. task[t].pc \notin {"persist", "save"} /\ UNCHANGED <<table, changes, copying, boot>>
      BY <2>3 DEF Check, Gone
    <3> QED
      BY <2>1, <3>1, <3>2
  <2>4. CASE Decide
    BY <2>4, CopyQuiet DEF Decide
  <2> QED
    BY <1>1, <2>2, <2>3, <2>4, CopyWrites, CopySpread, CopyCopies, CopyStarts, CopyStops
    DEF RegistryNext, RequestStep
<1>2. CASE UNCHANGED registryVars
  BY <1>2, CopyQuiet DEF registryVars
<1> QED
  BY <1>1, <1>2

(* When nothing is being copied the file holds the rows of the table, unless a   *)
(* write of it failed or an older copy was written over it; after a PUT of the  *)
(* settings only their ports may be older, until the next copy.                 *)
THEOREM FileComesInLine == RegistrySpec => []FileIsTable
<1>1. RegistryInit => CopyInv
  <2>1. ASSUME RegistryInit PROVE \A t \in Requests : task[t].pc # "save"
    BY <2>1, Rows DEF RegistryInit
  <2> QED
    BY <2>1 DEF RegistryInit, CopyInv, AsNew
<1>2. TypeInv /\ CopyInv /\ [RegistryNext]_registryVars => CopyInv'
  BY CopyStep
<1>3. TypeInv /\ CopyInv => FileIsTable
  <2> SUFFICES ASSUME TypeInv, CopyInv, Copied, copied >= missed
               PROVE  IF copied < ported THEN ButForPorts(file) = ButForPorts(Snapshot)
                      ELSE file = Snapshot
    BY DEF FileIsTable
  <2>1. copied >= due
    <3>1. \A t \in Requests : ~ Pending(t)
      BY DEF Copied, Pending
    <3> QED
      BY <3>1, Numbers DEF Copied, CopyInv
  <2>2. ~ (copied < ported) => copied = version
    BY <2>1, Numbers DEF CopyInv, AsNew
  <2> QED
    BY <2>1, <2>2 DEF CopyInv, AsNew
<1> QED
  BY <1>1, <1>2, <1>3, TypeAlways, PTL DEF RegistrySpec

-----------------------------------------------------------------------------
(* Without a license a long retention is nowhere a step could take it from: not *)
(* in the table or the file, not in rows that wait to be restored or saved, and *)
(* not in a request that has passed its check.                                  *)
NoneLong(rows) == \A n \in DOMAIN rows : ~rows[n].long

LongInv ==
    ~everLicensed =>
      /\ ~licensed
      /\ \A i \in Live : ~table[i].long
      /\ NoneLong(file)
      /\ boot.pc = "restore" => NoneLong(boot.todo)
      /\ \A t \in Requests :
            /\ task[t].pc \in {"find", "insert", "update"} => ~task[t].row.long
            /\ task[t].pc = "save" => NoneLong(task[t].seen)

LEMMA SnapshotNotLong ==
  ASSUME TypeInv, LongInv, ~everLicensed PROVE NoneLong(Snapshot)
<1>1. /\ Snapshot \in Seq(RouterRows)
      /\ \A n \in 1..Len(Snapshot) : \E i \in Live : Snapshot[n] = table[i]
  BY Snapshots DEF TypeInv
<1>2. DOMAIN Snapshot = 1..Len(Snapshot)
  BY <1>1
<1> QED
  BY <1>1, <1>2 DEF LongInv, NoneLong

(* A step that moves a request, and may change the table and the file.          *)
LEMMA LongMoves ==
  ASSUME TypeInv, LongInv, NEW t \in Requests, NEW r, Become(t, r),
         UNCHANGED <<licensed, boot, everLicensed>>,
         ~everLicensed =>
           /\ r.pc \in {"find", "insert", "update"} => ~r.row.long
           /\ r.pc = "save" => NoneLong(r.seen)
           /\ \A i \in Live' : ~table'[i].long
           /\ NoneLong(file')
  PROVE  LongInv'
<1>1. task'[t] = r /\ \A u \in Requests : u # t => task'[u] = task[u]
  BY Numbers DEF Become
<1> QED
  BY <1>1 DEF LongInv

LEMMA LongAsks ==
  ASSUME TypeInv, LongInv, NEW t \in Requests,
         \/ \E row \in Bodies : AskCreate(t, row) \/ \E i \in Live : AskUpdate(t, i, row)
         \/ \E i \in Live : AskToggle(t, i) \/ AskRemove(t, i)
         \/ \E port \in Ports \cup {NoPort} : AskSettings(t, port)
  PROVE  LongInv'
<1>1. ASSUME NEW r, Ask(t, r), ~everLicensed => (r.pc \in {"find", "insert", "update"} => ~r.row.long),
             r.pc # "save"
      PROVE  LongInv'
  <2>1. Become(t, r) /\ UNCHANGED <<table, file, licensed, boot, everLicensed>> /\ Live' = Live
    BY <1>1, SnapshotSame DEF Ask, copying, changes
  <2> QED
    BY <1>1, <2>1, LongMoves DEF LongInv
<1>2. ASSUME NEW row \in Bodies, AskCreate(t, row) PROVE LongInv'
  <2>1. PICK pc \in {"find", "count"} :
          Ask(t, [Idle EXCEPT !.pc = pc, !.row = row]) /\ (pc = "find" => licensed)
    BY <1>2 DEF AskCreate
  <2> QED
    BY <1>1, <2>1 DEF Idle, LongInv
<1>3. ASSUME NEW row \in Bodies, NEW i \in Live, AskUpdate(t, i, row) PROVE LongInv'
  <2>1. Ask(t, [Idle EXCEPT !.pc = "update", !.id = i, !.row = row]) /\ (row.long => licensed)
    BY <1>3 DEF AskUpdate, RetentionLicensed
  <2> QED
    BY <1>1, <2>1 DEF Idle, LongInv
<1>4. ASSUME NEW i \in Live, AskToggle(t, i) PROVE LongInv'
  <2> DEFINE row == [table[i] EXCEPT !.disabled = ~@]
  <2>1. Ask(t, [Idle EXCEPT !.pc = "toggle", !.id = i, !.row = row])
    BY <1>4 DEF AskToggle
  <2> HIDE DEF row
  <2> QED
    BY <1>1, <2>1 DEF Idle
<1>5. ASSUME NEW i \in Live, AskRemove(t, i) PROVE LongInv'
  BY <1>1, <1>5 DEF AskRemove, Idle
<1>6. ASSUME NEW port \in Ports \cup {NoPort}, AskSettings(t, port) PROVE LongInv'
  BY <1>1, <1>6 DEF AskSettings, Idle
<1> QED
  BY <1>2, <1>3, <1>4, <1>5, <1>6

LEMMA LongSpread ==
  ASSUME TypeInv, LongInv, NEW t \in Requests, Spread(t)
  PROVE  LongInv'
<1>1. /\ Become(t, Idle) /\ Idle.pc = "idle" /\ UNCHANGED <<file, licensed, boot, everLicensed>>
  BY Rows DEF Spread, copying
<1>2. \A i \in Live' : i \in Live /\ table'[i].long = table[i].long
  BY SpreadKeeps
<1> QED
  BY <1>1, <1>2, LongMoves DEF LongInv

LEMMA LongWrites ==
  ASSUME TypeInv, LongInv, NEW t \in Requests, Insert(t) \/ Update(t) \/ Remove(t)
  PROVE  LongInv'
<1>1. /\ table \in [Ids -> RouterRows \cup {NoRow}] /\ Become(t, [Idle EXCEPT !.pc = "persist"])
      /\ UNCHANGED <<file, licensed, boot, everLicensed>>
  BY Types DEF TypeInv, Insert, Update, Remove, Write, copying, changes
<1>2. ASSUME NEW i, NEW row, table' = [table EXCEPT ![i] = row],
             ~everLicensed => row = NoRow \/ ~row.long
      PROVE  LongInv'
  <2>1. \A j \in Live' : (j = i /\ table'[j] = row /\ row # NoRow) \/ (j \in Live /\ table'[j] = table[j])
    BY <1>1, <1>2 DEF Live
  <2>2. ~everLicensed => \A j \in Live' : ~table'[j].long
    BY <1>2, <2>1 DEF LongInv
  <2> QED
    BY <1>1, <2>2, LongMoves DEF LongInv, Idle
<1>3. CASE Insert(t)
  <2>1. table' = [table EXCEPT ![lastId + 1] = task[t].row] /\ task[t].pc = "insert"
    BY <1>3 DEF Insert, Write
  <2> QED
    BY <1>2, <2>1 DEF LongInv
<1>4. CASE Update(t)
  <2>1. /\ table' = [table EXCEPT ![task[t].id] = Rewritten(t)]
        /\ task[t].pc \in {"update", "toggle"} /\ task[t].id \in Live
    BY <1>4 DEF Update, Write
  <2>2. table[task[t].id] \in RouterRows /\ (task[t].pc = "update" => task[t].row \in RouterRows)
    BY <1>1, <2>1 DEF Live, TypeInv, InHand
  <2>3. CASE task[t].pc = "toggle"
    <3>1. Rewritten(t).long = table[task[t].id].long
      BY <2>2, <2>3 DEF Rewritten, RouterRows
    <3> QED
      BY <1>2, <2>1, <3>1 DEF LongInv
  <2>4. CASE task[t].pc = "update"
    <3>1. Rewritten(t).long = task[t].row.long
      BY <2>2, <2>4 DEF Rewritten, RouterRows
    <3> QED
      BY <1>2, <2>1, <2>4, <3>1 DEF LongInv
  <2> QED
    BY <2>1, <2>3, <2>4
<1>5. CASE Remove(t)
  BY <1>2, <1>5 DEF Remove, Write
<1> QED
  BY <1>3, <1>4, <1>5

LEMMA LongTasks ==
  ASSUME TypeInv, LongInv, NEW t \in Requests, Check(t) \/ Gone(t) \/ Copying(t)
  PROVE  LongInv'
<1>1. /\ task[t] \in TaskType /\ UNCHANGED <<licensed, boot, everLicensed>> /\ table' = table
      /\ Live' = Live
  BY Numbers, SnapshotSame DEF Check, Gone, Copying, Persist, SaveFile, SaveFileFails
<1>2. Idle.pc = "idle" /\ (CopyEnds(t) => \E r : Become(t, r) /\ r.pc \in {"idle", "spread"})
  BY Rows, EndsIdle
<1>3. CASE Check(t)
  <2>1. file' = file
    BY <1>3 DEF Check, copying, changes
  <2>2. PICK r \in {Idle, [task[t] EXCEPT !.pc = "find"], [task[t] EXCEPT !.pc = "insert"]} :
          /\ Become(t, r)
          /\ r.pc # "idle" => task[t].pc = "find" \/ RetentionLicensed(task[t].row)
    BY <1>2, <1>3 DEF Check, GoOn
  <2>3. r.pc # "save" /\ (r.pc # "idle" => r.row = task[t].row)
    BY <1>1, <1>2, <2>2 DEF TaskType
  <2>4. ~everLicensed => (r.pc \in {"find", "insert", "update"} => ~r.row.long)
    BY <1>2, <2>2, <2>3 DEF RetentionLicensed, LongInv
  <2> QED
    BY <1>1, <2>1, <2>2, <2>3, <2>4, LongMoves DEF LongInv
<1>4. CASE Gone(t)
  BY <1>1, <1>2, <1>4, LongMoves DEF Gone, LongInv, copying, changes
<1>5. CASE Persist(t)
  <2> DEFINE r == [task[t] EXCEPT !.pc = "save", !.seen = Snapshot, !.at = version]
  <2>1. Become(t, r) /\ file' = file
    BY <1>5 DEF Persist, copying, changes
  <2>2. r.pc = "save" /\ r.seen = Snapshot
    BY <1>1 DEF TaskType
  <2> HIDE DEF r
  <2> QED
    BY <1>1, <2>1, <2>2, LongMoves, SnapshotNotLong DEF LongInv
<1>6. CASE SaveFile(t)
  <2>1. CopyEnds(t) /\ file' = task[t].seen /\ task[t].pc = "save"
    BY <1>6 DEF SaveFile, Copy
  <2> QED
    BY <1>1, <1>2, <2>1, LongMoves DEF LongInv
<1>7. CASE SaveFileFails(t)
  <2>1. CopyEnds(t) /\ file' = file
    BY <1>7 DEF SaveFileFails, NotCopied
  <2> QED
    BY <1>1, <1>2, <2>1, LongMoves DEF LongInv
<1> QED
  BY <1>3, <1>4, <1>5, <1>6, <1>7 DEF Copying

LEMMA LongStarts ==
  ASSUME TypeInv, LongInv, Starting
  PROVE  LongInv'
<1>1. /\ RegistryTypeOK /\ boot \in BootType /\ table \in [Ids -> RouterRows \cup {NoRow}]
      /\ UNCHANGED <<licensed, everLicensed, task>>
  BY Types DEF TypeInv, Starting, BootRead, RestoreKnown, RestoreRow, BootPersist
<1>2. CASE BootRead
  <2>1. table' = table /\ Live' = Live /\ file' = file
    BY <1>2, SnapshotSame DEF BootRead, copying, changes
  <2>2. boot'.pc = "restore" => boot'.todo = file
    BY <1>2 DEF BootRead, Up
  <2> QED
    BY <1>1, <2>1, <2>2 DEF LongInv
<1>3. ASSUME boot.pc = "restore", boot.todo # <<>>, NoneLong(boot.todo)
      PROVE  ~Head(boot.todo).long /\ NoneLong(Tail(boot.todo))
  <2>1. boot.todo \in Seq(RouterRows)
    BY <1>1 DEF BootType
  <2>2. 1 \in DOMAIN boot.todo /\ Head(boot.todo) = boot.todo[1]
    BY <1>3, <2>1
  <2>3. \A n \in DOMAIN Tail(boot.todo) : n + 1 \in DOMAIN boot.todo /\ Tail(boot.todo)[n] = boot.todo[n + 1]
    BY <1>3, <2>1
  <2> QED
    BY <1>3, <2>2, <2>3 DEF NoneLong
<1>4. CASE RestoreKnown
  <2>1. /\ table' = table /\ Live' = Live /\ file' = file
        /\ boot.pc = "restore" /\ boot.todo # <<>> /\ boot' = [boot EXCEPT !.todo = Tail(boot.todo)]
    BY <1>4, SnapshotSame DEF RestoreKnown, copying, changes
  <2>2. boot'.todo = Tail(boot.todo)
    BY <1>1, <2>1 DEF BootType
  <2> QED
    BY <1>1, <1>3, <2>1, <2>2 DEF LongInv
<1>5. CASE RestoreRow
  <2>1. /\ table' = [table EXCEPT ![lastId + 1] = Head(boot.todo)] /\ file' = file
        /\ boot.pc = "restore" /\ boot.todo # <<>>
        /\ boot' = [boot EXCEPT !.todo = Tail(boot.todo), !.known = KnownAfter(Head(boot.todo))]
    BY <1>5 DEF RestoreRow, copying, changes
  <2>2. boot'.todo = Tail(boot.todo)
    BY <1>1, <2>1 DEF BootType
  <2>3. \A j \in Live' : table'[j] = Head(boot.todo) \/ (j \in Live /\ table'[j] = table[j])
    BY <1>1, <2>1 DEF Live
  <2> QED
    BY <1>1, <1>3, <2>1, <2>2, <2>3 DEF LongInv
<1>6. CASE BootPersist
  <2>1. table' = table /\ Live' = Live /\ boot'.pc = "up"
    BY <1>6, SnapshotSame, Rows DEF BootPersist
  <2>2. file' = Snapshot \/ file' = file
    BY <1>6 DEF BootPersist, Copy, NotCopied
  <2>3. ~everLicensed => NoneLong(file')
    BY <2>2, SnapshotNotLong DEF LongInv
  <2> QED
    BY <1>1, <2>1, <2>3 DEF LongInv
<1> QED
  BY <1>2, <1>4, <1>5, <1>6 DEF Starting

LEMMA LongOthers ==
  ASSUME TypeInv, LongInv, Decide \/ Crash \/ LoseDatabase
  PROVE  LongInv'
<1>1. CASE Decide
  BY <1>1 DEF Decide, LongInv
<1>2. CASE Crash \/ LoseDatabase
  <2>1. /\ boot'.pc = "read" /\ \A t \in Requests : task'[t].pc = "idle"
        /\ UNCHANGED <<licensed, everLicensed>> /\ file' \in {file, <<>>}
    BY <1>2, Rows DEF Crash, LoseDatabase, Stop, Copy, copying, changes
  <2>2. \A i \in Live' : i \in Live /\ table'[i] = table[i]
    BY <1>2 DEF Crash, LoseDatabase, Live
  <2>3. NoneLong(<<>>)
    BY DEF NoneLong
  <2> QED
    BY <2>1, <2>2, <2>3 DEF LongInv
<1> QED
  BY <1>1, <1>2

LEMMA LongStep == TypeInv /\ LongInv /\ [RegistryNext]_registryVars => LongInv'
<1> SUFFICES ASSUME TypeInv, LongInv, [RegistryNext]_registryVars PROVE LongInv'
  OBVIOUS
<1>1. CASE RegistryNext
  BY <1>1, LongAsks, LongWrites, LongSpread, LongTasks, LongStarts, LongOthers DEF RegistryNext, RequestStep
<1>2. CASE UNCHANGED registryVars
  <2>1. Live' = Live
    BY <1>2, SnapshotSame DEF registryVars
  <2> QED
    BY <1>2, <2>1 DEF registryVars, copying, changes, LongInv
<1> QED
  BY <1>1, <1>2

LEMMA LongInit == RegistryInit => LongInv
<1> SUFFICES ASSUME RegistryInit, ~everLicensed PROVE LongInv
  BY DEF LongInv
<1>1. /\ ~licensed /\ \A i \in Live : ~table[i].long
      /\ boot = Up /\ task = [t \in Requests |-> Idle] /\ file = Snapshot
  BY DEF RegistryInit
<1>2. NoneLong(Snapshot)
  <2>1. /\ Snapshot \in Seq(RouterRows)
        /\ \A n \in 1..Len(Snapshot) : \E i \in Live : Snapshot[n] = table[i]
    BY Snapshots, TypeInit DEF TypeInv
  <2>2. DOMAIN Snapshot = 1..Len(Snapshot)
    BY <2>1
  <2> QED
    BY <1>1, <2>1, <2>2 DEF NoneLong
<1> QED
  BY <1>1, <1>2, Rows DEF LongInv

(* No order of checks, restarts and license verdicts brings a long retention to *)
(* a server that never was licensed.                                            *)
THEOREM LongNeedsLicense == RegistrySpec => []LongWasLicensed
<1>1. TypeInv /\ LongInv /\ [RegistryNext]_registryVars => LongInv'
  BY LongStep
<1>2. LongInv => LongWasLicensed
  BY DEF LongInv, LongWasLicensed
<1> QED
  BY <1>1, <1>2, LongInit, TypeAlways, PTL DEF RegistrySpec
=============================================================================
