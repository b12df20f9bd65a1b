---------------------------- MODULE SessionTable ----------------------------
(* SessionTable of session-table.ts: what is known of the customers behind each *)
(* router, filed under private address, MAC and user name.  A router names the  *)
(* user on one line and the MAC on another; the table joins them, and completes *)
(* the rows of the log.  Its methods are synchronous, so a call is one action.  *)
(* Ports are carried along by the code without being looked at and are left out. *)
EXTENDS Integers, FiniteSets, Sequences

CONSTANTS
    Servers, Ips, Macs, Users, None,
    PrivateIps,    \* the addresses isPrivateIp accepts
    Gateways,      \* NAT addresses and destinations of lines, natIp and url of routers
    Names,         \* MACs and user names in lower case
    Lower,         \* toLowerCase
    Customers,
    Of,            \* Of[s][x]: the customer whom private address, MAC or name x denotes at s
    PruneAt,       \* the size of byIp at which old entries go
    PruneOver      \* prune deletes one entry more than this

Identities == PrivateIps \cup Names

ASSUME TableAssumption ==
    /\ None \notin Ips \cup Macs \cup Users \cup Names
    /\ PrivateIps \subseteq Ips /\ Gateways \subseteq Ips
    /\ Lower \in [Macs \cup Users -> Names]
    /\ Of \in [Servers -> [Identities -> Customers]]
    /\ PruneAt \in Nat \ {0} /\ PruneOver \in Nat

VARIABLES
    byIp, byMac, byUser,   \* the three maps; Blank where a key is absent
    order                  \* the keys of byIp in the order they were inserted

sessionVars == <<byIp, byMac, byUser, order>>

Sess == [user : Users \cup {None}, mac : Macs \cup {None},
         gateway : Gateways \cup {None}, fromIp : Ips \cup {None}]
Blank == [user |-> None, mac |-> None, gateway |-> None, fromIp |-> None]

(* What one line says, with the destination it names.                         *)
Lines == [user : Users \cup {None}, mac : Macs \cup {None}, gateway : Gateways \cup {None},
          fromIp : Ips \cup {None}, toHost : Gateways \cup {None}]

IpKeyShared(s, ip) == <<CHOOSE r \in Servers : TRUE, ip>>
IpKey(s, ip)  == <<s, ip>>
MacKey(s, m)  == <<s, Lower[m]>>
UserKey(s, u) == <<s, Lower[u]>>

SessionInit ==
    /\ byIp = [k \in Servers \X Ips |-> Blank]
    /\ byMac = [k \in Servers \X Names |-> Blank]
    /\ byUser = [k \in Servers \X Names |-> Blank]
    /\ order = <<>>

-----------------------------------------------------------------------------
(* pick, mergeSess and the keys.                                              *)
Pick(a, b) == IF a # None THEN a ELSE b

KeyedAny(ip) == ip # None
Keyed(ip) == ip \in PrivateIps
KnownIp(ip) == IF Keyed(ip) THEN ip ELSE None

MergeSess(a, b) ==
    [user    |-> Pick(a.user, b.user),
     mac     |-> Pick(a.mac, b.mac),
     gateway |-> Pick(a.gateway, b.gateway),
     fromIp  |-> Pick(KnownIp(a.fromIp), Pick(KnownIp(b.fromIp), Pick(a.fromIp, b.fromIp)))]

(* The tables are passed as one record, for a call may store twice.           *)
Now == [ip |-> byIp, mac |-> byMac, user |-> byUser, order |-> order]

(* lookupRaw: address before MAC before user name.                            *)
LookupRaw(t, s, f) ==
    IF Keyed(f.fromIp) /\ t.ip[IpKey(s, f.fromIp)] # Blank THEN t.ip[IpKey(s, f.fromIp)]
    ELSE IF f.mac # None /\ t.mac[MacKey(s, f.mac)] # Blank THEN t.mac[MacKey(s, f.mac)]
    ELSE IF f.user # None THEN t.user[UserKey(s, f.user)]
    ELSE Blank

(* A Map keeps a key that is set again where it was.                          *)
Ordered(t, k) == IF t.ip[k] = Blank THEN Append(t.order, k) ELSE t.order

(* prune                                                                      *)
PrunedLate(t) == t
Pruned(t) ==
    LET drop == IF Len(t.order) > PruneOver + 1 THEN PruneOver + 1 ELSE Len(t.order)
        gone == {t.order[i] : i \in 1..drop}
    IN  IF Len(t.order) < PruneAt THEN t
        ELSE [t EXCEPT !.ip = [k \in Servers \X Ips |-> IF k \in gone THEN Blank ELSE t.ip[k]],
                       !.order = SubSeq(@, drop + 1, Len(@))]

(* store                                                                      *)
Store(t, s, n) ==
    LET k == IpKey(s, n.fromIp) IN
    Pruned([ip    |-> IF Keyed(n.fromIp) THEN [t.ip EXCEPT ![k] = n] ELSE t.ip,
            mac   |-> IF n.mac # None THEN [t.mac EXCEPT ![MacKey(s, n.mac)] = n] ELSE t.mac,
            user  |-> IF n.user # None THEN [t.user EXCEPT ![UserKey(s, n.user)] = n] ELSE t.user,
            order |-> IF Keyed(n.fromIp) THEN Ordered(t, k) ELSE t.order])

SessOf(f) == [user |-> f.user, mac |-> f.mac, gateway |-> f.gateway, fromIp |-> f.fromIp]

Remember(t, s, f) ==
    LET incoming == SessOf(f) IN
    IF f.fromIp = None /\ f.mac = None /\ f.user = None THEN t
    ELSE Store(t, s, MergeSess(incoming, LookupRaw(t, s, incoming)))

(* sanitizeNat: the destination of a line is no NAT address of the customer.  *)
SanitizedEmpty(f) ==
    IF f.gateway # None /\ f.gateway = f.toHost THEN [f EXCEPT !.gateway = ""] ELSE f
Sanitized(f) ==
    IF f.gateway # None /\ f.gateway = f.toHost THEN [f EXCEPT !.gateway = None] ELSE f

(* applyWanNat                                                                *)
WithWan(f, wan) ==
    IF f.gateway = None /\ wan # None /\ Keyed(f.fromIp) THEN [f EXCEPT !.gateway = wan] ELSE f

(* apply: the line, completed by what is known.                               *)
Completed(t, s, f) ==
    LET clean == Sanitized(f)
        hit == LookupRaw(t, s, SessOf(clean))
    IN  [clean EXCEPT !.user = Pick(@, hit.user), !.mac = Pick(@, hit.mac),
                      !.fromIp = Pick(@, KnownIp(hit.fromIp)),
                      !.gateway = Pick(@, hit.gateway)]
AppliedRow(t, s, f, wan) ==
    WithWan(Sanitized(Completed(Remember(t, s, Sanitized(f)), s, f)), wan)
AppliedTable(t, s, f, wan) ==
    Remember(Remember(t, s, Sanitized(f)), s, AppliedRow(t, s, f, wan))

-----------------------------------------------------------------------------
(* A line is about one customer of its router: its private source address, its *)
(* MAC and its user name are that customer's.  The NAT address and a public     *)
(* source address are shared by many.                                           *)
Speaks(s, x, c) ==
    /\ x.user # None => Of[s][Lower[x.user]] = c
    /\ x.mac # None => Of[s][Lower[x.mac]] = c
    /\ x.fromIp \in PrivateIps => Of[s][x.fromIp] = c
LinesOf(s) == {f \in Lines : \E c \in Customers : Speaks(s, f, c)}

Becomes(t) ==
    byIp' = t.ip /\ byMac' = t.mac /\ byUser' = t.user /\ order' = t.order

(* remember: a session line, a row of the client map, a stored session or log row. *)
Learn(s, f) == Becomes(Remember(Now, s, f))

(* apply: a traffic line; wan is natIp or url of the router.                  *)
Complete(s, f, wan) == Becomes(AppliedTable(Now, s, f, wan))

(* A restart loses the table.                                                 *)
SessionsLost ==
    /\ byIp' = [k \in Servers \X Ips |-> Blank]
    /\ byMac' = [k \in Servers \X Names |-> Blank]
    /\ byUser' = [k \in Servers \X Names |-> Blank]
    /\ order' = <<>>

SessionNext ==
    \/ \E s \in Servers : \E f \in LinesOf(s) :
          \/ Learn(s, f)
          \/ \E wan \in Gateways \cup {None} : Complete(s, f, wan)
    \/ SessionsLost

SessionSpec == SessionInit /\ [][SessionNext]_sessionVars

-----------------------------------------------------------------------------
(* ipsMatchingUser, for the set of names that contain the text searched for.  *)
IpsMatchingAnywhere(s, found) ==
    {byUser[k].fromIp : k \in {x \in Servers \X found : byUser[x] # Blank}}
        \cup {byIp[k].fromIp : k \in {x \in {s} \X Ips :
                                         byIp[x].user # None /\ Lower[byIp[x].user] \in found}}
IpsMatchingUser(s, found) ==
    {byUser[k].fromIp : k \in {x \in {s} \X found : byUser[x] # Blank}}
        \cup {byIp[k].fromIp : k \in {x \in {s} \X Ips :
                                         byIp[x].user # None /\ Lower[byIp[x].user] \in found}}

SessionTypeOK ==
    /\ byIp \in [Servers \X Ips -> Sess]
    /\ byMac \in [Servers \X Names -> Sess]
    /\ byUser \in [Servers \X Names -> Sess]
    /\ order \in Seq(Servers \X Ips)

(* Each entry of the tables t is about the customer its key denotes.          *)
OwnCustomer(t) ==
    \A s \in Servers :
        /\ \A ip \in Ips :
              t.ip[<<s, ip>>] # Blank => ip \in PrivateIps /\ Speaks(s, t.ip[<<s, ip>>], Of[s][ip])
        /\ \A x \in Names : t.mac[<<s, x>>] # Blank => Speaks(s, t.mac[<<s, x>>], Of[s][x])
        /\ \A x \in Names : t.user[<<s, x>>] # Blank => Speaks(s, t.user[<<s, x>>], Of[s][x])

\* Joining line after line never mixes two customers: an entry speaks of the one
\* customer its key denotes at that router, although customers share NAT and public
\* source addresses and different routers use the same private addresses.
OneCustomer == OwnCustomer(Now)

\* Whatever line comes next, the row apply makes of it is about the customer of the
\* line: what the table adds never comes from another customer.
RowOfOneCustomer ==
    \A s \in Servers, c \in Customers, wan \in Gateways \cup {None} :
        \A f \in Lines : Speaks(s, f, c) => Speaks(s, AppliedRow(Now, s, f, wan), c)

\* A search by user name reaches into the log only by addresses of customers whose
\* name matches (the private ones: a public source address is shared).
SearchStaysWithCustomer ==
    \A s \in Servers, found \in SUBSET Names :
        \A ip \in IpsMatchingUser(s, found) \cap PrivateIps :
            \E x \in found : Of[s][x] = Of[s][ip]

\* The map of addresses is bounded by what prune removes, and the order prune
\* follows lists each of its keys once.
AddressesBounded ==
    LET keys == {k \in Servers \X Ips : byIp[k] # Blank}
    IN  /\ Cardinality(keys) < PruneAt
        /\ {order[i] : i \in DOMAIN order} = keys
        /\ Len(order) = Cardinality(keys)
=============================================================================
