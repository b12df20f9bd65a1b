------------------------- MODULE RouterClientProofs --------------------------
(* The RouterOS client and the session table.  What the client writes for a      *)
(* length it reads back; the table never mixes customers and stays bounded, for *)
(* any routers, addresses, names and limits: a fact about one call of each      *)
(* method, then about every call; and a session with the API of a router files  *)
(* rows under the query that asked for them, whatever is late or in parts.      *)
EXTENDS ClientMap, SessionTable, FiniteSetTheorems, TLAPS

-----------------------------------------------------------------------------
(* The lengths of words.                                                      *)
Lengths == {n \in Nat : n \div 16777216 \in 0..255}

(* Division by a power of 256, taken apart into bytes.                         *)
LEMMA TwoBytes ==
    ASSUME NEW n \in Nat
    PROVE  /\ n = (n \div 256) * 256 + (n % 256)
           /\ n \div 256 \in Nat /\ n % 256 \in 0..255
  BY SMT

LEMMA ThreeBytes ==
    ASSUME NEW n \in Nat
    PROVE  /\ n = (n \div 65536) * 65536 + ((n \div 256) % 256) * 256 + (n % 256)
           /\ n \div 65536 \in Nat /\ (n \div 256) % 256 \in 0..255
  BY SMT

LEMMA Shifted ==
    ASSUME NEW n \in Nat
    PROVE  n \div 16777216 = (n \div 65536) \div 256
  BY SMT

LEMMA FourBytes ==
    ASSUME NEW n \in Nat
    PROVE  /\ n = (n \div 16777216) * 16777216 + ((n \div 65536) % 256) * 65536
                  + ((n \div 256) % 256) * 256 + (n % 256)
           /\ n \div 16777216 \in Nat /\ (n \div 65536) % 256 \in 0..255
<1> DEFINE k == n \div 65536
<1>1. k \in Nat /\ n = k * 65536 + ((n \div 256) % 256) * 256 + (n % 256)
  BY SMT, ThreeBytes
<1>2. k = (k \div 256) * 256 + (k % 256) /\ k \div 256 \in Nat /\ k % 256 \in 0..255
  BY SMT, <1>1, TwoBytes
<1>3. n \div 16777216 = k \div 256
  BY SMT, Shifted
<1>4. (n \div 256) % 256 \in Int /\ n % 256 \in Int
  BY SMT
<1> HIDE DEF k
<1>5. k * 65536 = (k \div 256) * 16777216 + (k % 256) * 65536
  BY SMT, <1>1, <1>2
<1> QED
  BY SMT, <1>1, <1>2, <1>3, <1>4, <1>5 DEF k

LEMMA TwoByteTag == ASSUME NEW k \in 0..63 PROVE (128 + k) % 128 = k
  BY SMT

LEMMA ThreeByteTag == ASSUME NEW k \in 0..31 PROVE (192 + k) % 32 = k
  BY SMT

LEMMA FourByteTag == ASSUME NEW k \in 0..15 PROVE (224 + k) % 16 = k
  BY SMT

LEMMA Bytes ==
    ASSUME NEW n \in Nat
    PROVE  n % 256 \in Nat /\ (n \div 256) % 256 \in Nat /\ (n \div 65536) % 256 \in Nat
  BY SMT

(* encodeLen, then readLen (mikrotik-api.ts): no length is read as another one, *)
(* also at the lengths where one more byte is needed.                           *)
THEOREM LengthsSurvive == \A n \in Lengths : DecodeLen(EncodeLen(n)) = n
<1> SUFFICES ASSUME NEW n \in Lengths PROVE DecodeLen(EncodeLen(n)) = n
  OBVIOUS
<1>0. n \in Nat
  BY SMT DEF Lengths
<1>1. CASE n < 128
  <2>1. EncodeLen(n) = <<n>>
    BY SMT, <1>0, <1>1 DEF EncodeLen
  <2> QED
    BY SMT, <1>0, <1>1, <2>1 DEF DecodeLen
<1>2. CASE n >= 128 /\ n < 16384
  <2> DEFINE a == 128 + n \div 256
  <2> DEFINE b == n % 256
  <2>1. EncodeLen(n) = <<a, b>>
    BY SMT, <1>0, <1>2 DEF EncodeLen
  <2>2. n \div 256 \in 0..63
    BY SMT, <1>0, <1>2
  <2>3. a \in 128..191 /\ b \in Nat
    BY SMT, <1>0, <2>2, Bytes
  <2>4. a % 128 = n \div 256
    BY SMT, <2>2, TwoByteTag
  <2>5. DecodeLen(<<a, b>>) = (a % 128) * 256 + b
    <3> HIDE DEF a, b
    <3> QED
      BY SMT, <2>3 DEF DecodeLen
  <2> QED
    BY SMT, <1>0, <2>1, <2>4, <2>5, TwoBytes
<1>3. CASE n >= 16384 /\ n < 2097152
  <2> DEFINE a == 192 + n \div 65536
  <2> DEFINE b == (n \div 256) % 256
  <2> DEFINE c == n % 256
  <2>1. EncodeLen(n) = <<a, b, c>>
    BY SMT, <1>0, <1>3 DEF EncodeLen
  <2>2. n \div 65536 \in 0..31
    BY SMT, <1>0, <1>3
  <2>3. a \in 192..223 /\ b \in Nat /\ c \in Nat
    BY SMT, <1>0, <2>2, Bytes
  <2>4. a % 32 = n \div 65536
    BY SMT, <2>2, ThreeByteTag
  <2>5. DecodeLen(<<a, b, c>>) = (a % 32) * 65536 + b * 256 + c
    <3> HIDE DEF a, b, c
    <3> QED
      BY SMT, <2>3 DEF DecodeLen
  <2> QED
    BY SMT, <1>0, <2>1, <2>4, <2>5, ThreeBytes
<1>4. CASE n >= 2097152 /\ n < 268435456
  <2> DEFINE a == 224 + n \div 16777216
  <2> DEFINE b == (n \div 65536) % 256
  <2> DEFINE c == (n \div 256) % 256
  <2> DEFINE d == n % 256
  <2>1. EncodeLen(n) = <<a, b, c, d>>
    BY SMT, <1>0, <1>4 DEF EncodeLen
  <2>2. n \div 16777216 \in 0..15
    BY SMT, <1>0, <1>4
  <2>3. a \in 224..239 /\ b \in Nat /\ c \in Nat /\ d \in Nat
    BY SMT, <1>0, <2>2, Bytes
  <2>4. a % 16 = n \div 16777216
    BY SMT, <2>2, FourByteTag
  <2>5. DecodeLen(<<a, b, c, d>>) = (a % 16) * 16777216 + b * 65536 + c * 256 + d
    <3> HIDE DEF a, b, c, d
    <3> QED
      BY SMT, <2>3 DEF DecodeLen
  <2> QED
    BY SMT, <1>0, <2>1, <2>4, <2>5, FourBytes
<1>5. CASE n >= 268435456
  <2>1. EncodeLen(n) =
            <<240, n \div 16777216, (n \div 65536) % 256, (n \div 256) % 256, n % 256>>
    BY SMT, <1>0, <1>5 DEF EncodeLen
  <2>2. DecodeLen(EncodeLen(n)) =
            (n \div 16777216) * 16777216 + ((n \div 65536) % 256) * 65536
            + ((n \div 256) % 256) * 256 + (n % 256)
    BY SMT, <1>0, <2>1 DEF DecodeLen
  <2> QED
    BY SMT, <1>0, <2>2, FourBytes
<1> QED
  BY SMT, <1>0, <1>1, <1>2, <1>3, <1>4, <1>5

-----------------------------------------------------------------------------
(* The session table.                                                         *)
Tables == [ip : [Servers \X Ips -> Sess], mac : [Servers \X Names -> Sess],
           user : [Servers \X Names -> Sess], order : Seq(Servers \X Ips)]

LEMMA BlankSpeaks ==
    ASSUME NEW s \in Servers, NEW c
    PROVE  Blank \in Sess /\ Speaks(s, Blank, c)
BY TableAssumption DEF Blank, Sess, Speaks

-----------------------------------------------------------------------------
(* mergeSess and lookupRaw.                                                   *)

LEMMA MergeSpeaks ==
    ASSUME NEW s \in Servers, NEW c, NEW a \in Sess, NEW b \in Sess,
           Speaks(s, a, c), Speaks(s, b, c)
    PROVE  MergeSess(a, b) \in Sess /\ Speaks(s, MergeSess(a, b), c)
<1>1. MergeSess(a, b) \in Sess
  BY DEF MergeSess, Sess, Pick, KnownIp
<1>2. Speaks(s, MergeSess(a, b), c)
  BY DEF MergeSess, Sess, Speaks, Pick, KnownIp
<1>3. QED
  BY <1>1, <1>2

LEMMA LookupSpeaks ==
    ASSUME NEW t \in Tables, OwnCustomer(t), NEW s \in Servers, NEW c, NEW f \in Sess,
           Speaks(s, f, c)
    PROVE  LookupRaw(t, s, f) \in Sess /\ Speaks(s, LookupRaw(t, s, f), c)
<1>1. CASE Keyed(f.fromIp) /\ t.ip[IpKey(s, f.fromIp)] # Blank
  <2>1. LookupRaw(t, s, f) = t.ip[<<s, f.fromIp>>] /\ f.fromIp \in Ips /\ f.fromIp \in PrivateIps
    BY <1>1, TableAssumption DEF LookupRaw, IpKey, Keyed
  <2>2. t.ip[<<s, f.fromIp>>] \in Sess /\ Of[s][f.fromIp] = c
    BY <2>1 DEF Tables, Speaks
  <2>3. QED
    BY <1>1, <2>1, <2>2 DEF OwnCustomer, IpKey
<1>2. CASE /\ ~(Keyed(f.fromIp) /\ t.ip[IpKey(s, f.fromIp)] # Blank)
           /\ f.mac # None /\ t.mac[MacKey(s, f.mac)] # Blank
  <2>1. LookupRaw(t, s, f) = t.mac[<<s, Lower[f.mac]>>] /\ Lower[f.mac] \in Names
    BY <1>2, TableAssumption DEF LookupRaw, MacKey, Sess
  <2>2. t.mac[<<s, Lower[f.mac]>>] \in Sess /\ Of[s][Lower[f.mac]] = c
    BY <1>2, <2>1 DEF Tables, Speaks
  <2>3. QED
    BY <1>2, <2>1, <2>2 DEF OwnCustomer, MacKey
<1>3. CASE /\ ~(Keyed(f.fromIp) /\ t.ip[IpKey(s, f.fromIp)] # Blank)
           /\ ~(f.mac # None /\ t.mac[MacKey(s, f.mac)] # Blank)
           /\ f.user # None
  <2>1. LookupRaw(t, s, f) = t.user[<<s, Lower[f.user]>>] /\ Lower[f.user] \in Names
    BY <1>3, TableAssumption DEF LookupRaw, UserKey, Sess
  <2>2. t.user[<<s, Lower[f.user]>>] \in Sess /\ Of[s][Lower[f.user]] = c
    BY <1>3, <2>1 DEF Tables, Speaks
  <2>3. QED
    BY <2>1, <2>2, BlankSpeaks DEF OwnCustomer
<1>4. CASE /\ ~(Keyed(f.fromIp) /\ t.ip[IpKey(s, f.fromIp)] # Blank)
           /\ ~(f.mac # None /\ t.mac[MacKey(s, f.mac)] # Blank)
           /\ f.user = None
  BY <1>4, BlankSpeaks DEF LookupRaw
<1>5. QED
  BY <1>1, <1>2, <1>3, <1>4

-----------------------------------------------------------------------------
(* prune and store.                                                           *)

LEMMA PrunedSound ==
    ASSUME NEW t \in Tables, OwnCustomer(t)
    PROVE  Pruned(t) \in Tables /\ OwnCustomer(Pruned(t))
<1> DEFINE drop == IF Len(t.order) > PruneOver + 1 THEN PruneOver + 1 ELSE Len(t.order)
           gone == {t.order[i] : i \in 1..drop}
           kept == [k \in Servers \X Ips |-> IF k \in gone THEN Blank ELSE t.ip[k]]
           rest == SubSeq(t.order, drop + 1, Len(t.order))
<1>1. CASE Len(t.order) < PruneAt
  BY <1>1 DEF Pruned
<1>2. CASE ~(Len(t.order) < PruneAt)
  <2>1. t.order \in Seq(Servers \X Ips) /\ drop \in Nat /\ drop <= Len(t.order)
    BY TableAssumption DEF Tables
  <2>2. rest \in Seq(Servers \X Ips)
    BY <2>1
  <2>3. kept \in [Servers \X Ips -> Sess]
    BY TableAssumption DEF Tables, Blank, Sess
  <2>4. Pruned(t) = [t EXCEPT !.ip = kept, !.order = rest]
    BY <1>2 DEF Pruned
  <2> HIDE DEF gone, drop, rest
  <2>5. Pruned(t) \in Tables
    BY <2>2, <2>3, <2>4 DEF Tables
  <2>6. Pruned(t).ip = kept /\ Pruned(t).mac = t.mac /\ Pruned(t).user = t.user
    BY <2>4 DEF Tables
  <2>7. \A k \in Servers \X Ips : kept[k] # Blank => kept[k] = t.ip[k]
    OBVIOUS
  <2> HIDE DEF kept
  <2>8. OwnCustomer(Pruned(t))
    BY <2>6, <2>7 DEF OwnCustomer
  <2>9. QED
    BY <2>5, <2>8
<1>3. QED
  BY <1>1, <1>2

LEMMA StoreSound ==
    ASSUME NEW t \in Tables, OwnCustomer(t), NEW s \in Servers, NEW c, NEW n \in Sess,
           Speaks(s, n, c)
    PROVE  Store(t, s, n) \in Tables /\ OwnCustomer(Store(t, s, n))
<1> DEFINE ip1 == IF Keyed(n.fromIp) THEN [t.ip EXCEPT ![IpKey(s, n.fromIp)] = n] ELSE t.ip
           mac1 == IF n.mac # None THEN [t.mac EXCEPT ![MacKey(s, n.mac)] = n] ELSE t.mac
           user1 == IF n.user # None THEN [t.user EXCEPT ![UserKey(s, n.user)] = n] ELSE t.user
           order1 == IF Keyed(n.fromIp) THEN Ordered(t, IpKey(s, n.fromIp)) ELSE t.order
           u == [ip |-> ip1, mac |-> mac1, user |-> user1, order |-> order1]
<1>1. ip1 \in [Servers \X Ips -> Sess] /\ mac1 \in [Servers \X Names -> Sess]
      /\ user1 \in [Servers \X Names -> Sess]
  BY DEF Tables
<1>2. order1 \in Seq(Servers \X Ips)
  BY TableAssumption DEF Tables, Ordered, IpKey, Keyed
<1>3. \A r \in Servers, ip \in Ips :
         ip1[<<r, ip>>] # Blank => ip \in PrivateIps /\ Speaks(r, ip1[<<r, ip>>], Of[r][ip])
  <2> SUFFICES ASSUME NEW r \in Servers, NEW ip \in Ips, ip1[<<r, ip>>] # Blank
               PROVE  ip \in PrivateIps /\ Speaks(r, ip1[<<r, ip>>], Of[r][ip])
    OBVIOUS
  <2>1. CASE Keyed(n.fromIp) /\ r = s /\ ip = n.fromIp
    <3>1. ip1[<<r, ip>>] = n /\ ip \in PrivateIps
      BY <2>1 DEF Tables, IpKey, Keyed
    <3>2. Of[s][ip] = c
      BY <2>1 DEF Speaks, Keyed
    <3>3. QED
      BY <2>1, <3>1, <3>2
  <2>2. CASE ~(Keyed(n.fromIp) /\ r = s /\ ip = n.fromIp)
    <3>1. ip1[<<r, ip>>] = t.ip[<<r, ip>>]
      BY <2>2 DEF Tables, IpKey
    <3>2. QED
      BY <3>1 DEF OwnCustomer
  <2>3. QED
    BY <2>1, <2>2
<1>4. \A r \in Servers, x \in Names :
         mac1[<<r, x>>] # Blank => Speaks(r, mac1[<<r, x>>], Of[r][x])
  <2> SUFFICES ASSUME NEW r \in Servers, NEW x \in Names, mac1[<<r, x>>] # Blank
               PROVE  Speaks(r, mac1[<<r, x>>], Of[r][x])
    OBVIOUS
  <2>1. CASE n.mac # None /\ r = s /\ x = Lower[n.mac]
    <3>1. mac1[<<r, x>>] = n /\ Of[s][x] = c
      BY <2>1 DEF Tables, MacKey, Speaks
    <3>2. QED
      BY <2>1, <3>1
  <2>2. CASE ~(n.mac # None /\ r = s /\ x = Lower[n.mac])
    <3>1. mac1[<<r, x>>] = t.mac[<<r, x>>]
      BY <2>2 DEF Tables, MacKey
    <3>2. QED
      BY <3>1 DEF OwnCustomer
  <2>3. QED
    BY <2>1, <2>2
<1>5. \A r \in Servers, x \in Names :
         user1[<<r, x>>] # Blank => Speaks(r, user1[<<r, x>>], Of[r][x])
  <2> SUFFICES ASSUME NEW r \in Servers, NEW x \in Names, user1[<<r, x>>] # Blank
               PROVE  Speaks(r, user1[<<r, x>>], Of[r][x])
    OBVIOUS
  <2>1. CASE n.user # None /\ r = s /\ x = Lower[n.user]
    <3>1. user1[<<r, x>>] = n /\ Of[s][x] = c
      BY <2>1 DEF Tables, UserKey, Speaks
    <3>2. QED
      BY <2>1, <3>1
  <2>2. CASE ~(n.user # None /\ r = s /\ x = Lower[n.user])
    <3>1. user1[<<r, x>>] = t.user[<<r, x>>]
      BY <2>2 DEF Tables, UserKey
    <3>2. QED
      BY <3>1 DEF OwnCustomer
  <2>3. QED
    BY <2>1, <2>2
<1>6. Store(t, s, n) = Pruned(u)
  BY DEF Store
<1> HIDE DEF ip1, mac1, user1, order1
<1>7. u \in Tables
  BY <1>1, <1>2 DEF Tables
<1>8. OwnCustomer(u)
  BY <1>3, <1>4, <1>5 DEF OwnCustomer
<1> HIDE DEF u
<1>9. QED
  BY <1>6, <1>7, <1>8, PrunedSound

-----------------------------------------------------------------------------
(* remember and apply.                                                        *)

LEMMA RememberSound ==
    ASSUME NEW t \in Tables, OwnCustomer(t), NEW s \in Servers, NEW c, NEW f,
           SessOf(f) \in Sess, Speaks(s, SessOf(f), c)
    PROVE  Remember(t, s, f) \in Tables /\ OwnCustomer(Remember(t, s, f))
<1> DEFINE n == MergeSess(SessOf(f), LookupRaw(t, s, SessOf(f)))
<1>1. n \in Sess /\ Speaks(s, n, c)
  BY LookupSpeaks, MergeSpeaks
<1>2. Remember(t, s, f) \in {t, Store(t, s, n)}
  BY DEF Remember
<1> HIDE DEF n
<1>3. QED
  BY <1>1, <1>2, StoreSound

LEMMA SanitizedSpeaks ==
    ASSUME NEW s \in Servers, NEW c, NEW f \in Lines, Speaks(s, f, c)
    PROVE  Sanitized(f) \in Lines /\ Speaks(s, Sanitized(f), c)
<1>1. Sanitized(f) \in Lines
  BY DEF Sanitized, Lines
<1>2. /\ Sanitized(f).user = f.user /\ Sanitized(f).mac = f.mac
      /\ Sanitized(f).fromIp = f.fromIp
  BY DEF Sanitized, Lines
<1>3. QED
  BY <1>1, <1>2 DEF Speaks

LEMMA SessOfSpeaks ==
    ASSUME NEW s \in Servers, NEW c, NEW f \in Lines, Speaks(s, f, c)
    PROVE  SessOf(f) \in Sess /\ Speaks(s, SessOf(f), c)
BY DEF SessOf, Sess, Lines, Speaks

LEMMA RowSpeaks ==
    ASSUME NEW t \in Tables, OwnCustomer(t), NEW s \in Servers, NEW c, NEW f \in Lines,
           Speaks(s, f, c), NEW wan \in Gateways \cup {None}
    PROVE  AppliedRow(t, s, f, wan) \in Lines /\ Speaks(s, AppliedRow(t, s, f, wan), c)
<1> DEFINE clean == Sanitized(f)
           t1 == Remember(t, s, clean)
           hit == LookupRaw(t1, s, SessOf(clean))
           row == [clean EXCEPT !.user = Pick(@, hit.user), !.mac = Pick(@, hit.mac),
                                !.fromIp = Pick(@, KnownIp(hit.fromIp)),
                                !.gateway = Pick(@, hit.gateway)]
<1>1. clean \in Lines /\ Speaks(s, clean, c)
  BY SanitizedSpeaks
<1>2. SessOf(clean) \in Sess /\ Speaks(s, SessOf(clean), c)
  BY <1>1, SessOfSpeaks
<1>3. t1 \in Tables /\ OwnCustomer(t1)
  BY <1>2, RememberSound
<1>4. hit \in Sess /\ Speaks(s, hit, c)
  BY <1>2, <1>3, LookupSpeaks
<1>5. Completed(t1, s, f) = row
  BY DEF Completed
<1> HIDE DEF hit, t1, clean
<1>6. row \in Lines
  <2>1. /\ Pick(clean.user, hit.user) \in Users \cup {None}
        /\ Pick(clean.mac, hit.mac) \in Macs \cup {None}
        /\ Pick(clean.fromIp, KnownIp(hit.fromIp)) \in Ips \cup {None}
        /\ Pick(clean.gateway, hit.gateway) \in Gateways \cup {None}
    BY <1>1, <1>4 DEF Lines, Sess, Pick, KnownIp
  <2>2. QED
    BY <1>1, <2>1 DEF Lines
<1>7. Speaks(s, row, c)
  <2>1. /\ row.user = Pick(clean.user, hit.user) /\ row.mac = Pick(clean.mac, hit.mac)
        /\ row.fromIp = Pick(clean.fromIp, KnownIp(hit.fromIp))
    BY <1>1 DEF Lines
  <2>2. QED
    BY <1>1, <1>4, <2>1 DEF Speaks, Pick, KnownIp, Keyed
<1> HIDE DEF row
<1>8. Sanitized(row) \in Lines /\ Speaks(s, Sanitized(row), c)
  BY <1>6, <1>7, SanitizedSpeaks
<1>9. \A g \in Lines : Speaks(s, g, c) => WithWan(g, wan) \in Lines /\ Speaks(s, WithWan(g, wan), c)
  <2> SUFFICES ASSUME NEW g \in Lines, Speaks(s, g, c)
               PROVE  WithWan(g, wan) \in Lines /\ Speaks(s, WithWan(g, wan), c)
    OBVIOUS
  <2>1. WithWan(g, wan) \in Lines
    BY DEF WithWan, Lines
  <2>2. /\ WithWan(g, wan).user = g.user /\ WithWan(g, wan).mac = g.mac
        /\ WithWan(g, wan).fromIp = g.fromIp
    BY DEF WithWan, Lines
  <2>3. QED
    BY <2>1, <2>2 DEF Speaks
<1>10. AppliedRow(t, s, f, wan) = WithWan(Sanitized(row), wan)
  BY <1>5 DEF AppliedRow, t1, clean
<1>11. QED
  BY <1>8, <1>9, <1>10

LEMMA ApplySound ==
    ASSUME NEW t \in Tables, OwnCustomer(t), NEW s \in Servers, NEW c, NEW f \in Lines,
           Speaks(s, f, c), NEW wan \in Gateways \cup {None}
    PROVE  AppliedTable(t, s, f, wan) \in Tables /\ OwnCustomer(AppliedTable(t, s, f, wan))
<1>1. SessOf(Sanitized(f)) \in Sess /\ Speaks(s, SessOf(Sanitized(f)), c)
  BY SanitizedSpeaks, SessOfSpeaks
<1>2. /\ Remember(t, s, Sanitized(f)) \in Tables
      /\ OwnCustomer(Remember(t, s, Sanitized(f)))
  BY <1>1, RememberSound
<1>3. /\ SessOf(AppliedRow(t, s, f, wan)) \in Sess
      /\ Speaks(s, SessOf(AppliedRow(t, s, f, wan)), c)
  BY RowSpeaks, SessOfSpeaks
<1>4. QED
  BY <1>2, <1>3, RememberSound DEF AppliedTable

-----------------------------------------------------------------------------
(* The specification.                                                         *)

LEMMA BecomesSound ==
    ASSUME NEW t \in Tables, OwnCustomer(t), Becomes(t)
    PROVE  SessionTypeOK' /\ OneCustomer'
<1>1. /\ byIp' = t.ip /\ byMac' = t.mac /\ byUser' = t.user /\ order' = t.order
  BY DEF Becomes
<1>2. SessionTypeOK'
  BY <1>1 DEF SessionTypeOK, Tables
<1>3. OneCustomer'
  BY <1>1 DEF OneCustomer, OwnCustomer, Now
<1>4. QED
  BY <1>2, <1>3

LEMMA EmptySound == SessionInit => SessionTypeOK /\ OneCustomer
<1> SUFFICES ASSUME SessionInit PROVE SessionTypeOK /\ OneCustomer
  OBVIOUS
<1>1. Blank \in Sess
  BY DEF Blank, Sess
<1>2. SessionTypeOK
  BY <1>1 DEF SessionInit, SessionTypeOK
<1>3. OneCustomer
  BY DEF SessionInit, OneCustomer, OwnCustomer, Now
<1>4. QED
  BY <1>2, <1>3

LEMMA NextSound == SessionTypeOK /\ OneCustomer /\ [SessionNext]_sessionVars => SessionTypeOK' /\ OneCustomer'
<1> SUFFICES ASSUME SessionTypeOK, OneCustomer, [SessionNext]_sessionVars PROVE SessionTypeOK' /\ OneCustomer'
  OBVIOUS
<1>1. Now \in Tables /\ OwnCustomer(Now)
  BY DEF SessionTypeOK, OneCustomer, Now, Tables
<1>2. ASSUME NEW s \in Servers, NEW f \in LinesOf(s), Learn(s, f)
      PROVE  SessionTypeOK' /\ OneCustomer'
  <2>1. PICK c \in Customers : f \in Lines /\ Speaks(s, f, c)
    BY DEF LinesOf
  <2>2. SessOf(f) \in Sess /\ Speaks(s, SessOf(f), c)
    BY <2>1, SessOfSpeaks
  <2>3. Remember(Now, s, f) \in Tables /\ OwnCustomer(Remember(Now, s, f))
    BY <1>1, <2>2, RememberSound
  <2>4. QED
    BY <1>2, <2>3, BecomesSound DEF Learn
<1>3. ASSUME NEW s \in Servers, NEW f \in LinesOf(s), NEW wan \in Gateways \cup {None},
             Complete(s, f, wan)
      PROVE  SessionTypeOK' /\ OneCustomer'
  <2>1. PICK c \in Customers : f \in Lines /\ Speaks(s, f, c)
    BY DEF LinesOf
  <2>2. AppliedTable(Now, s, f, wan) \in Tables /\ OwnCustomer(AppliedTable(Now, s, f, wan))
    BY <1>1, <2>1, ApplySound
  <2>3. QED
    BY <1>3, <2>2, BecomesSound DEF Complete
<1>4. CASE SessionsLost
  <2>1. Blank \in Sess
    BY DEF Blank, Sess
  <2>2. SessionTypeOK'
    BY <1>4, <2>1 DEF SessionsLost, SessionTypeOK
  <2>3. OneCustomer'
    BY <1>4 DEF SessionsLost, OneCustomer, OwnCustomer, Now
  <2>4. QED
    BY <2>2, <2>3
<1>5. CASE UNCHANGED sessionVars
  BY <1>5 DEF sessionVars, SessionTypeOK, OneCustomer, OwnCustomer, Now
<1>6. QED
  BY <1>2, <1>3, <1>4, <1>5 DEF SessionNext

\* No entry of the table ever mixes two customers, for any number of routers,
\* customers and lines, and whatever prune removes.
THEOREM NoMixedEntry == SessionSpec => []OneCustomer
<1>1. SessionTypeOK /\ OneCustomer => OneCustomer
  OBVIOUS
<1>2. QED
  BY EmptySound, NextSound, PTL DEF SessionSpec

\* No row that apply completes is given a field of another customer.
THEOREM NoMixedRow == SessionSpec => []RowOfOneCustomer
<1>1. SessionTypeOK /\ OneCustomer => RowOfOneCustomer
  <2> SUFFICES ASSUME SessionTypeOK, OneCustomer PROVE RowOfOneCustomer
    OBVIOUS
  <2>1. Now \in Tables /\ OwnCustomer(Now)
    BY DEF SessionTypeOK, OneCustomer, Now, Tables
  <2>2. QED
    BY <2>1, RowSpeaks DEF RowOfOneCustomer
<1>2. QED
  BY <1>1, EmptySound, NextSound, PTL DEF SessionSpec

\* A search by user name reaches the log only by addresses of matching customers.
THEOREM SearchIsolated == SessionSpec => []SearchStaysWithCustomer
<1>1. SessionTypeOK /\ OneCustomer => SearchStaysWithCustomer
  <2> SUFFICES ASSUME SessionTypeOK, OneCustomer, NEW s \in Servers, NEW found \in SUBSET Names,
                      NEW ip \in IpsMatchingUser(s, found) \cap PrivateIps
               PROVE  \E x \in found : Of[s][x] = Of[s][ip]
    BY DEF SearchStaysWithCustomer
  <2>1. CASE \E x \in found : byUser[<<s, x>>] # Blank /\ byUser[<<s, x>>].fromIp = ip
    <3>1. PICK x \in found : byUser[<<s, x>>] # Blank /\ byUser[<<s, x>>].fromIp = ip
      BY <2>1
    <3>2. Speaks(s, byUser[<<s, x>>], Of[s][x])
      BY <3>1 DEF OneCustomer, OwnCustomer, Now
    <3>3. QED
      BY <3>1, <3>2 DEF Speaks
  <2>2. CASE \E a \in Ips : /\ byIp[<<s, a>>].user # None /\ byIp[<<s, a>>].fromIp = ip
                            /\ Lower[byIp[<<s, a>>].user] \in found
    <3>1. PICK a \in Ips : /\ byIp[<<s, a>>].user # None /\ byIp[<<s, a>>].fromIp = ip
                           /\ Lower[byIp[<<s, a>>].user] \in found
      BY <2>2
    <3>2. byIp[<<s, a>>] # Blank
      BY <3>1 DEF Blank
    <3>3. Speaks(s, byIp[<<s, a>>], Of[s][a])
      BY <3>2 DEF OneCustomer, OwnCustomer, Now
    <3>4. QED
      BY <3>1, <3>3 DEF Speaks
  <2>3. QED
    BY <2>1, <2>2 DEF IpsMatchingUser
<1>2. QED
  BY <1>1, EmptySound, NextSound, PTL DEF SessionSpec

-----------------------------------------------------------------------------
(* The bound of the map of addresses: the order that prune follows lists each  *)
(* key once, and nothing else.                                                 *)
KeysOf(t) == {k \in Servers \X Ips : t.ip[k] # Blank}
Listed(t) ==
    /\ {t.order[i] : i \in DOMAIN t.order} = KeysOf(t)
    /\ \A i, j \in DOMAIN t.order : t.order[i] = t.order[j] => i = j

\* A sequence without its first d elements.
LEMMA Dropped ==
    ASSUME NEW S, NEW q \in Seq(S), NEW d \in 0..Len(q)
    PROVE  LET r == SubSeq(q, d + 1, Len(q))
           IN  Len(r) = Len(q) - d /\ \A i \in 1..Len(r) : r[i] = q[d + i]
<1> DEFINE r == SubSeq(q, d + 1, Len(q))
<1>1. Len(q) \in Nat /\ \A i \in (d + 1)..Len(q) : q[i] \in S
  OBVIOUS
<1>2. Len(r) = IF d + 1 <= Len(q) THEN Len(q) - (d + 1) + 1 ELSE 0
  BY <1>1
<1>3. \A i \in 1..(Len(q) - (d + 1) + 1) : r[i] = q[(d + 1) + i - 1]
  BY <1>1
<1> HIDE DEF r
<1>4. Len(r) = Len(q) - d
  BY <1>1, <1>2
<1>5. ASSUME NEW i \in 1..Len(r) PROVE r[i] = q[d + i]
  <2>1. r[i] = q[(d + 1) + i - 1] /\ (d + 1) + i - 1 = d + i
    BY <1>1, <1>3, <1>4
  <2> QED
    BY <2>1
<1> QED
  BY <1>4, <1>5 DEF r

\* Of an order with PruneAt keys, prune takes the first ones, and their entries.
LEMMA PrunedListed ==
    ASSUME NEW t \in Tables, Listed(t), Len(t.order) <= PruneAt
    PROVE  Listed(Pruned(t)) /\ Len(Pruned(t).order) < PruneAt
<1> DEFINE drop == IF Len(t.order) > PruneOver + 1 THEN PruneOver + 1 ELSE Len(t.order)
           gone == {t.order[i] : i \in 1..drop}
           kept == [k \in Servers \X Ips |-> IF k \in gone THEN Blank ELSE t.ip[k]]
           rest == SubSeq(t.order, drop + 1, Len(t.order))
<1>0. PruneAt \in Nat \ {0} /\ PruneOver \in Nat /\ t.order \in Seq(Servers \X Ips)
  BY TableAssumption DEF Tables
<1>1. CASE Len(t.order) < PruneAt
  BY <1>1 DEF Pruned
<1>2. CASE ~(Len(t.order) < PruneAt)
  <2>1. drop \in 1..Len(t.order)
    BY <1>0, <1>2
  <2>2. Len(rest) = Len(t.order) - drop /\ \A i \in 1..Len(rest) : rest[i] = t.order[drop + i]
    <3>1. drop \in 0..Len(t.order)
      BY <2>1
    <3> HIDE DEF drop
    <3> QED
      BY <1>0, <3>1, Dropped
  <2>3. Pruned(t) = [t EXCEPT !.ip = kept, !.order = rest]
    BY <1>2 DEF Pruned
  <2>4. Pruned(t).ip = kept /\ Pruned(t).order = rest
    BY <2>3 DEF Tables
  <2>5. \A k \in Servers \X Ips : kept[k] # Blank <=> t.ip[k] # Blank /\ k \notin gone
    OBVIOUS
  <2> HIDE DEF drop, kept, rest
  <2>6. DOMAIN rest = 1..Len(rest) /\ DOMAIN t.order = 1..Len(t.order)
    <3>1. rest \in Seq(Servers \X Ips)
      BY <1>0, <2>1 DEF rest
    <3> QED
      BY <1>0, <3>1
  <2> DEFINE n == Len(t.order)
  <2>0. /\ n \in Nat /\ drop \in 1..n /\ DOMAIN rest = 1..(n - drop)
        /\ \A i, j \in 1..n : t.order[i] = t.order[j] => i = j
    <3>1. n \in Nat /\ drop \in 1..n /\ Len(rest) = n - drop /\ DOMAIN rest = 1..Len(rest)
      BY <1>0, <2>1, <2>2, <2>6
    <3>2. \A i, j \in DOMAIN t.order : t.order[i] = t.order[j] => i = j
      BY DEF Listed
    <3> QED
      BY <2>6, <3>1, <3>2
  <2>7. ASSUME NEW i \in DOMAIN rest, NEW j \in DOMAIN rest, rest[i] = rest[j] PROVE i = j
    <3>1. drop + i \in 1..n /\ drop + j \in 1..n
      BY <2>0
    <3>2. t.order[drop + i] = t.order[drop + j]
      BY <2>2, <2>6, <2>7
    <3>3. drop + i = drop + j
      BY <2>0, <3>1, <3>2
    <3> QED
      BY <2>0, <3>3
  <2>8. ASSUME NEW i \in DOMAIN rest
        PROVE  rest[i] \in Servers \X Ips /\ kept[rest[i]] # Blank
    <3>1. drop + i \in DOMAIN t.order /\ rest[i] = t.order[drop + i]
      BY <1>0, <2>1, <2>2, <2>6
    <3>2. rest[i] \in KeysOf(t)
      BY <3>1 DEF Listed
    <3>3. \A j \in 1..drop : t.order[j] # rest[i]
      BY <2>0, <2>6, <3>1
    <3> QED
      BY <2>5, <3>2, <3>3 DEF KeysOf
  <2>9. ASSUME NEW k \in Servers \X Ips, kept[k] # Blank
        PROVE  \E i \in DOMAIN rest : rest[i] = k
    <3>1. k \in KeysOf(t) /\ k \notin gone
      BY <2>5, <2>9 DEF KeysOf
    <3>2. PICK j \in DOMAIN t.order : t.order[j] = k
      BY <3>1 DEF Listed
    <3>3. j > drop
      BY <1>0, <2>1, <2>6, <3>1, <3>2
    <3>4. j - drop \in DOMAIN rest /\ rest[j - drop] = t.order[drop + (j - drop)]
      BY <1>0, <2>1, <2>2, <2>6, <3>3
    <3>5. drop + (j - drop) = j
      BY <2>1, <2>6
    <3> QED
      BY <3>2, <3>4, <3>5
  <2>10. Listed(Pruned(t))
    BY <2>4, <2>7, <2>8, <2>9 DEF Listed, KeysOf
  <2>11. Len(rest) < PruneAt
    BY <1>0, <2>1, <2>2
  <2> QED
    BY <2>4, <2>10, <2>11
<1> QED
  BY <1>1, <1>2

\* An entry that is stored has a private address, so it is not blank: its key is on the
\* order, where it was or at the end.
LEMMA StoreListed ==
    ASSUME NEW t \in Tables, Listed(t), Len(t.order) < PruneAt, NEW s \in Servers, NEW n \in Sess
    PROVE  Listed(Store(t, s, n)) /\ Len(Store(t, s, n).order) < PruneAt
<1> DEFINE k == IpKey(s, n.fromIp)
           ip1 == IF Keyed(n.fromIp) THEN [t.ip EXCEPT ![k] = n] ELSE t.ip
           mac1 == IF n.mac # None THEN [t.mac EXCEPT ![MacKey(s, n.mac)] = n] ELSE t.mac
           user1 == IF n.user # None THEN [t.user EXCEPT ![UserKey(s, n.user)] = n] ELSE t.user
           order1 == IF Keyed(n.fromIp) THEN Ordered(t, k) ELSE t.order
           u == [ip |-> ip1, mac |-> mac1, user |-> user1, order |-> order1]
<1>0. /\ t.order \in Seq(Servers \X Ips) /\ PruneAt \in Nat
      /\ t.ip \in [Servers \X Ips -> Sess] /\ DOMAIN t.order = 1..Len(t.order)
      /\ Len(t.order) \in Nat
  BY TableAssumption DEF Tables
<1>1. Store(t, s, n) = Pruned(u)
  BY DEF Store
<1>2. u \in Tables
  <2>1. ip1 \in [Servers \X Ips -> Sess] /\ mac1 \in [Servers \X Names -> Sess]
        /\ user1 \in [Servers \X Names -> Sess]
    BY DEF Tables
  <2>2. order1 \in Seq(Servers \X Ips)
    BY TableAssumption DEF Tables, Ordered, IpKey, Keyed
  <2> QED
    BY <2>1, <2>2 DEF Tables
<1>3. u.ip = ip1 /\ u.order = order1
  OBVIOUS
<1> HIDE DEF u, mac1, user1
<1>4. CASE ~ Keyed(n.fromIp)
  <2>1. u.ip = t.ip /\ u.order = t.order
    BY <1>3, <1>4
  <2>2. Listed(u)
    BY <2>1 DEF Listed, KeysOf
  <2>3. Len(u.order) <= PruneAt
    BY <1>0, <2>1
  <2> QED
    BY <1>1, <1>2, <2>2, <2>3, PrunedListed
<1>5. CASE Keyed(n.fromIp)
  <2>1. k \in Servers \X Ips /\ n # Blank
    BY <1>5, TableAssumption DEF IpKey, Keyed, Blank
  <2>2. ip1 = [t.ip EXCEPT ![k] = n]
    BY <1>5
  <2> HIDE DEF k, ip1
  <2>3. KeysOf(u) = KeysOf(t) \cup {k}
    BY <1>0, <1>3, <2>1, <2>2 DEF KeysOf
  <2>4. CASE t.ip[k] # Blank
    <3>1. u.order = t.order /\ k \in KeysOf(t)
      BY <1>3, <1>5, <2>1, <2>4 DEF Ordered, KeysOf
    <3>2. KeysOf(u) = KeysOf(t)
      BY <2>3, <3>1
    <3>3. Listed(u)
      BY <3>1, <3>2 DEF Listed
    <3>4. Len(u.order) <= PruneAt
      BY <1>0, <3>1
    <3> QED
      BY <1>1, <1>2, <3>3, <3>4, PrunedListed
  <2>5. CASE t.ip[k] = Blank
    <3>1. u.order = Append(t.order, k)
      BY <1>3, <1>5, <2>5 DEF Ordered
    <3>2. /\ Len(u.order) = Len(t.order) + 1 /\ DOMAIN u.order = 1..(Len(t.order) + 1)
          /\ \A i \in 1..Len(t.order) : u.order[i] = t.order[i]
          /\ u.order[Len(t.order) + 1] = k
      BY <1>0, <2>1, <3>1
    <3>3. \A i \in DOMAIN t.order : t.order[i] # k /\ t.order[i] \in KeysOf(t)
      BY <2>5 DEF Listed, KeysOf
    <3>4. ASSUME NEW i \in DOMAIN u.order, NEW j \in DOMAIN u.order, u.order[i] = u.order[j]
          PROVE  i = j
      <4>1. \A a, b \in DOMAIN t.order : t.order[a] = t.order[b] => a = b
        BY DEF Listed
      <4>2. CASE i \in DOMAIN t.order /\ j \in DOMAIN t.order
        BY <1>0, <3>2, <3>4, <4>1, <4>2
      <4>3. CASE i \notin DOMAIN t.order \/ j \notin DOMAIN t.order
        BY <1>0, <3>2, <3>3, <3>4, <4>3
      <4> QED
        BY <4>2, <4>3
    <3>5. \A i \in DOMAIN u.order : u.order[i] \in KeysOf(u)
      BY <1>0, <2>3, <3>2, <3>3
    <3>6. \A x \in KeysOf(u) : \E i \in DOMAIN u.order : u.order[i] = x
      <4> SUFFICES ASSUME NEW x \in KeysOf(u) PROVE \E i \in DOMAIN u.order : u.order[i] = x
        OBVIOUS
      <4>1. CASE x = k
        BY <1>0, <3>2, <4>1
      <4>2. CASE x # k
        <5>1. PICK i \in DOMAIN t.order : t.order[i] = x
          BY <2>3, <4>2 DEF Listed
        <5> QED
          BY <1>0, <3>2, <5>1
      <4> QED
        BY <4>1, <4>2
    <3>7. Listed(u)
      BY <3>4, <3>5, <3>6 DEF Listed
    <3>8. Len(u.order) <= PruneAt
      BY <1>0, <3>2
    <3> QED
      BY <1>1, <1>2, <3>7, <3>8, PrunedListed
  <2> QED
    BY <2>4, <2>5
<1> QED
  BY <1>4, <1>5

BoundInv == Listed(Now) /\ Len(order) < PruneAt

\* remember keeps it,
LEMMA RememberListed ==
    ASSUME NEW t \in Tables, Listed(t), Len(t.order) < PruneAt, NEW s \in Servers, NEW f,
           MergeSess(SessOf(f), LookupRaw(t, s, SessOf(f))) \in Sess
    PROVE  Listed(Remember(t, s, f)) /\ Len(Remember(t, s, f).order) < PruneAt
<1> DEFINE n == MergeSess(SessOf(f), LookupRaw(t, s, SessOf(f)))
<1>1. Remember(t, s, f) \in {t, Store(t, s, n)}
  BY DEF Remember
<1>2. n \in Sess
  OBVIOUS
<1> HIDE DEF n
<1> QED
  BY <1>1, <1>2, StoreListed

\* and so does every call of remember and of apply.
LEMMA StepListed == SessionTypeOK /\ OneCustomer /\ BoundInv /\ [SessionNext]_sessionVars => BoundInv'
<1> SUFFICES ASSUME SessionTypeOK, OneCustomer, BoundInv, [SessionNext]_sessionVars
             PROVE  BoundInv'
  OBVIOUS
<1>1. Now \in Tables /\ OwnCustomer(Now) /\ Listed(Now) /\ Len(Now.order) < PruneAt
  BY DEF SessionTypeOK, OneCustomer, BoundInv, Now, Tables
<1>2. ASSUME NEW t, Becomes(t), Listed(t), Len(t.order) < PruneAt PROVE BoundInv'
  <2>1. byIp' = t.ip /\ order' = t.order
    BY <1>2 DEF Becomes
  <2> QED
    BY <1>2, <2>1 DEF BoundInv, Listed, KeysOf, Now
<1>3. ASSUME NEW t \in Tables, OwnCustomer(t), Listed(t), Len(t.order) < PruneAt,
             NEW s \in Servers, NEW c, NEW f, SessOf(f) \in Sess, Speaks(s, SessOf(f), c)
      PROVE  /\ Remember(t, s, f) \in Tables /\ OwnCustomer(Remember(t, s, f))
             /\ Listed(Remember(t, s, f)) /\ Len(Remember(t, s, f).order) < PruneAt
  <2>1. MergeSess(SessOf(f), LookupRaw(t, s, SessOf(f))) \in Sess
    BY <1>3, LookupSpeaks, MergeSpeaks
  <2> QED
    BY <1>3, <2>1, RememberListed, RememberSound
<1>4. ASSUME NEW s \in Servers, NEW f \in LinesOf(s), Learn(s, f) PROVE BoundInv'
  <2>1. PICK c \in Customers : f \in Lines /\ Speaks(s, f, c)
    BY DEF LinesOf
  <2>2. SessOf(f) \in Sess /\ Speaks(s, SessOf(f), c)
    BY <2>1, SessOfSpeaks
  <2> QED
    BY <1>1, <1>2, <1>3, <1>4, <2>2 DEF Learn
<1>5. ASSUME NEW s \in Servers, NEW f \in LinesOf(s), NEW wan \in Gateways \cup {None},
             Complete(s, f, wan)
      PROVE  BoundInv'
  <2>1. PICK c \in Customers : f \in Lines /\ Speaks(s, f, c)
    BY DEF LinesOf
  <2>2. SessOf(Sanitized(f)) \in Sess /\ Speaks(s, SessOf(Sanitized(f)), c)
    BY <2>1, SanitizedSpeaks, SessOfSpeaks
  <2> DEFINE t == Remember(Now, s, Sanitized(f))
             row == AppliedRow(Now, s, f, wan)
  <2>3. t \in Tables /\ OwnCustomer(t) /\ Listed(t) /\ Len(t.order) < PruneAt
    BY <1>1, <1>3, <2>2
  <2>4. SessOf(row) \in Sess /\ Speaks(s, SessOf(row), c)
    BY <1>1, <2>1, RowSpeaks, SessOfSpeaks
  <2>5. Becomes(Remember(t, s, row))
    BY <1>5 DEF Complete, AppliedTable
  <2> HIDE DEF t, row
  <2> QED
    BY <1>2, <1>3, <2>3, <2>4, <2>5
<1>6. CASE SessionsLost
  <2>1. \A k \in Servers \X Ips : byIp'[k] = Blank
    BY <1>6 DEF SessionsLost
  <2>2. order' = <<>> /\ PruneAt > 0
    BY <1>6, TableAssumption DEF SessionsLost
  <2> QED
    BY <2>1, <2>2 DEF BoundInv, Listed, KeysOf, Now
<1>7. CASE UNCHANGED sessionVars
  BY <1>7 DEF sessionVars, BoundInv, Listed, KeysOf, Now
<1> QED
  BY <1>4, <1>5, <1>6, <1>7 DEF SessionNext

\* AddressesBounded: whatever lines come, the map of addresses has fewer than PruneAt
\* entries after every call, and the order prune follows lists each of its keys once
\* (store and prune of session-table.ts).
THEOREM MapIsBounded == SessionSpec => []AddressesBounded
<1>1. SessionInit => BoundInv
  BY TableAssumption DEF SessionInit, BoundInv, Listed, KeysOf, Now
<1>2. SessionTypeOK /\ BoundInv => AddressesBounded
  <2> SUFFICES ASSUME SessionTypeOK, BoundInv PROVE AddressesBounded
    OBVIOUS
  <2> DEFINE keys == {k \in Servers \X Ips : byIp[k] # Blank}
  <2>1. order \in Seq(Servers \X Ips) /\ PruneAt \in Nat /\ Len(order) < PruneAt
    BY TableAssumption DEF SessionTypeOK, BoundInv
  <2>2. /\ {order[i] : i \in DOMAIN order} = keys
        /\ \A i, j \in DOMAIN order : order[i] = order[j] => i = j
    BY DEF BoundInv, Listed, KeysOf, Now
  <2> HIDE DEF keys
  <2>3. order \in Bijection(1..Len(order), keys)
    BY <2>1, <2>2 DEF Bijection, Injection, Surjection, IsInjective
  <2>4. Cardinality(keys) = Len(order)
    BY <2>1, <2>3, FS_CountingElements DEF ExistsBijection
  <2> QED
    BY <2>1, <2>2, <2>4 DEF AddressesBounded, keys
<1> QED
  BY <1>1, <1>2, StepListed, EmptySound, NextSound, PTL DEF SessionSpec

-----------------------------------------------------------------------------
(* A session with the API of a router: what is read is what was asked for.      *)
Texts == {"length", "zero", "ret", "junk", "?", "ppp", "arp", "lease"} \cup Replies
Ends == Replies \ {"!re"}

(* What is on the wire while no query has gone wrong: n rows named x and then   *)
(* the replies ts, of which the first k words have been read.                   *)
On(w, x, n, ts, k) ==
    /\ Len(w) = 5 * n + 3 * Len(ts) - k
    /\ \A r \in 0..(n - 1), j \in 1..5 : 5 * r + j > k => w[5 * r + j - k] = FramedRow(x)[j]
    /\ \A m \in 1..Len(ts), j \in 1..3 :
          5 * n + 3 * (m - 1) + j > k => w[5 * n + 3 * (m - 1) + j - k] = Framed(ts[m])[j]

LEMMA RowFrame ==
  ASSUME NEW x \in Texts
  PROVE  /\ FramedRow(x) \in Seq(Texts) /\ Len(FramedRow(x)) = 5
         /\ FramedRow(x)[1] = "length" /\ FramedRow(x)[2] = "!re" /\ FramedRow(x)[3] = "length"
         /\ FramedRow(x)[4] = x /\ FramedRow(x)[5] = "zero"
BY DEF FramedRow, Texts, Replies

LEMMA TagFrame ==
  ASSUME NEW t \in Ends
  PROVE  /\ Framed(t) \in Seq(Texts) /\ Len(Framed(t)) = 3
         /\ Framed(t)[1] = "length" /\ Framed(t)[2] = t /\ Framed(t)[3] = "zero"
BY DEF Framed, Texts, Replies, Ends

(* Two sequences joined.                                                       *)
LEMMA Joined ==
  ASSUME NEW u \in Seq(Texts), NEW v \in Seq(Texts)
  PROVE  /\ u \o v \in Seq(Texts) /\ Len(u) \in Nat /\ Len(v) \in Nat
         /\ Len(u \o v) = Len(u) + Len(v)
         /\ \A i \in 1..Len(u) : (u \o v)[i] = u[i]
         /\ \A i \in 1..Len(v) : (u \o v)[Len(u) + i] = v[i]
OBVIOUS

(* The router sends one row more.                                              *)
LEMMA RowSent ==
  ASSUME NEW w \in Seq(Texts), NEW x \in Texts, NEW n \in Nat, NEW k \in Nat,
         On(w, x, n, <<>>, k), k <= 5 * n
  PROVE  /\ w \o FramedRow(x) \in Seq(Texts)
         /\ On(w \o FramedRow(x), x, n + 1, <<>>, k)
<1> DEFINE f == FramedRow(x)
<1>1. f \in Seq(Texts) /\ Len(f) = 5
  BY RowFrame
<1>j. /\ w \o f \in Seq(Texts) /\ Len(w) \in Nat
      /\ Len(w \o f) = Len(w) + 5
      /\ \A i \in 1..Len(w) : (w \o f)[i] = w[i]
      /\ \A i \in 1..5 : (w \o f)[Len(w) + i] = f[i]
  <2> HIDE DEF f
  <2>1. f \in Seq(Texts)
    BY <1>1
  <2>2. /\ w \o f \in Seq(Texts) /\ Len(w) \in Nat /\ Len(w \o f) = Len(w) + Len(f)
        /\ \A i \in 1..Len(w) : (w \o f)[i] = w[i]
        /\ \A i \in 1..Len(f) : (w \o f)[Len(w) + i] = f[i]
    BY <2>1, Joined
  <2> QED
    BY <1>1, <2>2
<1> HIDE DEF f
<1>2. Len(w) = 5 * n - k
  BY DEF On
<1>3. ASSUME NEW r \in 0..n, NEW j \in 1..5, 5 * r + j > k
      PROVE  (w \o f)[5 * r + j - k] = f[j]
  <2>1. CASE r = n
    <3>1. 5 * r + j - k = Len(w) + j
      BY <1>2, <2>1
    <3> QED
      BY <1>j, <3>1
  <2>2. CASE r < n
    <3>1. r \in 0..(n - 1) /\ 5 * r + j - k \in 1..Len(w)
      BY <1>2, <1>3, <2>2
    <3>2. w[5 * r + j - k] = f[j]
      BY <1>3, <3>1 DEF On, f
    <3> QED
      BY <1>j, <3>1, <3>2
  <2>3. r = n \/ r < n
    OBVIOUS
  <2> QED
    BY <2>1, <2>2, <2>3
<1>4. w \o f \in Seq(Texts) /\ Len(w \o f) = 5 * (n + 1) + 3 * Len(<<>>) - k
  BY <1>j, <1>2
<1>7. \A r \in 0..((n + 1) - 1), j \in 1..5 :
         5 * r + j > k => (w \o f)[5 * r + j - k] = FramedRow(x)[j]
  <2>1. (n + 1) - 1 = n
    OBVIOUS
  <2> QED
    BY <1>3, <2>1 DEF f
<1>6. On(w \o f, x, n + 1, <<>>, k)
  <2>1. n + 1 \in Nat /\ 1..Len(<<>>) = {}
    OBVIOUS
  <2> DEFINE v == w \o f
             m == n + 1
  <2> HIDE DEF v, m
  <2>2. Len(v) = 5 * m + 3 * Len(<<>>) - k
        /\ \A r \in 0..(m - 1), j \in 1..5 : 5 * r + j > k => v[5 * r + j - k] = FramedRow(x)[j]
    BY <1>4, <1>7 DEF v, m
  <2>3. On(v, x, m, <<>>, k)
    BY <2>1, <2>2 DEF On
  <2> QED
    BY <2>3 DEF v, m
<1> QED
  BY <1>4, <1>6 DEF f

(* The router ends its answer.                                                 *)
LEMMA TagSent ==
  ASSUME NEW w \in Seq(Texts), NEW x \in Texts, NEW n \in Nat, NEW k \in Nat,
         NEW ts \in Seq(Ends), NEW t \in Ends,
         On(w, x, n, ts, k), k <= 5 * n + 3 * Len(ts)
  PROVE  /\ w \o Framed(t) \in Seq(Texts)
         /\ On(w \o Framed(t), x, n, Append(ts, t), k)
<1> DEFINE f == Framed(t)
           us == Append(ts, t)
<1>1. f \in Seq(Texts) /\ Len(f) = 3
  BY TagFrame
<1>j. /\ w \o f \in Seq(Texts) /\ Len(w) \in Nat
      /\ Len(w \o f) = Len(w) + 3
      /\ \A i \in 1..Len(w) : (w \o f)[i] = w[i]
      /\ \A i \in 1..3 : (w \o f)[Len(w) + i] = f[i]
  <2> HIDE DEF f
  <2>1. f \in Seq(Texts)
    BY <1>1
  <2>2. /\ w \o f \in Seq(Texts) /\ Len(w) \in Nat /\ Len(w \o f) = Len(w) + Len(f)
        /\ \A i \in 1..Len(w) : (w \o f)[i] = w[i]
        /\ \A i \in 1..Len(f) : (w \o f)[Len(w) + i] = f[i]
    BY <2>1, Joined
  <2> QED
    BY <1>1, <2>2
<1> HIDE DEF f
<1>2. Len(w) = 5 * n + 3 * Len(ts) - k /\ Len(ts) \in Nat
  BY DEF On
<1>3. ASSUME NEW r \in 0..(n - 1), NEW j \in 1..5, 5 * r + j > k
      PROVE  (w \o f)[5 * r + j - k] = FramedRow(x)[j]
  <2>1. 5 * r + j - k \in 1..Len(w)
    BY <1>2, <1>3
  <2>2. w[5 * r + j - k] = FramedRow(x)[j]
    BY <1>3 DEF On
  <2> QED
    BY <1>j, <2>1, <2>2
<1>4. us \in Seq(Ends) /\ Len(us) = Len(ts) + 1 /\ us[Len(ts) + 1] = t
  OBVIOUS
<1>5. ASSUME NEW m \in 1..(Len(ts) + 1), NEW j \in 1..3, 5 * n + 3 * (m - 1) + j > k
      PROVE  (w \o f)[5 * n + 3 * (m - 1) + j - k] = Framed(us[m])[j]
  <2>1. CASE m = Len(ts) + 1
    <3>1. 5 * n + 3 * (m - 1) + j - k = Len(w) + j
      BY <1>2, <2>1
    <3>2. (w \o f)[5 * n + 3 * (m - 1) + j - k] = f[j]
      BY <1>j, <3>1
    <3> QED
      BY <1>4, <2>1, <3>2 DEF f
  <2>2. CASE m <= Len(ts)
    <3>1. m \in 1..Len(ts) /\ 5 * n + 3 * (m - 1) + j - k \in 1..Len(w)
      BY <1>2, <1>5, <2>2
    <3>2. w[5 * n + 3 * (m - 1) + j - k] = Framed(ts[m])[j]
      BY <1>5, <3>1 DEF On
    <3>3. us[m] = ts[m]
      BY <3>1
    <3> QED
      BY <1>j, <3>1, <3>2, <3>3
  <2>3. m = Len(ts) + 1 \/ m <= Len(ts)
    BY <1>2
  <2> QED
    BY <2>1, <2>2, <2>3
<1> HIDE DEF us
<1>6. w \o f \in Seq(Texts) /\ Len(w \o f) = 5 * n + 3 * Len(us) - k
  BY <1>j, <1>2, <1>4
<1>7. On(w \o f, x, n, us, k)
  <2>1. \A r \in 0..(n - 1), j \in 1..5 :
           5 * r + j > k => (w \o f)[5 * r + j - k] = FramedRow(x)[j]
    BY <1>3
  <2>2. \A m \in 1..Len(us), j \in 1..3 :
           5 * n + 3 * (m - 1) + j > k => (w \o f)[5 * n + 3 * (m - 1) + j - k] = Framed(us[m])[j]
    BY <1>4, <1>5
  <2> QED
    BY <1>6, <2>1, <2>2 DEF On
<1> QED
  BY <1>6, <1>7 DEF f, us

(* The caller reads one word.                                                  *)
LEMMA WordRead ==
  ASSUME NEW w \in Seq(Texts), NEW x \in Texts, NEW n \in Nat, NEW k \in Nat,
         NEW ts \in Seq(Ends), On(w, x, n, ts, k), w # <<>>
  PROVE  /\ Tail(w) \in Seq(Texts) /\ w[1] \in Texts
         /\ On(Tail(w), x, n, ts, k + 1)
<1> DEFINE v == Tail(w)
<1>1. v \in Seq(Texts) /\ w[1] \in Texts /\ Len(v) = Len(w) - 1 /\ Len(w) \in Nat
      /\ \A i \in 1..Len(v) : v[i] = w[i + 1]
  OBVIOUS
<1>2. Len(w) = 5 * n + 3 * Len(ts) - k /\ Len(ts) \in Nat
  BY DEF On
<1>3. ASSUME NEW r \in 0..(n - 1), NEW j \in 1..5, 5 * r + j > k + 1
      PROVE  v[5 * r + j - (k + 1)] = FramedRow(x)[j]
  <2>1. 5 * r + j - (k + 1) \in 1..Len(v) /\ 5 * r + j - (k + 1) + 1 = 5 * r + j - k
    BY <1>1, <1>2, <1>3
  <2>2. w[5 * r + j - k] = FramedRow(x)[j]
    BY <1>3 DEF On
  <2> HIDE DEF v
  <2> QED
    BY <1>1, <2>1, <2>2
<1>4. ASSUME NEW m \in 1..Len(ts), NEW j \in 1..3, 5 * n + 3 * (m - 1) + j > k + 1
      PROVE  v[5 * n + 3 * (m - 1) + j - (k + 1)] = Framed(ts[m])[j]
  <2>1. 5 * n + 3 * (m - 1) + j - (k + 1) \in 1..Len(v)
        /\ 5 * n + 3 * (m - 1) + j - (k + 1) + 1 = 5 * n + 3 * (m - 1) + j - k
    BY <1>1, <1>2, <1>4
  <2>2. w[5 * n + 3 * (m - 1) + j - k] = Framed(ts[m])[j]
    BY <1>4 DEF On
  <2> HIDE DEF v
  <2> QED
    BY <1>1, <2>1, <2>2
<1> HIDE DEF v
<1>5. On(v, x, n, ts, k + 1)
  BY <1>1, <1>2, <1>3, <1>4 DEF On
<1> QED
  BY <1>1, <1>5 DEF v

(* The word at the front.                                                      *)
LEMMA WordAtFront ==
  ASSUME NEW w \in Seq(Texts), NEW x \in Texts, NEW n \in Nat, NEW k \in Nat,
         NEW ts \in Seq(Ends), On(w, x, n, ts, k), w # <<>>
  PROVE  /\ n > 0 /\ k <= 4 => w[1] = FramedRow(x)[k + 1]
         /\ n = 0 /\ ts # <<>> /\ k <= 2 => w[1] = Framed(ts[1])[k + 1]
         /\ n > 0 \/ ts # <<>>
<1>1. ASSUME n > 0, k <= 4
      PROVE  w[1] = FramedRow(x)[k + 1]
  <2>1. 0 \in 0..(n - 1) /\ k + 1 \in 1..5 /\ 5 * 0 + (k + 1) > k /\ 5 * 0 + (k + 1) - k = 1
    BY <1>1
  <2> QED
    BY <2>1 DEF On
<1>2. ASSUME n = 0, ts # <<>>, k <= 2
      PROVE  w[1] = Framed(ts[1])[k + 1]
  <2>1. 1 \in 1..Len(ts) /\ k + 1 \in 1..3 /\ 5 * n + 3 * (1 - 1) + (k + 1) > k
        /\ 5 * n + 3 * (1 - 1) + (k + 1) - k = 1
    BY <1>2
  <2> QED
    BY <2>1 DEF On
<1>3. n > 0 \/ ts # <<>>
  BY DEF On
<1> QED
  BY <1>1, <1>2, <1>3

(* A sentence has been read to its end.                                        *)
LEMMA RowOver ==
  ASSUME NEW w \in Seq(Texts), NEW x \in Texts, NEW n \in Nat, n > 0,
         NEW ts \in Seq(Ends), On(w, x, n, ts, 5)
  PROVE  On(w, x, n - 1, ts, 0)
<1>1. Len(w) = 5 * (n - 1) + 3 * Len(ts) - 0
  BY DEF On
<1>2. ASSUME NEW r \in 0..((n - 1) - 1), NEW j \in 1..5
      PROVE  w[5 * r + j - 0] = FramedRow(x)[j]
  <2>1. r + 1 \in 0..(n - 1) /\ 5 * (r + 1) + j > 5 /\ 5 * (r + 1) + j - 5 = 5 * r + j - 0
    OBVIOUS
  <2> QED
    BY <2>1 DEF On
<1>3. ASSUME NEW m \in 1..Len(ts), NEW j \in 1..3
      PROVE  w[5 * (n - 1) + 3 * (m - 1) + j - 0] = Framed(ts[m])[j]
  <2>1. 5 * n + 3 * (m - 1) + j > 5
        /\ 5 * n + 3 * (m - 1) + j - 5 = 5 * (n - 1) + 3 * (m - 1) + j - 0
    OBVIOUS
  <2> QED
    BY <2>1 DEF On
<1> QED
  BY <1>1, <1>2, <1>3 DEF On

LEMMA TagOver ==
  ASSUME NEW w \in Seq(Texts), NEW x \in Texts, NEW y \in Texts,
         NEW ts \in Seq(Ends), ts # <<>>, On(w, x, 0, ts, 3)
  PROVE  /\ Tail(ts) \in Seq(Ends)
         /\ On(w, y, 0, Tail(ts), 0)
<1> DEFINE us == Tail(ts)
<1>1. us \in Seq(Ends) /\ Len(us) = Len(ts) - 1 /\ Len(ts) \in Nat
      /\ \A i \in 1..Len(us) : us[i] = ts[i + 1]
  OBVIOUS
<1>2. Len(w) = 5 * 0 + 3 * Len(us) - 0
  BY <1>1 DEF On
<1>3. ASSUME NEW m \in 1..Len(us), NEW j \in 1..3
      PROVE  w[5 * 0 + 3 * (m - 1) + j - 0] = Framed(us[m])[j]
  <2>1. m + 1 \in 1..Len(ts) /\ 5 * 0 + 3 * ((m + 1) - 1) + j > 3
        /\ 5 * 0 + 3 * ((m + 1) - 1) + j - 3 = 5 * 0 + 3 * (m - 1) + j - 0
    BY <1>1
  <2> HIDE DEF us
  <2> QED
    BY <1>1, <2>1 DEF On
<1> HIDE DEF us
<1>4. On(w, y, 0, us, 0)
  <2>1. \A r \in 0..(0 - 1), j \in 1..5 :
           5 * r + j > 0 => w[5 * r + j - 0] = FramedRow(y)[j]
    OBVIOUS
  <2> QED
    BY <1>2, <1>3, <2>1 DEF On
<1> QED
  BY <1>1, <1>4 DEF us

(* Nothing is on the wire when nothing is under way.                           *)
LEMMA NothingOn ==
  ASSUME NEW w \in Seq(Texts), NEW x \in Texts
  PROVE  /\ On(<<>>, x, 0, <<>>, 0)
         /\ On(w, x, 0, <<>>, 0) => w = <<>>
BY DEF On

-----------------------------------------------------------------------------
Commands == Queries \cup {"login", "again"}
Caller == [at : {"start", "login", "again", "print", "over"}, query : 1..3, count : Nat,
           words : Seq(Texts), part : {"length", "text", "lost"}]
ApiTypes ==
    /\ link \in {"closed", "open", "shut"} /\ trapped \in BOOLEAN /\ upset \in BOOLEAN
    /\ orders \in Seq(Commands) /\ wire \in Seq(Texts) /\ caller \in Caller
    /\ lists \in [Queries -> Seq(Texts)] /\ rowsSent \in [Queries -> 0..MaxRows]

LEMMA Turns ==
  /\ Len(Order) = 3 /\ Queries \subseteq Texts
  /\ Order[1] = "ppp" /\ Order[2] = "arp" /\ Order[3] = "lease"
  /\ \A i \in 1..3 : Order[i] \in Queries
BY DEF Order, Queries, Texts

LEMMA Empty == <<>> \in Seq(Commands) /\ <<>> \in Seq(Texts)
OBVIOUS

LEMMA Waits ==
  ASSUME NEW at \in {"start", "login", "again", "print", "over"}, NEW i \in 1..3
  PROVE  Waiting(at, i) \in Caller
BY Empty DEF Waiting, Caller

LEMMA TypesInit == RouterApiInit => ApiTypes
<1> SUFFICES ASSUME RouterApiInit PROVE ApiTypes
  OBVIOUS
<1>1. caller \in Caller
  BY Waits DEF RouterApiInit
<1>2. lists \in [Queries -> Seq(Texts)] /\ rowsSent \in [Queries -> 0..MaxRows]
  BY RouterApiAssumption DEF RouterApiInit
<1> QED
  BY <1>1, <1>2, Empty DEF RouterApiInit, ApiTypes

LEMMA WrittenTypes ==
  ASSUME ApiTypes, NEW c \in Commands, Written(c)
  PROVE  orders' \in Seq(Commands)
BY DEF ApiTypes, Written

LEMMA OverTypes == ApiTypes => Over \in Caller
BY Empty DEF ApiTypes, Over, Caller

LEMMA QueryEndsTypes ==
  ASSUME ApiTypes, NEW rows \in Seq(Texts), NEW cut \in BOOLEAN,
         NEW fromPart \in {"length", "lost"}, QueryEnds(rows, cut, fromPart)
  PROVE  /\ orders' \in Seq(Commands) /\ caller' \in Caller
         /\ lists' \in [Queries -> Seq(Texts)] /\ upset' \in BOOLEAN
<1>1. caller.query \in 1..3
  BY DEF ApiTypes, Caller
<1>2. lists' \in [Queries -> Seq(Texts)] /\ upset' \in BOOLEAN
  BY <1>1, Turns DEF QueryEnds, ApiTypes
<1>3. CASE caller.query = Len(Order)
  BY <1>2, <1>3, OverTypes DEF QueryEnds, ApiTypes
<1>4. CASE caller.query # Len(Order)
  <2>1. caller.query + 1 \in 1..3
    BY <1>1, <1>4, Turns
  <2>2. Order[caller.query + 1] \in Commands
    BY <2>1, Turns DEF Commands
  <2>3. orders' \in Seq(Commands)
    BY <1>4, <2>2, WrittenTypes DEF QueryEnds
  <2>4. caller' \in Caller
    <3>1. Waiting("print", caller.query + 1) \in Caller
      BY <2>1, Waits
    <3>2. caller' = [Waiting("print", caller.query + 1) EXCEPT !.part = fromPart]
      BY <1>4 DEF QueryEnds
    <3> QED
      BY <3>1, <3>2 DEF Caller
  <2> QED
    BY <1>2, <2>3, <2>4
<1> QED
  BY <1>3, <1>4

LEMMA SentenceTypes ==
  ASSUME ApiTypes, NEW words \in Seq(Texts), Sentence(words)
  PROVE  /\ orders' \in Seq(Commands) /\ caller' \in Caller
         /\ lists' \in [Queries -> Seq(Texts)] /\ upset' \in BOOLEAN
<1>1. CASE SentenceOfLogin(words)
  <2>1. lists' \in [Queries -> Seq(Texts)] /\ upset' \in BOOLEAN
    BY <1>1 DEF SentenceOfLogin, ApiTypes
  <2>2. Order[1] \in Commands /\ "again" \in Commands
    BY Turns DEF Commands
  <2>3. CASE caller' = Waiting("print", 1) /\ Written(Order[1])
    BY <2>1, <2>2, <2>3, Waits, WrittenTypes
  <2>4. CASE caller' = Waiting("again", 1) /\ Written("again")
    BY <2>1, <2>2, <2>4, Waits, WrittenTypes
  <2>5. CASE caller' = Over /\ UNCHANGED orders
    BY <2>1, <2>5, OverTypes DEF ApiTypes
  <2> QED
    BY <1>1, <2>3, <2>4, <2>5 DEF SentenceOfLogin
<1>2. CASE SentenceOfPrint(words)
  <2> DEFINE tag == IF words = <<>> THEN "" ELSE words[1]
             rows == lists[Order[caller.query]]
             more == IF tag = "!re" THEN Append(rows, IF Len(words) = 2 THEN words[2] ELSE "?")
                     ELSE rows
  <2>1. caller.query \in 1..3 /\ rows \in Seq(Texts)
    BY Turns DEF ApiTypes, Caller
  <2>2. more \in Seq(Texts)
    <3>1. "?" \in Texts
      BY DEF Texts
    <3>2. (IF Len(words) = 2 THEN words[2] ELSE "?") \in Texts
      BY <3>1
    <3> QED
      BY <2>1, <3>2
  <2>3. <<>> \in Seq(Texts)
    OBVIOUS
  <2> HIDE DEF tag, rows, more
  <2>4. CASE QueryEnds(<<>>, TRUE, "length")
    BY <2>3, <2>4, QueryEndsTypes
  <2>5. CASE QueryEnds(rows, FALSE, "length")
    BY <2>1, <2>5, QueryEndsTypes
  <2>6. CASE QueryEnds(more, TRUE, "length")
    BY <2>2, <2>6, QueryEndsTypes
  <2>7. CASE /\ caller' = [caller EXCEPT !.count = @ + 1, !.words = <<>>, !.part = "length"]
             /\ lists' = [lists EXCEPT ![Order[caller.query]] = more]
             /\ UNCHANGED <<orders, upset>>
    <3>1. caller' \in Caller
      <4>1. caller \in Caller /\ caller.count + 1 \in Nat
        BY DEF ApiTypes, Caller
      <4>2. caller' = [caller EXCEPT !.count = @ + 1, !.words = <<>>, !.part = "length"]
        BY <2>7
      <4> QED
        BY <4>1, <4>2, Empty DEF Caller
    <3>2. lists' \in [Queries -> Seq(Texts)]
      BY <2>2, <2>7 DEF ApiTypes
    <3> QED
      BY <2>7, <3>1, <3>2 DEF ApiTypes
  <2> QED
    BY <1>2, <2>4, <2>5, <2>6, <2>7 DEF SentenceOfPrint, tag, rows, more
<1> QED
  BY <1>1, <1>2 DEF Sentence

LEMMA ApiTypesStep == ApiTypes /\ [RouterApiNext]_routerApiVars => ApiTypes'
<1> SUFFICES ASSUME ApiTypes, [RouterApiNext]_routerApiVars PROVE ApiTypes'
  OBVIOUS
<1> USE DEF ApiTypes
<1>1. CASE Connect
  <2>1. CASE link' = "open" /\ orders' = <<"login">> /\ caller' = Waiting("login", 1)
    <3>1. "login" \in Commands
      BY DEF Commands
    <3>2. orders' \in Seq(Commands)
      BY <2>1, <3>1
    <3> QED
      BY <1>1, <2>1, <3>2, Waits DEF Connect
  <2>2. CASE caller' = [caller EXCEPT !.at = "over"] /\ UNCHANGED <<link, orders>>
    BY <1>1, <2>2 DEF Connect, Caller
  <2> QED
    BY <1>1, <2>1, <2>2 DEF Connect
<1>2. CASE ReplyDone
  <2>1. wire' \in Seq(Texts)
    BY <1>2, TagFrame, Joined DEF ReplyDone, Replied, Ends, Replies
  <2> QED
    <3>1. Tail(orders) \in Seq(Commands)
      BY <1>2 DEF ReplyDone
    <3> QED
      BY <1>2, <2>1, <3>1 DEF ReplyDone
<1>3. CASE ReplyTrap
  <2>1. wire' \in Seq(Texts)
    BY <1>3, TagFrame, Joined DEF ReplyTrap, Replied, Ends, Replies
  <2> QED
    BY <1>3, <2>1 DEF ReplyTrap
<1>4. CASE ReplyChallenge
  <2>1. wire' \in Seq(Texts)
    BY <1>4, RowFrame, Joined DEF ReplyChallenge, Replied, Texts
  <2> QED
    <3>1. Tail(orders) \in Seq(Commands)
      BY <1>4 DEF ReplyChallenge
    <3> QED
      BY <1>4, <2>1, <3>1 DEF ReplyChallenge
<1>5. CASE ReplyRow
  <2>1. wire' \in Seq(Texts)
    BY <1>5, RowFrame, Joined, Turns DEF ReplyRow, Replied
  <2>2. rowsSent' \in [Queries -> 0..MaxRows]
    BY <1>5, RouterApiAssumption DEF ReplyRow
  <2> QED
    BY <1>5, <2>1, <2>2 DEF ReplyRow
<1>6. CASE Hangup
  <2>1. wire' \in Seq(Texts)
    <3>1. Framed("!fatal") \in Seq(Texts)
      BY TagFrame DEF Ends, Replies
    <3>2. wire \o Framed("!fatal") \in Seq(Texts)
      BY <3>1, Joined
    <3> QED
      BY <1>6, <3>2 DEF Hangup
  <2> QED
    BY <1>6, <2>1, Empty DEF Hangup
<1>7. CASE ReadWord
  <2>1. wire' \in Seq(Texts) /\ wire[1] \in Texts
    BY <1>7 DEF ReadWord
  <2>2. caller.words \in Seq(Texts)
    BY DEF Caller
  <2>3. CASE Sentence(caller.words)
    BY <1>7, <2>1, <2>2, <2>3, SentenceTypes DEF ReadWord
  <2>4. CASE /\ \/ caller' = [caller EXCEPT !.words = Append(@, wire[1]), !.part = "length"]
                \/ caller' = [caller EXCEPT !.part = "text"]
                \/ caller' = [caller EXCEPT !.part = "lost"]
             /\ UNCHANGED <<orders, lists, upset>>
    <3>1. Append(caller.words, wire[1]) \in Seq(Texts)
      BY <2>1, <2>2
    <3>2. caller' \in Caller
      BY <2>4, <3>1 DEF Caller
    <3> QED
      BY <1>7, <2>1, <2>4, <3>2 DEF ReadWord
  <2> QED
    BY <1>7, <2>3, <2>4 DEF ReadWord
<1>8. CASE ReadLost
  <2>1. wire' \in Seq(Texts)
    BY <1>8 DEF ReadLost
  <2>2. CASE UNCHANGED <<orders, lists, upset, caller>>
    BY <1>8, <2>1, <2>2 DEF ReadLost
  <2>3. CASE \E words \in {<<>>, <<"junk">>, <<"!done">>} : Sentence(words)
    <3>1. PICK words \in {<<>>, <<"junk">>, <<"!done">>} : Sentence(words)
      BY <2>3
    <3>2. "junk" \in Texts /\ "!done" \in Texts
      BY DEF Texts, Replies
    <3>3. words \in Seq(Texts)
      <4>1. <<"junk">> \in Seq(Texts) /\ <<"!done">> \in Seq(Texts)
        BY <3>2
      <4> QED
        BY <3>1, <4>1, Empty
    <3> QED
      BY <1>8, <2>1, <3>1, <3>3, SentenceTypes DEF ReadLost
  <2> QED
    BY <1>8, <2>2, <2>3 DEF ReadLost
<1>9. CASE WaitEnds
  <2>1. <<>> \in Seq(Texts)
    OBVIOUS
  <2>2. CASE QueryEnds(<<>>, TRUE, IF caller.part = "length" THEN "length" ELSE "lost")
    <3>1. (IF caller.part = "length" THEN "length" ELSE "lost") \in {"length", "lost"}
      OBVIOUS
    <3> QED
      BY <1>9, <2>1, <2>2, <3>1, QueryEndsTypes DEF WaitEnds
  <2>3. CASE caller' = Over /\ UNCHANGED <<orders, lists, upset>>
    BY <1>9, <2>3, OverTypes DEF WaitEnds
  <2> QED
    BY <1>9, <2>2, <2>3 DEF WaitEnds
<1>10. CASE SocketIdles
  BY <1>10, Empty DEF SocketIdles
<1>11. CASE UNCHANGED routerApiVars
  BY <1>11 DEF routerApiVars
<1> QED
  BY <1>1, <1>2, <1>3, <1>4, <1>5, <1>6, <1>7, <1>8, <1>9, <1>10, <1>11 DEF RouterApiNext

-----------------------------------------------------------------------------
(* The words of the sentence that the caller is in the middle of.               *)
Consumed == 2 * Len(caller.words) + (IF caller.part = "text" THEN 1 ELSE 0)
Begun(x, n, ts) ==
    /\ caller.part \in {"length", "text"}
    /\ Consumed <= (IF n > 0 THEN 4 ELSE IF ts # <<>> THEN 2 ELSE 0)
    /\ Len(caller.words) >= 1 => caller.words[1] = IF n > 0 THEN "!re" ELSE ts[1]
    /\ Len(caller.words) = 2 => caller.words[2] = x

(* One command at a time is under way, and this is what the router has said to  *)
(* it so far; a link that is shut adds nothing.                                 *)
Command == IF caller.at = "print" THEN Order[caller.query] ELSE caller.at
RowName == IF caller.at = "print" THEN Order[caller.query] ELSE "ret"
Fits(n, ts) ==
    /\ caller.at = "login" => n \in {0, 1}
    /\ caller.at = "again" => n = 0
    /\ caller.at = "print" => n + Len(lists[RowName]) = rowsSent[RowName]
    /\ \/ /\ link = "open" /\ orders = <<Command>> /\ (caller.at = "login" => n = 0)
          /\ ts = IF trapped THEN <<"!trap">> ELSE <<>>
       \/ /\ link = "open" /\ orders = <<>> /\ ~trapped /\ (caller.at = "login" => n = 0)
          /\ ts \in {<<"!done">>, <<"!trap", "!done">>}
       \/ /\ link = "open" /\ orders = <<>> /\ ~trapped /\ caller.at = "login"
          /\ n = 1 /\ ts = <<>>
       \/ link = "shut" /\ orders = <<>>
Cut == link = "shut" /\ orders = <<>> /\ wire = <<>>
Pending ==
    \E n \in Nat, ts \in Seq(Ends) :
        On(wire, RowName, n, ts, Consumed) /\ Begun(RowName, n, ts) /\ Fits(n, ts)

Fresh == \A q \in Queries : lists[q] = <<>> /\ rowsSent[q] = 0
InTurn ==
    \A i \in 1..3 :
        /\ i < caller.query => Len(lists[Order[i]]) = rowsSent[Order[i]]
        /\ i > caller.query => lists[Order[i]] = <<>> /\ rowsSent[Order[i]] = 0
Turn ==
    /\ caller.at \in {"login", "again"} => caller.query = 1 /\ Fresh
    /\ caller.at = "print" => InTurn
Ended ==
    \/ caller.query = 1 /\ \A q \in Queries : lists[q] = <<>>
    \/ caller.query = 3 /\ orders = <<>> /\ \A q \in Queries : Len(lists[q]) = rowsSent[q]

(* Until a query goes wrong, the rows and replies on the wire answer the command *)
(* under way, after as many rows as the router sent for it are those in its list *)
(* and those on the wire; the lists before it are complete, those after it empty. *)
SessionInv ==
    /\ \A q \in Queries : lists[q] \in Seq({q})
    /\ caller.at = "start" =>
          caller.query = 1 /\ link = "closed" /\ orders = <<>> /\ wire = <<>> /\ ~trapped /\ Fresh
    /\ Reads => Turn /\ (Cut \/ Pending)
    /\ caller.at = "over" => Ended
AnswersInv == ~upset => SessionInv

(* A step of the router, which changes neither the caller nor the lists.        *)
LEMMA RouterKeeps ==
  ASSUME ApiTypes, SessionInv, Reads, Cut' \/ Pending',
         UNCHANGED <<caller, lists, rowsSent>>
  PROVE  SessionInv'
<1>1. Reads' /\ Turn'
  BY DEF SessionInv, Reads, Turn, Fresh, InTurn
<1>2. caller'.at \notin {"start", "over"}
  BY DEF Reads
<1> QED
  BY <1>1, <1>2 DEF SessionInv

LEMMA OverKeeps ==
  ASSUME SessionInv, caller.at = "over", orders = <<>> => orders' = <<>>,
         UNCHANGED <<caller, lists>>,
         caller.query = 3 => UNCHANGED rowsSent
  PROVE  SessionInv'
<1>1. Ended'
  BY DEF SessionInv, Ended
<1>2. ~Reads'
  BY DEF Reads
<1> QED
  BY <1>1, <1>2 DEF SessionInv

(* Who is at work when the router has something to answer.                      *)
LEMMA Answering ==
  ASSUME ApiTypes, SessionInv, link = "open"
  PROVE  \/ Reads /\ Turn /\ Pending
         \/ caller.at = "over" /\ (orders # <<>> => caller.query = 1)
BY DEF ApiTypes, Caller, SessionInv, Reads, Cut, Ended

LEMMA ConsumedIs ==
  ASSUME ApiTypes
  PROVE  /\ Consumed \in Nat /\ RowName \in Texts
         /\ caller.at = "print" => RowName \in Queries /\ RowName = Order[caller.query]
         /\ caller.query \in 1..3
<1>1. caller.words \in Seq(Texts) /\ caller.query \in 1..3
  BY DEF ApiTypes, Caller
<1>2. Consumed \in Nat
  <2>1. Len(caller.words) \in Nat
    BY <1>1
  <2>2. CASE caller.part = "text"
    BY <2>1, <2>2 DEF Consumed
  <2>3. CASE caller.part # "text"
    BY <2>1, <2>3 DEF Consumed
  <2> QED
    BY <2>2, <2>3
<1>3. RowName \in Texts /\ (caller.at = "print" => RowName \in Queries /\ RowName = Order[caller.query])
  BY <1>1, Turns DEF RowName, Texts
<1> QED
  BY <1>1, <1>2, <1>3

(* The replies that can be under way while the router has a command.            *)
LEMMA Replying ==
  ASSUME NEW t \in {"!done", "!trap", "!fatal"}
  PROVE  t \in Ends
BY DEF Ends, Replies

LEMMA TagPending ==
  ASSUME ApiTypes, NEW n \in Nat, NEW ts \in Seq(Ends), NEW t \in Ends,
         On(wire, RowName, n, ts, Consumed), Begun(RowName, n, ts),
         wire' = wire \o Framed(t), UNCHANGED <<caller, lists, rowsSent>>,
         Fits(n, Append(ts, t))'
  PROVE  Pending'
<1> DEFINE us == Append(ts, t)
<1>1. us \in Seq(Ends) /\ us # <<>> /\ Len(ts) \in Nat /\ (ts # <<>> => us[1] = ts[1] /\ Len(ts) >= 1)
  OBVIOUS
<1>2. Consumed <= 5 * n + 3 * Len(ts)
  BY <1>1, ConsumedIs DEF Begun
<1>3. wire \in Seq(Texts)
  BY DEF ApiTypes
<1>4. On(wire \o Framed(t), RowName, n, us, Consumed)
  BY <1>2, <1>3, ConsumedIs, TagSent
<1>5. RowName' = RowName /\ Consumed' = Consumed
  BY DEF RowName, Consumed
<1> HIDE DEF us
<1>6. Begun(RowName, n, us)'
  <2>1. CASE n > 0
    BY <1>5, <2>1 DEF Begun
  <2>2. CASE n = 0 /\ ts # <<>>
    BY <1>1, <1>5, <2>2 DEF Begun
  <2>3. CASE n = 0 /\ ts = <<>>
    <3>1. Consumed <= 0 /\ caller.part \in {"length", "text"}
      BY <2>3 DEF Begun
    <3>2. caller.words \in Seq(Texts) /\ Len(caller.words) \in Nat
      BY DEF ApiTypes, Caller
    <3>3. Len(caller.words) = 0
      <4>1. CASE caller.part = "text"
        BY <3>1, <3>2, <4>1 DEF Consumed
      <4>2. CASE caller.part = "length"
        BY <3>1, <3>2, <4>2 DEF Consumed
      <4> QED
        BY <3>1, <4>1, <4>2
    <3>4. Consumed' <= 0
      BY <1>5, <3>1
    <3> QED
      BY <1>1, <2>3, <3>1, <3>3, <3>4, ConsumedIs, <1>5 DEF Begun
  <2> QED
    BY <2>1, <2>2, <2>3
<1>7. On(wire', RowName', n, us, Consumed')
  BY <1>4, <1>5
<1>8. Fits(n, us)'
  BY DEF us
<1> QED
  BY <1>1, <1>6, <1>7, <1>8 DEF Pending

(* The router's steps.                                                         *)
LEMMA ConnectAnswers ==
  ASSUME ApiTypes, SessionInv, Connect
  PROVE  SessionInv'
<1>1. caller.at = "start" /\ caller.query = 1 /\ wire = <<>> /\ ~trapped /\ Fresh
  BY DEF Connect, SessionInv
<1>2. UNCHANGED <<trapped, wire, lists, rowsSent, upset>>
  BY DEF Connect
<1>3. \A q \in Queries : lists'[q] \in Seq({q})
  BY <1>2 DEF SessionInv
<1>4. CASE link' = "open" /\ orders' = <<"login">> /\ caller' = Waiting("login", 1)
  <2>1. /\ caller'.at = "login" /\ caller'.query = 1 /\ caller'.words = <<>>
        /\ caller'.part = "length"
    BY <1>4 DEF Waiting
  <2>2. Consumed' = 0 /\ RowName' = "ret" /\ Command' = "login"
    BY <2>1 DEF Consumed, RowName, Command
  <2>3. On(wire', RowName', 0, <<>>, Consumed')
    BY <1>1, <1>2, <2>2, Empty, NothingOn DEF Texts
  <2>4. Begun(RowName, 0, <<>>)'
    BY <2>1, <2>2 DEF Begun
  <2>5. Fits(0, <<>>)'
    BY <1>1, <1>2, <1>4, <2>1, <2>2 DEF Fits
  <2>6. Pending'
    <3>1. <<>> \in Seq(Ends) /\ 0 \in Nat
      OBVIOUS
    <3> QED
      BY <2>3, <2>4, <2>5, <3>1 DEF Pending
  <2>7. Turn'
    BY <1>1, <1>2, <2>1 DEF Turn, Fresh
  <2> QED
    BY <1>3, <2>1, <2>6, <2>7 DEF SessionInv
<1>5. CASE caller' = [caller EXCEPT !.at = "over"]
  <2>1. caller'.at = "over" /\ caller'.query = 1
    BY <1>1, <1>5 DEF ApiTypes, Caller
  <2>2. Ended'
    BY <1>1, <1>2, <2>1 DEF Ended, Fresh
  <2> QED
    BY <1>3, <2>1, <2>2 DEF SessionInv, Reads
<1> QED
  BY <1>4, <1>5 DEF Connect

LEMMA DoneAnswers ==
  ASSUME ApiTypes, SessionInv, ReplyDone
  PROVE  SessionInv'
<1>1. link = "open" /\ orders # <<>> /\ orders' = Tail(orders) /\ ~trapped'
      /\ wire' = wire \o Framed("!done") /\ UNCHANGED <<link, caller, lists, rowsSent, upset>>
  BY DEF ReplyDone, Replied, ApiTypes
<1>2. CASE Reads /\ Turn /\ Pending
  <2>1. PICK n \in Nat, ts \in Seq(Ends) :
           On(wire, RowName, n, ts, Consumed) /\ Begun(RowName, n, ts) /\ Fits(n, ts)
    BY <1>2 DEF Pending
  <2>2. orders = <<Command>> /\ (caller.at = "login" => n = 0) /\ ts \in {<<"!trap">>, <<>>}
    BY <1>1, <2>1 DEF Fits
  <2>3. orders' = <<>> /\ Append(ts, "!done") \in {<<"!done">>, <<"!trap", "!done">>}
    <3>1. Tail(<<Command>>) = <<>>
      OBVIOUS
    <3>2. Append(<<>>, "!done") = <<"!done">>
      OBVIOUS
    <3>3. Append(<<"!trap">>, "!done") = <<"!trap", "!done">>
      <4> DEFINE v == Append(<<"!trap">>, "!done")
      <4>1. v \in Seq({"!trap", "!done"}) /\ Len(v) = 2 /\ v[1] = "!trap" /\ v[2] = "!done"
        OBVIOUS
      <4> HIDE DEF v
      <4>2. v = <<"!trap", "!done">>
        BY <4>1
      <4> QED
        BY <4>2 DEF v
    <3> QED
      BY <1>1, <2>2, <3>1, <3>2, <3>3
  <2>4. Fits(n, Append(ts, "!done"))'
    BY <1>1, <2>1, <2>2, <2>3 DEF Fits, RowName
  <2>5. Pending'
    BY <1>1, <2>1, <2>4, TagPending, Replying
  <2> QED
    BY <1>1, <1>2, <2>5, RouterKeeps
<1>3. CASE caller.at = "over" /\ (orders # <<>> => caller.query = 1)
  BY <1>1, <1>3, OverKeeps
<1> QED
  BY <1>1, <1>2, <1>3, Answering

LEMMA TrapAnswers ==
  ASSUME ApiTypes, SessionInv, ReplyTrap
  PROVE  SessionInv'
<1>1. link = "open" /\ orders # <<>> /\ ~trapped /\ trapped'
      /\ wire' = wire \o Framed("!trap") /\ UNCHANGED <<link, orders, caller, lists, rowsSent, upset>>
  BY DEF ReplyTrap, Replied, ApiTypes
<1>2. CASE Reads /\ Turn /\ Pending
  <2>1. PICK n \in Nat, ts \in Seq(Ends) :
           On(wire, RowName, n, ts, Consumed) /\ Begun(RowName, n, ts) /\ Fits(n, ts)
    BY <1>2 DEF Pending
  <2>2. orders = <<Command>> /\ (caller.at = "login" => n = 0) /\ ts = <<>>
    BY <1>1, <2>1 DEF Fits
  <2>3. Append(ts, "!trap") = <<"!trap">>
    BY <2>2
  <2>4. Fits(n, Append(ts, "!trap"))'
    BY <1>1, <2>1, <2>2, <2>3 DEF Fits, RowName, Command
  <2>5. Pending'
    BY <1>1, <2>1, <2>4, TagPending, Replying
  <2> QED
    BY <1>1, <1>2, <2>5, RouterKeeps
<1>3. CASE caller.at = "over" /\ (orders # <<>> => caller.query = 1)
  BY <1>1, <1>3, OverKeeps
<1> QED
  BY <1>1, <1>2, <1>3, Answering

LEMMA HangupAnswers ==
  ASSUME ApiTypes, SessionInv, Hangup
  PROVE  SessionInv'
<1>1. link = "open" /\ link' = "shut" /\ orders' = <<>>
      /\ wire' \in {wire, wire \o Framed("!fatal")} /\ UNCHANGED <<caller, lists, rowsSent, upset>>
  BY DEF Hangup
<1>2. CASE Reads /\ Turn /\ Pending
  <2>1. PICK n \in Nat, ts \in Seq(Ends) :
           On(wire, RowName, n, ts, Consumed) /\ Begun(RowName, n, ts) /\ Fits(n, ts)
    BY <1>2 DEF Pending
  <2>2. ASSUME NEW us \in Seq(Ends) PROVE Fits(n, us)'
    BY <1>1, <2>1 DEF Fits, RowName
  <2>3. CASE wire' = wire
    <3>1. Begun(RowName, n, ts)' /\ On(wire', RowName', n, ts, Consumed')
      BY <1>1, <2>1, <2>3 DEF Begun, RowName, Consumed
    <3>2. Pending'
      BY <2>2, <3>1 DEF Pending
    <3> QED
      BY <1>1, <1>2, <3>2, RouterKeeps
  <2>4. CASE wire' = wire \o Framed("!fatal")
    <3>1. "!fatal" \in Ends /\ Append(ts, "!fatal") \in Seq(Ends)
      BY Replying
    <3>2. Pending'
      BY <1>1, <2>1, <2>2, <2>4, <3>1, TagPending
    <3> QED
      BY <1>1, <1>2, <3>2, RouterKeeps
  <2> QED
    BY <1>1, <2>3, <2>4
<1>3. CASE caller.at = "over"
  BY <1>1, <1>3, OverKeeps
<1> QED
  BY <1>1, <1>2, <1>3, Answering

LEMMA ChallengeAnswers ==
  ASSUME ApiTypes, SessionInv, ReplyChallenge
  PROVE  SessionInv'
<1>1. link = "open" /\ orders # <<>> /\ ~trapped /\ orders[1] = "login" /\ orders' = Tail(orders)
      /\ wire' = wire \o FramedRow("ret") /\ UNCHANGED <<link, trapped, caller, lists, rowsSent, upset>>
  BY DEF ReplyChallenge, Replied, ApiTypes
<1>2. CASE Reads /\ Turn /\ Pending
  <2>1. PICK n \in Nat, ts \in Seq(Ends) :
           On(wire, RowName, n, ts, Consumed) /\ Begun(RowName, n, ts) /\ Fits(n, ts)
    BY <1>2 DEF Pending
  <2>2. orders = <<Command>> /\ (caller.at = "login" => n = 0) /\ ts = <<>>
    BY <1>1, <2>1 DEF Fits
  <2>3. caller.at = "login" /\ n = 0 /\ orders' = <<>> /\ RowName = "ret"
    BY <1>1, <1>2, <2>2, ConsumedIs, Turns DEF Command, Reads, RowName
  <2>4. Fits(1, <<>>)'
    BY <1>1, <2>3 DEF Fits
  <2>5. Consumed <= 0 /\ caller.part \in {"length", "text"}
    BY <2>1, <2>2, <2>3 DEF Begun
  <2>6. wire \in Seq(Texts) /\ "ret" \in Texts
    BY DEF ApiTypes, Texts
  <2>7. On(wire \o FramedRow("ret"), "ret", 0 + 1, <<>>, Consumed)
    BY <2>1, <2>2, <2>3, <2>5, <2>6, ConsumedIs, RowSent
  <2>8. Len(caller.words) = 0
    <3>1. Len(caller.words) \in Nat
      BY DEF ApiTypes, Caller
    <3>2. CASE caller.part = "text"
      BY <2>5, <3>1, <3>2 DEF Consumed
    <3>3. CASE caller.part = "length"
      BY <2>5, <3>1, <3>3 DEF Consumed
    <3> QED
      BY <2>5, <3>2, <3>3
  <2>9. RowName' = RowName /\ Consumed' = Consumed /\ 0 + 1 = 1
    BY <1>1 DEF RowName, Consumed
  <2>10. Begun(RowName, 1, <<>>)'
    BY <1>1, <2>5, <2>8, <2>9, ConsumedIs DEF Begun
  <2>11. On(wire', RowName', 1, <<>>, Consumed')
    BY <1>1, <2>3, <2>7, <2>9
  <2>12. <<>> \in Seq(Ends) /\ 1 \in Nat
    OBVIOUS
  <2>13. Pending'
    BY <2>4, <2>10, <2>11, <2>12 DEF Pending
  <2> QED
    BY <1>1, <1>2, <2>13, RouterKeeps
<1>3. CASE caller.at = "over" /\ (orders # <<>> => caller.query = 1)
  BY <1>1, <1>3, OverKeeps
<1> QED
  BY <1>1, <1>2, <1>3, Answering

LEMMA RowAnswers ==
  ASSUME ApiTypes, SessionInv, ReplyRow
  PROVE  SessionInv'
<1> DEFINE q == orders[1]
<1>1. link = "open" /\ orders # <<>> /\ ~trapped /\ q \in Queries
      /\ rowsSent' = [rowsSent EXCEPT ![q] = @ + 1]
      /\ wire' = wire \o FramedRow(q) /\ UNCHANGED <<link, orders, trapped, caller, lists, upset>>
  BY DEF ReplyRow, Replied, ApiTypes
<1> HIDE DEF q
<1>2. CASE Reads /\ Turn /\ Pending
  <2>1. PICK n \in Nat, ts \in Seq(Ends) :
           On(wire, RowName, n, ts, Consumed) /\ Begun(RowName, n, ts) /\ Fits(n, ts)
    BY <1>2 DEF Pending
  <2>2. orders = <<Command>> /\ ts = <<>>
    BY <1>1, <2>1 DEF Fits
  <2>3. caller.at = "print" /\ q = Order[caller.query] /\ RowName = q
    BY <1>1, <1>2, <2>2, ConsumedIs DEF Command, Reads, Queries, q
  <2>4. rowsSent[q] \in Nat /\ rowsSent'[q] = rowsSent[q] + 1 /\ q \in Texts
        /\ Len(lists[q]) \in Nat
    BY <1>1, RouterApiAssumption, Turns DEF ApiTypes
  <2>5. RowName' = RowName /\ Consumed' = Consumed
    BY <1>1 DEF RowName, Consumed
  <2>6. Fits(n + 1, <<>>)'
    <3>1. (n + 1) + Len(lists'[RowName']) = rowsSent'[RowName']
      <4>1. n + Len(lists[q]) = rowsSent[q]
        BY <2>1, <2>3 DEF Fits
      <4>2. lists'[RowName'] = lists[q] /\ rowsSent'[RowName'] = rowsSent[q] + 1
        BY <1>1, <2>3, <2>4, <2>5
      <4>3. (n + 1) + Len(lists[q]) = rowsSent[q] + 1
        <5>1. \A a, b, c \in Nat : a + b = c => (a + 1) + b = c + 1
          OBVIOUS
        <5>2. n \in Nat /\ Len(lists[q]) \in Nat /\ rowsSent[q] \in Nat
          BY <2>4
        <5> QED
          BY <4>1, <5>1, <5>2
      <4> QED
        BY <4>2, <4>3
    <3>2. caller'.at = "print" /\ link' = "open" /\ orders' = <<Command'>> /\ ~trapped'
      BY <1>1, <2>2, <2>3 DEF Command
    <3> QED
      BY <3>1, <3>2 DEF Fits
  <2>7. Consumed <= 5 * n
    BY <2>1, <2>2, ConsumedIs DEF Begun
  <2>8. wire \in Seq(Texts)
    BY DEF ApiTypes
  <2>9. On(wire \o FramedRow(q), q, n + 1, <<>>, Consumed)
    BY <2>1, <2>2, <2>3, <2>4, <2>7, <2>8, ConsumedIs, RowSent
  <2>10. Begun(RowName, n + 1, <<>>)'
    <3>1. caller.part \in {"length", "text"} /\ Consumed <= 4
      BY <2>1, <2>2, ConsumedIs DEF Begun
    <3>2. Len(caller.words) >= 1 => caller.words[1] = "!re"
      <4>1. CASE n > 0
        BY <2>1, <4>1 DEF Begun
      <4>2. CASE n = 0
        <5>1. Consumed <= 0 /\ Len(caller.words) \in Nat
          BY <2>1, <2>2, <4>2 DEF Begun, ApiTypes, Caller
        <5>2. CASE caller.part = "text"
          BY <5>1, <5>2 DEF Consumed
        <5>3. CASE caller.part = "length"
          BY <5>1, <5>3 DEF Consumed
        <5> QED
          BY <3>1, <5>2, <5>3
      <4> QED
        BY <4>1, <4>2
    <3>3. Len(caller.words) = 2 => caller.words[2] = RowName
      BY <2>1 DEF Begun
    <3> QED
      BY <1>1, <2>5, <3>1, <3>2, <3>3 DEF Begun
  <2>11. Pending'
    <3>1. <<>> \in Seq(Ends) /\ n + 1 \in Nat
      OBVIOUS
    <3>2. On(wire', RowName', n + 1, <<>>, Consumed')
      BY <1>1, <2>3, <2>5, <2>9
    <3> QED
      BY <2>6, <2>10, <3>1, <3>2 DEF Pending
  <2>12. Turn'
    <3>1. ASSUME NEW i \in 1..3, i # caller.query
          PROVE  rowsSent'[Order[i]] = rowsSent[Order[i]]
      BY <1>1, <2>3, <3>1, ConsumedIs, Turns DEF ApiTypes
    <3> QED
      BY <1>1, <1>2, <2>3, <3>1, ConsumedIs DEF Turn, InTurn
  <2>13. caller'.at = "print" /\ \A p \in Queries : lists'[p] \in Seq({p})
    BY <1>1, <2>3 DEF SessionInv
  <2> QED
    BY <2>11, <2>12, <2>13 DEF SessionInv
<1>3. CASE caller.at = "over" /\ (orders # <<>> => caller.query = 1)
  BY <1>1, <1>3, OverKeeps
<1> QED
  BY <1>1, <1>2, <1>3, Answering

(* The caller's steps.  What is read while a sentence goes on.                  *)
LEMMA PartRead ==
  ASSUME ApiTypes, NEW n \in Nat, NEW ts \in Seq(Ends), Reads, wire # <<>>,
         On(wire, RowName, n, ts, Consumed), Begun(RowName, n, ts)
  PROVE  /\ Consumed <= 4 /\ (n = 0 => Consumed <= 2 /\ ts # <<>>)
         /\ n > 0 => wire[1] = FramedRow(RowName)[Consumed + 1]
         /\ n = 0 => wire[1] = Framed(ts[1])[Consumed + 1]
         /\ wire[1] \in Texts /\ Tail(wire) \in Seq(Texts)
         /\ On(Tail(wire), RowName, n, ts, Consumed + 1)
         /\ Len(caller.words) \in {0, 1, 2}
         /\ caller.part = "text" => Consumed = 2 * Len(caller.words) + 1 /\ Len(caller.words) < 2
         /\ caller.part = "length" => Consumed = 2 * Len(caller.words)
<1>1. wire \in Seq(Texts) /\ Len(caller.words) \in Nat /\ caller.part \in {"length", "text"}
  BY DEF ApiTypes, Caller, Begun
<1>2. n > 0 \/ ts # <<>>
  BY <1>1, ConsumedIs, WordAtFront
<1>3. Consumed <= 4 /\ (n = 0 => Consumed <= 2 /\ ts # <<>>)
  BY <1>2, ConsumedIs DEF Begun
<1>4. /\ n > 0 => wire[1] = FramedRow(RowName)[Consumed + 1]
      /\ n = 0 => wire[1] = Framed(ts[1])[Consumed + 1]
  BY <1>1, <1>2, <1>3, ConsumedIs, WordAtFront
<1>5. wire[1] \in Texts /\ Tail(wire) \in Seq(Texts) /\ On(Tail(wire), RowName, n, ts, Consumed + 1)
  BY <1>1, ConsumedIs, WordRead
<1>6. /\ caller.part = "text" => Consumed = 2 * Len(caller.words) + 1
      /\ caller.part = "length" => Consumed = 2 * Len(caller.words)
  <2>1. CASE caller.part = "text"
    BY <1>1, <2>1 DEF Consumed
  <2>2. CASE caller.part = "length"
    BY <1>1, <2>2 DEF Consumed
  <2> QED
    BY <1>1, <2>1, <2>2
<1>7. Len(caller.words) \in {0, 1, 2} /\ (caller.part = "text" => Len(caller.words) < 2)
  <2>1. \A a \in Nat : 2 * a <= 4 => a \in {0, 1, 2}
    OBVIOUS
  <2>2. \A a \in Nat : 2 * a + 1 <= 4 => a \in {0, 1}
    OBVIOUS
  <2>3. CASE caller.part = "text"
    <3>1. 2 * Len(caller.words) + 1 <= 4
      BY <1>3, <1>6, <2>3
    <3>2. Len(caller.words) \in {0, 1}
      BY <1>1, <2>2, <3>1
    <3>3. \A a \in {0, 1} : a \in {0, 1, 2} /\ a < 2
      OBVIOUS
    <3> QED
      BY <3>2, <3>3
  <2>4. CASE caller.part = "length"
    <3>1. 2 * Len(caller.words) <= 4
      BY <1>3, <1>6, <2>4
    <3> QED
      BY <1>1, <2>1, <2>4, <3>1
  <2> QED
    BY <1>1, <2>3, <2>4
<1> QED
  BY <1>3, <1>4, <1>5, <1>6, <1>7

LEMMA ReadKeeps ==
  ASSUME ApiTypes, SessionInv, NEW n \in Nat, NEW ts \in Seq(Ends), Reads, Fits(n, ts),
         On(wire', RowName, n, ts, Consumed'), Begun(RowName, n, ts)',
         caller'.at = caller.at, caller'.query = caller.query,
         UNCHANGED <<link, trapped, orders, lists, rowsSent>>
  PROVE  SessionInv'
<1>1. RowName' = RowName /\ Command' = Command
  BY DEF RowName, Command
<1>2. Fits(n, ts)'
  BY <1>1 DEF Fits
<1>3. Pending'
  BY <1>1, <1>2 DEF Pending
<1>4. Turn' /\ Reads' /\ caller'.at \notin {"start", "over"}
  BY DEF SessionInv, Turn, Fresh, InTurn, Reads
<1> QED
  BY <1>3, <1>4 DEF SessionInv

LEMMA TextAnswers ==
  ASSUME ApiTypes, SessionInv, NEW n \in Nat, NEW ts \in Seq(Ends), Reads, wire # <<>>,
         On(wire, RowName, n, ts, Consumed), Begun(RowName, n, ts), Fits(n, ts),
         caller.part = "text", wire' = Tail(wire),
         caller' = [caller EXCEPT !.words = Append(@, wire[1]), !.part = "length"],
         UNCHANGED <<link, trapped, orders, lists, rowsSent>>
  PROVE  SessionInv'
<1> DEFINE w == caller.words
           v == Append(w, wire[1])
<1>1. w \in Seq(Texts) /\ wire[1] \in Texts /\ Consumed = 2 * Len(w) + 1 /\ Len(w) \in {0, 1}
      /\ Consumed <= 4 /\ (n = 0 => Consumed <= 2 /\ ts # <<>>)
      /\ On(Tail(wire), RowName, n, ts, Consumed + 1)
  <2>1. w \in Seq(Texts)
    BY DEF ApiTypes, Caller
  <2>2. wire[1] \in Texts /\ Consumed = 2 * Len(w) + 1 /\ Len(w) \in {0, 1, 2} /\ Len(w) < 2
        /\ Consumed <= 4 /\ (n = 0 => Consumed <= 2 /\ ts # <<>>)
        /\ On(Tail(wire), RowName, n, ts, Consumed + 1)
    BY PartRead
  <2>3. Len(w) \in {0, 1}
    <3>1. \A a \in {0, 1, 2} : a < 2 => a \in {0, 1}
      OBVIOUS
    <3> QED
      BY <2>2, <3>1
  <2> QED
    BY <2>1, <2>2, <2>3
<1>2. /\ v \in Seq(Texts) /\ Len(v) = Len(w) + 1 /\ v[Len(w) + 1] = wire[1]
      /\ Len(w) = 1 => v[1] = w[1]
  BY <1>1
<1>3. caller'.at = caller.at /\ caller'.query = caller.query /\ caller'.words = v
      /\ caller'.part = "length"
  BY DEF ApiTypes, Caller
<1> HIDE DEF v
<1>4. Consumed' = Consumed + 1
  BY <1>1, <1>2, <1>3 DEF Consumed
<1>5. v[1] = IF n > 0 THEN "!re" ELSE ts[1]
  <2>1. CASE Len(w) = 1
    BY <1>2, <2>1 DEF Begun
  <2>2. CASE Len(w) = 0
    <3>1. Consumed + 1 = 2 /\ v[1] = wire[1]
      BY <1>1, <1>2, <2>2
    <3>2. CASE n > 0
      BY <3>1, <3>2, PartRead, ConsumedIs, RowFrame
    <3>3. CASE n = 0
      <4>1. ts[1] \in Ends
        BY <1>1, <3>3
      <4> QED
        <5>1. wire[1] = Framed(ts[1])[2]
          BY <3>1, <3>3, PartRead
        <5> QED
          BY <3>1, <3>3, <4>1, <5>1, TagFrame
    <3> QED
      BY <3>2, <3>3
  <2> QED
    BY <1>1, <2>1, <2>2
<1>6. Len(v) = 2 => v[2] = RowName
  <2> SUFFICES ASSUME Len(v) = 2 PROVE v[2] = RowName
    OBVIOUS
  <2>1. Len(w) = 1
    <3>1. \A a \in {0, 1} : a + 1 = 2 => a = 1
      OBVIOUS
    <3> QED
      BY <1>1, <1>2, <3>1
  <2>2. v[2] = wire[1] /\ Consumed = 3 /\ Consumed + 1 = 4
    BY <1>1, <1>2, <2>1
  <2>3. n > 0
    BY <1>1, <2>2
  <2> QED
    BY <2>2, <2>3, PartRead, ConsumedIs, RowFrame
<1>7. Begun(RowName, n, ts)'
  <2>1. RowName' = RowName
    BY <1>3 DEF RowName
  <2>2. Consumed' <= (IF n > 0 THEN 4 ELSE IF ts # <<>> THEN 2 ELSE 0)
    <3>1. CASE n > 0
      BY <1>1, <1>4, <3>1
    <3>2. CASE n = 0
      BY <1>1, <1>4, <3>2
    <3> QED
      BY <3>1, <3>2
  <2> QED
    BY <1>3, <1>5, <1>6, <2>1, <2>2 DEF Begun
<1>8. On(wire', RowName, n, ts, Consumed')
  BY <1>1, <1>4
<1> QED
  BY <1>3, <1>7, <1>8, ReadKeeps

LEMMA LengthAnswers ==
  ASSUME ApiTypes, SessionInv, NEW n \in Nat, NEW ts \in Seq(Ends), Reads, wire # <<>>,
         On(wire, RowName, n, ts, Consumed), Begun(RowName, n, ts), Fits(n, ts),
         caller.part = "length", wire[1] = "length", wire' = Tail(wire),
         caller' = [caller EXCEPT !.part = "text"],
         UNCHANGED <<link, trapped, orders, lists, rowsSent>>
  PROVE  SessionInv'
<1>1. /\ Consumed = 2 * Len(caller.words) /\ Len(caller.words) \in {0, 1, 2}
      /\ Consumed <= 4 /\ (n = 0 => Consumed <= 2 /\ ts # <<>>)
      /\ On(Tail(wire), RowName, n, ts, Consumed + 1)
  BY PartRead
<1>2. caller'.at = caller.at /\ caller'.query = caller.query /\ caller'.words = caller.words
      /\ caller'.part = "text"
  BY DEF ApiTypes, Caller
<1>3. Consumed' = Consumed + 1
  BY <1>1, <1>2 DEF Consumed
<1>4. Consumed' <= (IF n > 0 THEN 4 ELSE IF ts # <<>> THEN 2 ELSE 0)
  <2>1. CASE n > 0
    <3>1. Consumed # 4
      BY <2>1, PartRead, ConsumedIs, RowFrame
    <3> QED
      BY <1>1, <1>3, <2>1, <3>1
  <2>2. CASE n = 0
    <3>1. ts[1] \in Ends
      BY <1>1, <2>2
    <3>2. Consumed # 2
      <4>1. SUFFICES ASSUME Consumed = 2 PROVE FALSE
        OBVIOUS
      <4>2. wire[1] = Framed(ts[1])[Consumed + 1] /\ Consumed + 1 = 3
        BY <2>2, <4>1, PartRead
      <4> QED
        BY <3>1, <4>2, TagFrame
    <3> QED
      BY <1>1, <1>3, <2>2, <3>2
  <2> QED
    BY <2>1, <2>2
<1>5. Begun(RowName, n, ts)'
  <2>1. RowName' = RowName
    BY <1>2 DEF RowName
  <2> QED
    BY <1>2, <1>4, <2>1 DEF Begun
<1>6. On(wire', RowName, n, ts, Consumed')
  BY <1>1, <1>3
<1> QED
  BY <1>2, <1>5, <1>6, ReadKeeps

(* The words of a sentence that has come to its end.                            *)
LEMMA ZeroRead ==
  ASSUME ApiTypes, NEW n \in Nat, NEW ts \in Seq(Ends), Reads, wire # <<>>,
         On(wire, RowName, n, ts, Consumed), Begun(RowName, n, ts),
         caller.part = "length", wire[1] = "zero"
  PROVE  /\ n > 0 => /\ Len(caller.words) = 2 /\ caller.words[1] = "!re" /\ caller.words[2] = RowName
                     /\ On(Tail(wire), RowName, n - 1, ts, 0)
         /\ n = 0 => /\ Len(caller.words) = 1 /\ caller.words[1] = ts[1] /\ ts # <<>> /\ ts[1] \in Ends
                     /\ Tail(ts) \in Seq(Ends)
                     /\ \A y \in Texts : On(Tail(wire), y, 0, Tail(ts), 0)
<1>1. /\ Consumed = 2 * Len(caller.words) /\ Len(caller.words) \in {0, 1, 2}
      /\ Consumed <= 4 /\ (n = 0 => Consumed <= 2 /\ ts # <<>>)
      /\ On(Tail(wire), RowName, n, ts, Consumed + 1) /\ Tail(wire) \in Seq(Texts)
  BY PartRead
<1>2. CASE n > 0
  <2>1. Consumed = 4
    <3>1. Consumed \in {0, 2, 4}
      BY <1>1
    <3>2. Consumed # 0 /\ Consumed # 2
      BY <1>2, PartRead, ConsumedIs, RowFrame
    <3> QED
      BY <3>1, <3>2
  <2>2. Len(caller.words) = 2 /\ Consumed + 1 = 5
    <3>1. CASE Len(caller.words) = 0
      BY <1>1, <2>1, <3>1
    <3>2. CASE Len(caller.words) = 1
      BY <1>1, <2>1, <3>2
    <3>3. CASE Len(caller.words) = 2
      BY <2>1, <3>3
    <3> QED
      BY <1>1, <3>1, <3>2, <3>3
  <2>3. caller.words[1] = "!re" /\ caller.words[2] = RowName
    BY <1>2, <2>2 DEF Begun
  <2>4. On(Tail(wire), RowName, n - 1, ts, 0)
    BY <1>1, <1>2, <2>2, ConsumedIs, RowOver
  <2> QED
    BY <1>2, <2>2, <2>3, <2>4
<1>3. CASE n = 0
  <2>1. ts[1] \in Ends /\ ts # <<>>
    BY <1>1, <1>3
  <2>2. Consumed = 2
    <3>1. Consumed \in {0, 2}
      BY <1>1, <1>3
    <3>2. Consumed # 0
      BY <1>3, <2>1, PartRead, TagFrame
    <3> QED
      BY <3>1, <3>2
  <2>3. Len(caller.words) = 1 /\ Consumed + 1 = 3
    <3>1. CASE Len(caller.words) = 0
      BY <1>1, <2>2, <3>1
    <3>2. CASE Len(caller.words) = 1
      BY <2>2, <3>2
    <3>3. CASE Len(caller.words) = 2
      BY <1>1, <2>2, <3>3
    <3> QED
      BY <1>1, <3>1, <3>2, <3>3
  <2>4. caller.words[1] = ts[1]
    BY <1>3, <2>3 DEF Begun
  <2>5. Tail(ts) \in Seq(Ends) /\ \A y \in Texts : On(Tail(wire), y, 0, Tail(ts), 0)
    BY <1>1, <1>3, <2>1, <2>3, ConsumedIs, TagOver
  <2> QED
    BY <1>3, <2>1, <2>3, <2>4, <2>5
<1> QED
  BY <1>2, <1>3

(* The first command of the queries is written when the login is over.          *)
LEMMA LoginAnswers ==
  ASSUME ApiTypes, SessionInv, NEW n \in Nat, NEW ts \in Seq(Ends), Reads, wire # <<>>,
         On(wire, RowName, n, ts, Consumed), Begun(RowName, n, ts), Fits(n, ts),
         caller.part = "length", wire[1] = "zero", wire' = Tail(wire),
         SentenceOfLogin(caller.words), UNCHANGED <<link, trapped, rowsSent>>
  PROVE  SessionInv'
<1>1. /\ caller.at \in {"login", "again"} /\ caller.query = 1 /\ Fresh /\ UNCHANGED lists
      /\ \A q \in Queries : lists[q] \in Seq({q})
  BY DEF SentenceOfLogin, SessionInv, Turn, Reads
<1>2. RowName = "ret" /\ "ret" \in Texts
  BY <1>1 DEF RowName, Texts
<1>3. CASE /\ caller.words # <<>> /\ caller.words[1] = "!done"
           /\ caller' = Waiting("print", 1) /\ Written(Order[1])
  <2>1. n = 0 /\ ts[1] = "!done" /\ ts # <<>> /\ Tail(ts) \in Seq(Ends)
    BY <1>3, ZeroRead
  <2>2. /\ caller'.at = "print" /\ caller'.query = 1 /\ caller'.words = <<>>
        /\ caller'.part = "length"
    BY <1>3 DEF Waiting
  <2>3. RowName' = "ppp" /\ Command' = "ppp" /\ Consumed' = 0
    BY <2>2, Turns DEF RowName, Command, Consumed
  <2>4. On(wire', RowName', 0, Tail(ts), Consumed')
    BY <2>1, <2>3, ZeroRead, Turns
  <2>5. Begun(RowName, 0, Tail(ts))'
    BY <2>2, <2>3 DEF Begun
  <2>6. "ppp" \in Queries /\ lists'["ppp"] = <<>> /\ rowsSent'["ppp"] = 0
    BY <1>1 DEF Fresh, Queries
  <2>7. Fits(0, Tail(ts))'
    <3>1. 0 + Len(lists'[RowName']) = rowsSent'[RowName']
      BY <2>3, <2>6
    <3>2. CASE link = "shut" /\ orders = <<>>
      BY <1>3, <2>2, <3>1, <3>2 DEF Fits, Written
    <3>3. CASE link = "open" /\ orders = <<>> /\ ~trapped /\ ts = <<"!done">>
      <4>1. Tail(ts) = <<>> /\ orders' = <<"ppp">>
        BY <1>3, <3>3, Turns DEF Written
      <4> QED
        BY <2>2, <2>3, <3>1, <3>3, <4>1 DEF Fits
    <3> QED
      BY <2>1, <3>2, <3>3 DEF Fits
  <2>8. Pending'
    BY <2>1, <2>4, <2>5, <2>7 DEF Pending
  <2>9. Turn'
    <3>1. ASSUME NEW i \in 1..3, i > 1
          PROVE  lists'[Order[i]] = <<>> /\ rowsSent'[Order[i]] = 0
      BY <1>1, Turns DEF Fresh
    <3> QED
      BY <2>2, <3>1 DEF Turn, InTurn
  <2> QED
    BY <1>1, <2>2, <2>8, <2>9 DEF SessionInv
<1>4. CASE /\ caller.at = "login" /\ Len(caller.words) = 2
           /\ caller' = Waiting("again", 1) /\ Written("again")
  <2>1. n > 0
    <3>1. n = 0 => Len(caller.words) = 1
      BY ZeroRead
    <3> QED
      BY <1>4, <3>1
  <2>2. n = 1 /\ n - 1 = 0 /\ On(Tail(wire), "ret", 0, ts, 0)
    BY <1>2, <1>4, <2>1, ZeroRead DEF Fits
  <2>3. /\ caller'.at = "again" /\ caller'.query = 1 /\ caller'.words = <<>>
        /\ caller'.part = "length"
    BY <1>4 DEF Waiting
  <2>4. RowName' = "ret" /\ Command' = "again" /\ Consumed' = 0
    BY <2>3 DEF RowName, Command, Consumed
  <2>5. Begun(RowName, 0, ts)'
    BY <2>3, <2>4 DEF Begun
  <2>6. Fits(0, ts)'
    <3>1. CASE link = "shut" /\ orders = <<>>
      BY <1>4, <2>3, <3>1 DEF Fits, Written
    <3>2. CASE link = "open" /\ orders = <<>> /\ ~trapped /\ ts = <<>>
      <4>1. orders' = <<"again">>
        BY <1>4, <3>2 DEF Written
      <4> QED
        BY <2>3, <2>4, <3>2, <4>1 DEF Fits
    <3> QED
      BY <1>4, <2>2, <3>1, <3>2 DEF Fits
  <2>7. Pending'
    BY <2>2, <2>4, <2>5, <2>6 DEF Pending
  <2>8. Turn'
    BY <1>1, <2>3 DEF Turn, Fresh
  <2> QED
    BY <1>1, <2>3, <2>7, <2>8 DEF SessionInv
<1>5. CASE caller' = Over
  <2>1. caller'.at = "over" /\ caller'.query = 1
    BY <1>1, <1>5 DEF Over, ApiTypes, Caller
  <2>2. Ended'
    BY <1>1, <2>1 DEF Ended, Fresh
  <2> QED
    BY <1>1, <2>1, <2>2 DEF SessionInv, Reads
<1> QED
  BY <1>3, <1>4, <1>5 DEF SentenceOfLogin

(* A row is filed under the query that it answers.                              *)
LEMMA RowFiled ==
  ASSUME ApiTypes, SessionInv, NEW n \in Nat, n > 0, NEW ts \in Seq(Ends), Reads, wire # <<>>,
         On(wire, RowName, n, ts, Consumed), Begun(RowName, n, ts), Fits(n, ts),
         caller.part = "length", wire[1] = "zero", wire' = Tail(wire),
         SentenceOfPrint(caller.words), UNCHANGED <<link, trapped, rowsSent>>, ~upset'
  PROVE  SessionInv'
<1> DEFINE q == Order[caller.query]
<1>1. /\ Len(caller.words) = 2 /\ caller.words[1] = "!re" /\ caller.words[2] = RowName
      /\ On(Tail(wire), RowName, n - 1, ts, 0)
  BY ZeroRead
<1>2. caller.at = "print" /\ RowName = q /\ q \in Queries /\ caller.query \in 1..3
  BY ConsumedIs DEF SentenceOfPrint
<1>3. lists[q] \in Seq({q}) /\ n + Len(lists[q]) = rowsSent[q] /\ InTurn
  BY <1>2 DEF SessionInv, Reads, Turn, Fits
<1> HIDE DEF q
<1>4. caller.words # <<>>
  <2>1. Len(<<>>) = 0
    OBVIOUS
  <2> QED
    BY <1>1, <2>1
<1>5. /\ caller' = [caller EXCEPT !.count = @ + 1, !.words = <<>>, !.part = "length"]
      /\ lists' = [lists EXCEPT ![q] = Append(lists[q], q)]
      /\ UNCHANGED orders
  BY <1>1, <1>2, <1>4 DEF SentenceOfPrint, QueryEnds, q
<1>6. /\ caller'.at = "print" /\ caller'.query = caller.query /\ caller'.words = <<>>
      /\ caller'.part = "length"
  BY <1>2, <1>5 DEF ApiTypes, Caller
<1>7. RowName' = RowName /\ Command' = Command /\ Consumed' = 0
  BY <1>2, <1>6 DEF RowName, Command, Consumed
<1>8. /\ lists'[q] = Append(lists[q], q) /\ lists'[q] \in Seq({q})
      /\ Len(lists'[q]) = Len(lists[q]) + 1 /\ Len(lists[q]) \in Nat
      /\ \A p \in Queries : p # q => lists'[p] = lists[p]
  <2>1. lists'[q] = Append(lists[q], q) /\ \A p \in Queries : p # q => lists'[p] = lists[p]
    BY <1>2, <1>5 DEF ApiTypes
  <2> QED
    BY <1>3, <2>1
<1>9. Fits(n - 1, ts)'
  <2>1. (n - 1) + Len(lists'[RowName']) = rowsSent'[RowName']
    <3>1. \A a, b, c \in Nat : a + b = c => (a - 1) + (b + 1) = c
      OBVIOUS
    <3>2. rowsSent[q] \in Nat
      BY <1>2, RouterApiAssumption DEF ApiTypes
    <3>3. (n - 1) + (Len(lists[q]) + 1) = rowsSent[q]
      BY <1>3, <1>8, <3>1, <3>2
    <3> QED
      BY <1>2, <1>7, <1>8, <3>3
  <2> QED
    BY <1>2, <1>5, <1>6, <1>7, <2>1 DEF Fits
<1>10. Begun(RowName, n - 1, ts)'
  BY <1>6, <1>7 DEF Begun
<1>11. Pending'
  BY <1>1, <1>7, <1>9, <1>10 DEF Pending
<1>12. Turn'
  <2>1. ASSUME NEW i \in 1..3, i # caller.query
        PROVE  lists'[Order[i]] = lists[Order[i]]
    BY <1>2, <1>8, <2>1, Turns DEF q
  <2> QED
    BY <1>2, <1>3, <1>6, <2>1 DEF Turn, InTurn
<1> QED
  BY <1>6, <1>8, <1>11, <1>12 DEF SessionInv

(* A query ends with the rows that the router sent for it.                      *)
LEMMA QueryAnswered ==
  ASSUME ApiTypes, SessionInv, NEW ts \in Seq(Ends), Reads, wire # <<>>,
         On(wire, RowName, 0, ts, Consumed), Begun(RowName, 0, ts), Fits(0, ts),
         caller.part = "length", wire[1] = "zero", wire' = Tail(wire),
         SentenceOfPrint(caller.words), UNCHANGED <<link, trapped, rowsSent>>, ~upset'
  PROVE  SessionInv'
<1> DEFINE q == Order[caller.query]
<1>1. /\ Len(caller.words) = 1 /\ caller.words[1] = ts[1] /\ ts # <<>> /\ ts[1] \in Ends
      /\ Tail(ts) \in Seq(Ends)
      /\ \A y \in Texts : On(Tail(wire), y, 0, Tail(ts), 0)
  BY ZeroRead
<1>2. caller.at = "print" /\ RowName = q /\ q \in Queries /\ caller.query \in 1..3
  BY ConsumedIs DEF SentenceOfPrint
<1>3. 0 + Len(lists[q]) = rowsSent[q] /\ InTurn /\ \A p \in Queries : lists[p] \in Seq({p})
  BY <1>2 DEF SessionInv, Reads, Turn, Fits
<1> HIDE DEF q
<1>4. caller.words # <<>>
  <2>1. Len(<<>>) = 0
    OBVIOUS
  <2> QED
    BY <1>1, <2>1
<1>5. ts[1] = "!done" /\ QueryEnds(lists[q], FALSE, "length")
  <2>1. ts[1] \in {"!done", "!trap", "!fatal"}
    BY <1>1 DEF Ends, Replies
  <2> QED
    BY <1>1, <1>4, <2>1 DEF SentenceOfPrint, QueryEnds, q
<1>6. lists' = lists
  BY <1>2, <1>5 DEF QueryEnds, ApiTypes, q
<1>7. Len(lists[q]) = rowsSent[q]
  <2>1. Len(lists[q]) \in Nat
    BY <1>2, <1>3
  <2> QED
    BY <1>3, <2>1
<1>8. \/ link = "shut" /\ orders = <<>>
      \/ link = "open" /\ orders = <<>> /\ ~trapped /\ ts = <<"!done">>
  BY <1>1, <1>2, <1>5 DEF Fits
<1>9. CASE caller.query = 3
  <2>1. caller' = Over /\ UNCHANGED orders
    BY <1>5, <1>9, Turns DEF QueryEnds
  <2>2. caller'.at = "over" /\ caller'.query = 3
    BY <1>9, <2>1 DEF Over, ApiTypes, Caller
  <2>3. \A p \in Queries : Len(lists[p]) = rowsSent[p]
    <3>1. \A i \in 1..3 : Len(lists[Order[i]]) = rowsSent[Order[i]]
      BY <1>3, <1>7, <1>9 DEF InTurn, q
    <3>2. \A p \in Queries : \E i \in 1..3 : p = Order[i]
      BY Turns DEF Queries
    <3> QED
      BY <3>1, <3>2
  <2>4. Ended'
    BY <1>6, <1>8, <2>1, <2>2, <2>3 DEF Ended
  <2> QED
    BY <1>3, <1>6, <2>2, <2>4 DEF SessionInv, Reads
<1>10. CASE caller.query < 3
  <2> DEFINE m == caller.query + 1
             next == Order[m]
  <2>1. m \in 1..3 /\ next \in Queries /\ next \in Texts
    BY <1>2, <1>10, Turns
  <2>2. caller' = [Waiting("print", m) EXCEPT !.part = "length"] /\ Written(next)
    BY <1>5, <1>10, Turns DEF QueryEnds
  <2>3. /\ caller'.at = "print" /\ caller'.query = m /\ caller'.words = <<>>
        /\ caller'.part = "length"
    BY <2>2 DEF Waiting
  <2>4. RowName' = next /\ Command' = next /\ Consumed' = 0
    BY <2>3 DEF RowName, Command, Consumed
  <2>5. Len(lists[next]) = 0 /\ rowsSent[next] = 0
    BY <1>2, <1>3, <1>10, <2>1 DEF InTurn
  <2> HIDE DEF next
  <2>6. On(wire', RowName', 0, Tail(ts), Consumed')
    BY <1>1, <2>1, <2>4
  <2>7. Begun(RowName, 0, Tail(ts))'
    BY <2>3, <2>4 DEF Begun
  <2>8. Fits(0, Tail(ts))'
    <3>1. 0 + Len(lists'[RowName']) = rowsSent'[RowName']
      BY <1>6, <2>4, <2>5
    <3>2. CASE link = "shut" /\ orders = <<>>
      BY <2>2, <2>3, <3>1, <3>2 DEF Fits, Written
    <3>3. CASE link = "open" /\ orders = <<>> /\ ~trapped /\ ts = <<"!done">>
      <4>1. Tail(ts) = <<>> /\ orders' = <<next>>
        BY <2>2, <3>3 DEF Written
      <4> QED
        BY <2>3, <2>4, <3>1, <3>3, <4>1 DEF Fits
    <3> QED
      BY <1>8, <3>2, <3>3
  <2>9. Pending'
    BY <1>1, <2>6, <2>7, <2>8 DEF Pending
  <2>10. Turn'
    <3>1. ASSUME NEW i \in 1..3, i < m
          PROVE  Len(lists'[Order[i]]) = rowsSent'[Order[i]]
      <4>1. i < caller.query \/ i = caller.query
        BY <1>2, <3>1
      <4> QED
        BY <1>3, <1>6, <1>7, <4>1 DEF InTurn, q
    <3>2. ASSUME NEW i \in 1..3, i > m
          PROVE  lists'[Order[i]] = <<>> /\ rowsSent'[Order[i]] = 0
      BY <1>2, <1>3, <1>6, <3>2 DEF InTurn
    <3> QED
      BY <2>3, <3>1, <3>2 DEF Turn, InTurn
  <2> QED
    BY <1>3, <1>6, <2>3, <2>9, <2>10 DEF SessionInv
<1> QED
  BY <1>2, <1>9, <1>10

LEMMA ReadAnswers ==
  ASSUME ApiTypes, SessionInv, ReadWord, ~upset'
  PROVE  SessionInv'
<1>1. Reads /\ wire # <<>> /\ wire' = Tail(wire) /\ UNCHANGED <<link, trapped, rowsSent>>
  BY DEF ReadWord
<1>2. PICK n \in Nat, ts \in Seq(Ends) :
         On(wire, RowName, n, ts, Consumed) /\ Begun(RowName, n, ts) /\ Fits(n, ts)
  BY <1>1 DEF SessionInv, Cut, Pending
<1>3. CASE caller.part = "text"
  BY <1>1, <1>2, <1>3, TextAnswers DEF ReadWord
<1>4. CASE caller.part = "length" /\ wire[1] = "length"
  BY <1>1, <1>2, <1>4, LengthAnswers DEF ReadWord
<1>5. CASE caller.part = "length" /\ wire[1] = "zero"
  <2>1. Sentence(caller.words)
    BY <1>5 DEF ReadWord
  <2>2. CASE SentenceOfLogin(caller.words)
    BY <1>1, <1>2, <1>5, <2>2, LoginAnswers
  <2>3. CASE SentenceOfPrint(caller.words) /\ n > 0
    BY <1>1, <1>2, <1>5, <2>3, RowFiled
  <2>4. CASE SentenceOfPrint(caller.words) /\ n = 0
    BY <1>1, <1>2, <1>5, <2>4, QueryAnswered
  <2> QED
    BY <2>1, <2>2, <2>3, <2>4 DEF Sentence
<1>6. ASSUME caller.part = "length", wire[1] \notin {"length", "zero"}
      PROVE  FALSE
  <2>1. Consumed \in {0, 2, 4} /\ (n = 0 => Consumed \in {0, 2} /\ ts[1] \in Ends)
    <3>1. /\ Consumed = 2 * Len(caller.words) /\ Len(caller.words) \in {0, 1, 2}
          /\ Consumed <= 4 /\ (n = 0 => Consumed <= 2 /\ ts # <<>>)
      BY <1>1, <1>2, <1>6, PartRead
    <3>2. Consumed \in {0, 2, 4}
      BY <3>1
    <3>3. \A a \in {0, 2, 4} : a <= 2 => a \in {0, 2}
      OBVIOUS
    <3> QED
      BY <3>1, <3>2, <3>3
  <2>2. CASE n > 0
    <3>1. wire[1] = FramedRow(RowName)[Consumed + 1]
      BY <1>1, <1>2, <2>2, PartRead
    <3>2. FramedRow(RowName)[1] = "length" /\ FramedRow(RowName)[3] = "length"
          /\ FramedRow(RowName)[5] = "zero"
      BY ConsumedIs, RowFrame
    <3> QED
      BY <1>6, <2>1, <3>1, <3>2
  <2>3. CASE n = 0
    BY <1>1, <1>2, <1>6, <2>1, <2>3, PartRead, TagFrame
  <2> QED
    BY <2>2, <2>3
<1> QED
  BY <1>2, <1>3, <1>4, <1>5, <1>6 DEF Begun

LEMMA WaitAnswers ==
  ASSUME ApiTypes, SessionInv, WaitEnds, ~upset'
  PROVE  SessionInv'
<1>1. caller.at \in {"login", "again"} /\ caller' = Over /\ UNCHANGED <<orders, lists, rowsSent>>
  BY DEF WaitEnds, QueryEnds, Reads
<1>2. caller.query = 1 /\ Fresh /\ \A q \in Queries : lists[q] \in Seq({q})
  BY <1>1 DEF SessionInv, Reads, Turn
<1>3. caller'.at = "over" /\ caller'.query = 1
  BY <1>1, <1>2 DEF Over, ApiTypes, Caller
<1>4. Ended'
  BY <1>1, <1>2, <1>3 DEF Ended, Fresh
<1> QED
  BY <1>1, <1>2, <1>3, <1>4 DEF SessionInv, Reads

LEMMA IdleAnswers ==
  ASSUME ApiTypes, SessionInv, SocketIdles
  PROVE  SessionInv'
<1>1. Cut'
  BY DEF Cut, SocketIdles
<1> QED
  BY <1>1, RouterKeeps DEF SocketIdles

(* A query that has gone wrong stays so until the session ends.                 *)
LEMMA UpsetStays ==
  ASSUME ApiTypes, RouterApiNext, upset
  PROVE  upset'
<1>1. ASSUME NEW words, Sentence(words)
      PROVE  upset'
  BY <1>1 DEF Sentence, SentenceOfLogin, SentenceOfPrint, QueryEnds
<1>2. CASE ReadWord
  BY <1>1, <1>2 DEF ReadWord
<1>3. CASE ReadLost
  BY <1>1, <1>3 DEF ReadLost
<1>4. CASE WaitEnds
  BY <1>4 DEF WaitEnds, QueryEnds
<1> QED
  BY <1>2, <1>3, <1>4 DEF RouterApiNext, Connect, ReplyDone, ReplyTrap, ReplyChallenge, ReplyRow,
                          Hangup, SocketIdles

LEMMA AnswersStep ==
  ApiTypes /\ AnswersInv /\ [RouterApiNext]_routerApiVars => AnswersInv'
<1> SUFFICES ASSUME ApiTypes, AnswersInv, [RouterApiNext]_routerApiVars, ~upset'
             PROVE  SessionInv'
  BY DEF AnswersInv
<1>1. CASE UNCHANGED routerApiVars
  <2>1. SessionInv
    BY <1>1 DEF AnswersInv, routerApiVars
  <2> QED
    <3>1. UNCHANGED <<link, orders, trapped, wire, caller, lists, rowsSent>>
      BY <1>1 DEF routerApiVars
    <3>2. RowName' = RowName /\ Consumed' = Consumed /\ Command' = Command
      BY <3>1 DEF RowName, Consumed, Command
    <3>3. ASSUME Pending PROVE Pending'
      <4>1. PICK n \in Nat, ts \in Seq(Ends) :
               On(wire, RowName, n, ts, Consumed) /\ Begun(RowName, n, ts) /\ Fits(n, ts)
        BY <3>3 DEF Pending
      <4>2. On(wire', RowName', n, ts, Consumed')
        BY <3>1, <3>2, <4>1
      <4>3. Begun(RowName, n, ts)'
        BY <3>1, <3>2, <4>1 DEF Begun
      <4>4. Fits(n, ts)'
        BY <3>1, <3>2, <4>1 DEF Fits
      <4> QED
        BY <4>2, <4>3, <4>4 DEF Pending
    <3>4. CASE Reads
      <4>1. Cut' \/ Pending'
        BY <2>1, <3>1, <3>3, <3>4 DEF SessionInv, Cut
      <4> QED
        BY <2>1, <3>1, <3>4, <4>1, RouterKeeps
    <3>5. CASE ~Reads
      <4>1. ~Reads' /\ (caller.at = "over" => Ended')
        BY <2>1, <3>1, <3>5 DEF SessionInv, Reads, Ended
      <4> QED
        BY <2>1, <3>1, <4>1 DEF SessionInv, Fresh
    <3> QED
      BY <3>4, <3>5
<1>2. CASE RouterApiNext
  <2>1. SessionInv
    BY <1>2, UpsetStays DEF AnswersInv
  <2>2. ~ReadLost
    <3>1. SUFFICES ASSUME ReadLost PROVE FALSE
      OBVIOUS
    <3>2. Reads /\ wire # <<>> /\ caller.part = "lost"
      BY <3>1 DEF ReadLost
    <3> QED
      BY <2>1, <3>2 DEF SessionInv, Cut, Pending, Begun
  <2> QED
    BY <1>2, <2>1, <2>2, ConnectAnswers, DoneAnswers, TrapAnswers, ChallengeAnswers, RowAnswers,
       HangupAnswers, ReadAnswers, WaitAnswers, IdleAnswers DEF RouterApiNext
<1> QED
  BY <1>1, <1>2

LEMMA AnswersInit == RouterApiInit => AnswersInv
<1> SUFFICES ASSUME RouterApiInit PROVE SessionInv
  BY DEF AnswersInv
<1>1. caller.at = "start" /\ caller.query = 1
  BY DEF RouterApiInit, Waiting
<1>2. Fresh /\ \A q \in Queries : lists[q] \in Seq({q})
  BY DEF RouterApiInit, Fresh
<1> QED
  BY <1>1, <1>2 DEF RouterApiInit, SessionInv, Reads

(* Every step of the schedule is one of the session, begins the next, or does   *)
(* not touch it.                                                                *)
LEMMA SessionsRun ==
  [ClientMapNext]_allMapVars => [RouterApiNext]_routerApiVars \/ RouterApiInit'
<1> SUFFICES ASSUME [ClientMapNext]_allMapVars
             PROVE  [RouterApiNext]_routerApiVars \/ RouterApiInit'
  OBVIOUS
<1>1. CASE EndSession
  BY <1>1 DEF EndSession, RouterApiInit, Waiting
<1>2. CASE InSession
  BY <1>2 DEF InSession
<1>3. CASE \E r \in MapRouters : TakeRouter(r)
  BY <1>3 DEF TakeRouter
<1>4. CASE UNCHANGED allMapVars
  BY <1>4 DEF allMapVars
<1>5. CASE StartSync \/ ListRouters \/ FinishSync \/ CheckTarget \/ ProbeHttp \/ QueryHttp \/ StartSession
  BY <1>5 DEF StartSync, ListRouters, FinishSync, CheckTarget, ProbeHttp, QueryHttp, StartSession
<1> QED
  BY <1>1, <1>2, <1>3, <1>4, <1>5 DEF ClientMapNext, SyncStep

LEMMA SessionsAlways == ClientMapSpec => [](ApiTypes /\ AnswersInv)
<1>1. ClientMapInit => ApiTypes /\ AnswersInv
  BY TypesInit, AnswersInit DEF ClientMapInit
<1>2. RouterApiInit' => ApiTypes' /\ AnswersInv'
  <2>1. RouterApiInit => ApiTypes /\ AnswersInv
    BY TypesInit, AnswersInit
  <2> QED
    BY <2>1, PTL
<1>3. ApiTypes /\ AnswersInv /\ [ClientMapNext]_allMapVars => ApiTypes' /\ AnswersInv'
  BY <1>2, SessionsRun, ApiTypesStep, AnswersStep
<1> QED
  BY <1>1, <1>3, PTL DEF ClientMapSpec

(* The types of a session with the API of a router, in every run of the client  *)
(* map: the router sends no more rows than it has (mikrotik-api.ts).            *)
THEOREM SessionTypes == ClientMapSpec => []RouterApiTypeOK
<1>1. ApiTypes => RouterApiTypeOK
  BY DEF ApiTypes, RouterApiTypeOK, Caller, Commands
<1> QED
  BY <1>1, SessionsAlways, PTL

(* Until a query of a session traps, times out or has more rows than print      *)
(* reads, the words that arrive late, in parts or after the next command was     *)
(* written are taken apart into rows of the query that asked for them, and a     *)
(* query that has ended has all of them (readSentence, print, login).           *)
THEOREM AnswersAreListed == ClientMapSpec => []ListsAreAnswers
<1>1. ApiTypes /\ AnswersInv => ListsAreAnswers
  <2> SUFFICES ASSUME ApiTypes, AnswersInv, ~upset, NEW i \in 1..3
               PROVE  /\ \A j \in 1..Len(lists[Order[i]]) : lists[Order[i]][j] = Order[i]
                      /\ caller.query > i \/ (caller.at = "over" /\ link = "open" /\ caller.query = 3)
                            => Len(lists[Order[i]]) = rowsSent[Order[i]]
    BY Turns DEF ListsAreAnswers
  <2>1. SessionInv /\ Order[i] \in Queries /\ caller.query \in 1..3
        /\ caller.at \in {"start", "login", "again", "print", "over"}
    BY Turns DEF AnswersInv, ApiTypes, Caller
  <2>2. lists[Order[i]] \in Seq({Order[i]})
    BY <2>1 DEF SessionInv
  <2>3. ASSUME caller.at = "over", caller.query # 1
        PROVE  Len(lists[Order[i]]) = rowsSent[Order[i]]
    BY <2>1, <2>3 DEF SessionInv, Ended
  <2>4. ASSUME caller.query > i
        PROVE  Len(lists[Order[i]]) = rowsSent[Order[i]]
    <3>1. caller.query # 1
      BY <2>1, <2>4
    <3>2. caller.at \in {"print", "over"}
      BY <2>1, <3>1 DEF SessionInv, Reads, Turn
    <3>3. CASE caller.at = "print"
      BY <2>1, <2>4, <3>3 DEF SessionInv, Reads, Turn, InTurn
    <3> QED
      BY <2>3, <3>1, <3>2, <3>3
  <2>5. \A j \in 1..Len(lists[Order[i]]) : lists[Order[i]][j] = Order[i]
    BY <2>2
  <2> QED
    BY <2>3, <2>4, <2>5
<1> QED
  BY <1>1, SessionsAlways, PTL
=============================================================================
