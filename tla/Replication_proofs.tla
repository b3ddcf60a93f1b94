------------------------- MODULE Replication_proofs -------------------------
(***************************************************************************)
(* A master and its slave keep the same dataset, for any keys and strings  *)
(* and any sequence of the commands of redis: what changed it is sent to   *)
(* the slave, and does the same there.  And the slave comes to that dataset: *)
(* at every step of a synchronization, and after every failure and crash,  *)
(* it has a state that its master was in, and the current one but for the  *)
(* commands on their way when it is connected.                             *)
(***************************************************************************)
EXTENDS Keyspace, Replica, FiniteSetTheorems, SequenceTheorems, TLAPS

-----------------------------------------------------------------------------
(* Servers and what is done to them *)

\* s is a server, whatever its values are.
Srv(s) ==
  /\ s = [db |-> s.db, expires |-> s.expires, dirty |-> s.dirty]
  /\ s.db = [k \in Key |-> s.db[k]]
  /\ s.expires \subseteq Key
  /\ s.dirty \in Nat

\* A value is put at a key.
LEMMA PutIs ==
  ASSUME NEW s, Srv(s), NEW k \in Key, NEW v
  PROVE  LET t == Put(s, k, v)
         IN  /\ Srv(t) /\ t.expires = s.expires /\ t.dirty = s.dirty /\ t.db[k] = v
             /\ \A x \in Key : x # k => t.db[x] = s.db[x]
<1> DEFINE d == [s.db EXCEPT ![k] = v]
<1>1. Put(s, k, v) = [db |-> d, expires |-> s.expires, dirty |-> s.dirty]
  BY DEF Put, Srv
<1>2. d = [x \in Key |-> IF x = k THEN v ELSE s.db[x]]
  BY DEF Srv
<1> HIDE DEF d
<1>3. d = [x \in Key |-> d[x]] /\ d[k] = v /\ \A x \in Key : x # k => d[x] = s.db[x]
  BY <1>2
<1> QED BY <1>1, <1>3 DEF Srv

\* A key is deleted.
LEMMA DeleteIs ==
  ASSUME NEW s, Srv(s), NEW k \in Key
  PROVE  LET t == deleteKey(s, k)
         IN  /\ Srv(t) /\ t.expires = s.expires \ {k} /\ t.dirty = s.dirty /\ t.db[k] = None
             /\ \A x \in Key : x # k => t.db[x] = s.db[x]
<1> DEFINE d == [s.db EXCEPT ![k] = None]
<1>1. deleteKey(s, k) = [db |-> d, expires |-> s.expires \ {k}, dirty |-> s.dirty]
  <2> DEFINE u == [s EXCEPT !.db[k] = None]
  <2>1. deleteKey(s, k) = [u EXCEPT !.expires = @ \ {k}]
    BY DEF deleteKey
  <2>2. u = [db |-> d, expires |-> s.expires, dirty |-> s.dirty]
    BY DEF Srv
  <2> HIDE DEF d, u
  <2>3. u.expires = s.expires /\ [u EXCEPT !.expires = @ \ {k}] = [db |-> d, expires |-> u.expires \ {k}, dirty |-> s.dirty]
    BY <2>2
  <2> QED BY <2>1, <2>3
<1>2. d = [x \in Key |-> IF x = k THEN None ELSE s.db[x]]
  BY DEF Srv
<1> HIDE DEF d
<1>3. d = [x \in Key |-> d[x]] /\ d[k] = None /\ \A x \in Key : x # k => d[x] = s.db[x]
  BY <1>2
<1> QED BY <1>1, <1>3 DEF Srv

\* The dataset is found dirty.
LEMMA DirtyIs ==
  ASSUME NEW s, Srv(s), NEW n \in Nat
  PROVE  LET t == Dirty(s, n)
         IN  Srv(t) /\ t.expires = s.expires /\ t.dirty = s.dirty + n /\ t.db = s.db
<1>1. Dirty(s, n) = [db |-> s.db, expires |-> s.expires, dirty |-> s.dirty + n]
  BY DEF Dirty, Srv
<1>2. s.dirty + n \in Nat
  BY DEF Srv
<1> QED BY <1>1, <1>2 DEF Srv

\* A key stays for ever.
LEMMA RemoveExpireIs ==
  ASSUME NEW s, Srv(s), NEW k \in Key
  PROVE  LET t == removeExpire(s, k)
         IN  Srv(t) /\ t.expires = s.expires \ {k} /\ t.dirty = s.dirty /\ t.db = s.db
<1>1. removeExpire(s, k) = [db |-> s.db, expires |-> s.expires \ {k}, dirty |-> s.dirty]
  BY DEF removeExpire, Srv
<1> QED BY <1>1 DEF Srv

\* A key gets a time to live.
LEMMA SetExpireIs ==
  ASSUME NEW s, Srv(s), NEW k \in Key
  PROVE  LET t == setExpire(s, k)
         IN  Srv(t) /\ t.expires = s.expires \cup {k} /\ t.dirty = s.dirty /\ t.db = s.db
<1>1. setExpire(s, k) = [db |-> s.db, expires |-> s.expires \cup {k}, dirty |-> s.dirty]
  BY DEF setExpire, Srv
<1> QED BY <1>1 DEF Srv

\* dirty is set to 0 when a command has been propagated.
LEMMA CleanIs ==
  ASSUME NEW s, Srv(s)
  PROVE  LET t == [s EXCEPT !.dirty = 0]
         IN  Srv(t) /\ t.expires = s.expires /\ t.dirty = 0 /\ t.db = s.db
<1>1. [s EXCEPT !.dirty = 0] = [db |-> s.db, expires |-> s.expires, dirty |-> 0]
  BY DEF Srv
<1> QED BY <1>1 DEF Srv

\* What a command that writes key k finds there.
Seen(s, k) == IF k \in s.expires THEN None ELSE s.db[k]

\* A volatile key is deleted before it is written.
LEMMA WriteIs ==
  ASSUME NEW s, Srv(s), NEW k \in Key
  PROVE  LET t == lookupKeyWrite(s, k)
         IN  /\ Srv(t) /\ t.expires = s.expires \ {k} /\ t.db[k] = Seen(s, k)
             /\ t.dirty = s.dirty + IF k \in s.expires THEN 1 ELSE 0
             /\ \A x \in Key : x # k => t.db[x] = s.db[x]
<1>1. CASE k \in s.expires
  <2>1. lookupKeyWrite(s, k) = Dirty(deleteKey(s, k), 1)
    BY <1>1 DEF lookupKeyWrite, deleteIfVolatile
  <2> DEFINE d == deleteKey(s, k)
  <2>2. /\ Srv(d) /\ d.expires = s.expires \ {k} /\ d.dirty = s.dirty /\ d.db[k] = None
        /\ \A x \in Key : x # k => d.db[x] = s.db[x]
    BY DeleteIs
  <2> HIDE DEF d
  <2>3. LET t == Dirty(d, 1)
        IN  Srv(t) /\ t.expires = d.expires /\ t.dirty = d.dirty + 1 /\ t.db = d.db
    BY <2>2, DirtyIs
  <2> QED BY <1>1, <2>1, <2>2, <2>3 DEF Seen, d
<1>2. CASE k \notin s.expires
  <2>1. lookupKeyWrite(s, k) = s
    BY <1>2 DEF lookupKeyWrite, deleteIfVolatile
  <2>2. s.expires \ {k} = s.expires /\ s.dirty + 0 = s.dirty
    BY <1>2 DEF Srv
  <2> QED BY <1>2, <2>1, <2>2 DEF Seen
<1> QED BY <1>1, <1>2

-----------------------------------------------------------------------------
(* The inductive invariant *)

\* A field and its value that a zipmap may hold, and all of them.
Fits(f, x) == TooLong(f) \/ TooLong(x) => IsNumber(x)
ShortMap(map) == \A p \in map : Fits(p[1], p[2])

\* The values of each type; no set, sorted set or hash is empty, an element has one score,
\* and a zipmap is small.
ValueOK(v) ==
  \/ v = None
  \/ v[1] = "string"
  \/ v = List(v[2]) /\ v[2] \in Seq(ToSet(v[2]))
  \/ v = Set(v[2]) /\ IsFiniteSet(v[2]) /\ v[2] # {}
  \/ v = ZSet(v[2]) /\ IsFiniteSet(v[2]) /\ v[2] # {}
     /\ \A p, q \in v[2] : p = <<p[1], p[2]>> /\ (p[1] = q[1] => p = q)
  \/ /\ v = <<"hash", [enc |-> v[2].enc, map |-> v[2].map]>>
     /\ IsFiniteSet(v[2].map) /\ v[2].map # {}
     /\ v[2].enc = "zipmap" => Cardinality(v[2].map) <= hash_max_zipmap_entries /\ ShortMap(v[2].map)

\* A server whose values are right, and whose volatile keys exist.
Good(s) ==
  /\ Srv(s)
  /\ \A k \in Key : ValueOK(s.db[k])
  /\ \A k \in s.expires : s.db[k] # None

\* v is no empty list.
NotEmpty(v) == v[1] = "list" => v[2] # << >>
Full(s) == \A k \in Key : NotEmpty(s.db[k])

\* Two servers have the same at k, or one of them found it past its time.
AgreeAt(m, s, k) ==
  \/ Data(m.db[k]) = Data(s.db[k]) /\ (k \in m.expires <=> k \in s.expires)
  \/ k \in m.expires /\ s.db[k] = None
  \/ k \in s.expires /\ m.db[k] = None

\* The master found its dataset dirty and the slave was sent the command, or it was not.
Followed(m2, s2, s) == \A k \in Key : AgreeAt(m2, IF m2.dirty > 0 THEN s2 ELSE s, k)

KInv ==
  /\ Good(master) /\ Good(slave) /\ master.dirty = 0 /\ slave.dirty = 0
  /\ exact \in BOOLEAN
  /\ exact => Full(master) /\ Full(slave) /\ \A k \in Key : AgreeAt(master, slave, k)
  /\ OldTimesGo

-----------------------------------------------------------------------------
(* Steps *)

\* dirty does not matter for what servers have.
LEMMA CleanKeeps ==
  ASSUME NEW s, Good(s)
  PROVE  LET t == [s EXCEPT !.dirty = 0]
         IN  Good(t) /\ t.dirty = 0 /\ (Full(s) => Full(t)) /\ t.expires = s.expires /\ t.db = s.db
BY CleanIs DEF Good, Full

\* What makes t of s leaves the value at k, or takes its time to live away.
Stays(s, t, k) == k \in s.expires /\ k \in t.expires => t.db[k] = s.db[k]

\* The master runs a command and the slave follows.
LEMMA Called ==
  ASSUME KInv, NEW m2, NEW s2, Good(m2), Good(s2),
         master' = [m2 EXCEPT !.dirty = 0],
         slave' = IF m2.dirty > 0 THEN [s2 EXCEPT !.dirty = 0] ELSE slave,
         outlived' \subseteq Outlived,
         exact' \in BOOLEAN,
         exact' => Full(m2) /\ (m2.dirty > 0 => Full(s2)) /\ (m2.dirty > 0 \/ Full(slave)) /\ Followed(m2, s2, slave),
         \A k \in outlived' : Stays(master, m2, k) \/ (~exact' /\ m2.db[k][1] = "list")
  PROVE  KInv'
<1>1. Good(master') /\ master'.dirty = 0 /\ (Full(m2) => Full(master')) /\ master'.expires = m2.expires /\ master'.db = m2.db
  BY CleanKeeps
<1>4. OldTimesGo'
  <2> SUFFICES ASSUME NEW k \in outlived' PROVE ~exact' /\ master'.db[k][1] = "list"
    BY DEF OldTimesGo, Is, Type
  <2>1. k \in master.expires /\ k \in m2.expires /\ m2.db[k] # master.db[k]
    BY <1>1 DEF Outlived
  <2> QED BY <1>1, <2>1 DEF Stays
<1>2. CASE m2.dirty > 0
  <2>1. /\ Good(slave') /\ slave'.dirty = 0 /\ (Full(s2) => Full(slave')) /\ slave'.expires = s2.expires
        /\ slave'.db = s2.db
    BY <1>2, CleanKeeps
  <2>2. ASSUME exact', NEW k \in Key PROVE AgreeAt(master', slave', k)
    <3>1. AgreeAt(m2, s2, k)
      BY <1>2, <2>2 DEF Followed
    <3> QED BY <1>1, <2>1, <3>1 DEF AgreeAt
  <2> QED BY <1>1, <1>2, <1>4, <2>1, <2>2 DEF KInv
<1>3. CASE ~(m2.dirty > 0)
  <2>1. slave' = slave /\ Good(slave) /\ slave.dirty = 0
    BY <1>3 DEF KInv
  <2>2. ASSUME exact', NEW k \in Key PROVE AgreeAt(master', slave', k)
    <3>1. AgreeAt(m2, slave, k)
      BY <1>3, <2>2 DEF Followed
    <3> QED BY <1>1, <2>1, <3>1 DEF AgreeAt
  <2> QED BY <1>1, <1>3, <1>4, <2>1, <2>2 DEF KInv
<1> QED BY <1>2, <1>3

-----------------------------------------------------------------------------
(* Commands that write one key *)

\* t is s after a command that looked k up for writing, found and then has v there.
One(t, s, k, v, n) ==
  /\ Srv(t) /\ t.expires = s.expires \ {k} /\ t.db[k] = v
  /\ n \in Nat /\ t.dirty = s.dirty + (IF k \in s.expires THEN 1 ELSE 0) + n
  /\ \A x \in Key : x # k => t.db[x] = s.db[x]

\* v becomes w, which is found as n changes.
Change(v, w, n) ==
  /\ ValueOK(w) /\ n \in Nat
  /\ NotEmpty(v) => NotEmpty(w)
  /\ n = 0 => Data(w) = Data(v)

\* The same data are hashes on both sides, or the same value.
LEMMA DataAlike ==
  ASSUME NEW v, NEW w, Data(v) = Data(w)
  PROVE  (v[1] = "hash" <=> w[1] = "hash") /\ (v[1] # "hash" => v = w) /\ (v = None <=> w = None)
BY DEF Data, None

\* Both find the same, since a volatile key is gone before it is written.
LEMMA SeenAlike ==
  ASSUME NEW m, NEW s, Good(m), Good(s), NEW k \in Key, AgreeAt(m, s, k)
  PROVE  Data(Seen(m, k)) = Data(Seen(s, k))
BY DEF Good, AgreeAt, Seen, None, Data

\* What is seen is a value.
LEMMA SeenOK ==
  ASSUME NEW s, Good(s), NEW k \in Key
  PROVE  ValueOK(Seen(s, k)) /\ (Full(s) => NotEmpty(Seen(s, k)))
<1>1. ValueOK(None) /\ NotEmpty(None)
  BY DEF ValueOK, NotEmpty, None
<1> QED BY <1>1 DEF Good, Full, Seen

\* Such a command leaves a server right, and leaves no empty list where there was none.
LEMMA OneGood ==
  ASSUME NEW s, Good(s), NEW k \in Key, NEW t, NEW v, NEW n, One(t, s, k, v, n), Change(Seen(s, k), v, n)
  PROVE  Good(t) /\ (Full(s) => Full(t))
<1>1. ValueOK(t.db[k]) /\ Srv(t)
  BY DEF One, Change
<1>2. \A x \in Key : ValueOK(t.db[x])
  BY <1>1 DEF One, Good
<1>3. \A x \in t.expires : x \in Key /\ x # k /\ x \in s.expires
  BY DEF One, Good, Srv
<1>4. \A x \in t.expires : t.db[x] # None
  BY <1>3 DEF One, Good
<1>5. ASSUME Full(s) PROVE Full(t)
  <2>1. NotEmpty(t.db[k])
    BY <1>5, SeenOK DEF One, Change
  <2> QED BY <1>5, <2>1 DEF Full, One
<1> QED BY <1>1, <1>2, <1>4, <1>5 DEF Good

\* The slave, which is sent the command, follows the master.
LEMMA OneFollows ==
  ASSUME NEW m, NEW s, Good(m), Good(s), m.dirty = 0, s.dirty = 0, \A x \in Key : AgreeAt(m, s, x), NEW k \in Key,
         NEW m2, NEW vm, NEW nm, One(m2, m, k, vm, nm), Change(Seen(m, k), vm, nm),
         NEW s2, NEW vs, NEW ns, One(s2, s, k, vs, ns), Data(vm) = Data(vs)
  PROVE  Followed(m2, s2, s)
<1> SUFFICES ASSUME NEW x \in Key PROVE AgreeAt(m2, IF m2.dirty > 0 THEN s2 ELSE s, x)
  BY DEF Followed
<1>1. nm \in Nat /\ m2.dirty = (IF k \in m.expires THEN 1 ELSE 0) + nm
  BY DEF One
<1>2. AgreeAt(m, s, x)
  OBVIOUS
<1>3. CASE m2.dirty > 0
  <2>1. CASE x = k
    <3>1. m2.db[x] = vm /\ s2.db[x] = vs /\ x \notin m2.expires /\ x \notin s2.expires
      BY <2>1 DEF One
    <3> QED BY <1>3, <3>1 DEF AgreeAt
  <2>2. CASE x # k
    <3>1. /\ m2.db[x] = m.db[x] /\ s2.db[x] = s.db[x]
          /\ x \in m2.expires <=> x \in m.expires
          /\ x \in s2.expires <=> x \in s.expires
      BY <2>2 DEF One
    <3> QED BY <1>2, <1>3, <3>1 DEF AgreeAt
  <2> QED BY <2>1, <2>2
<1>4. CASE ~(m2.dirty > 0)
  <2>1. k \notin m.expires /\ nm = 0
    BY <1>1, <1>4
  <2>2. Data(m2.db[k]) = Data(m.db[k]) /\ Seen(m, k) = m.db[k]
    BY <2>1 DEF One, Change, Seen
  <2>3. m2.expires = m.expires
    BY <2>1 DEF One
  <2>4. Data(m2.db[x]) = Data(m.db[x]) /\ (x \in m2.expires <=> x \in m.expires)
    BY <2>2, <2>3 DEF One
  <2>5. m.db[x] = None => m2.db[x] = None
    BY <2>4, DataAlike
  <2> QED BY <1>2, <1>4, <2>4, <2>5 DEF AgreeAt
<1> QED BY <1>3, <1>4

\* A command that writes one key.
LEMMA OneKeeps ==
  ASSUME KInv, exact, NEW k \in Key,
         NEW m2, NEW vm, NEW nm, One(m2, master, k, vm, nm), Change(Seen(master, k), vm, nm),
         NEW s2, NEW vs, NEW ns, One(s2, slave, k, vs, ns), Change(Seen(slave, k), vs, ns),
         Data(Seen(master, k)) = Data(Seen(slave, k)) => (exact' => Data(vm) = Data(vs)),
         master' = [m2 EXCEPT !.dirty = 0],
         slave' = IF m2.dirty > 0 THEN [s2 EXCEPT !.dirty = 0] ELSE slave,
         outlived' \subseteq Outlived,
         exact' \in BOOLEAN
  PROVE  KInv'
<1>1. /\ Good(master) /\ Good(slave) /\ master.dirty = 0 /\ slave.dirty = 0 /\ Full(master) /\ Full(slave)
      /\ \A x \in Key : AgreeAt(master, slave, x)
  BY DEF KInv
<1>2. Good(m2) /\ Full(m2) /\ Good(s2) /\ Full(s2)
  BY <1>1, OneGood
<1>3. Data(Seen(master, k)) = Data(Seen(slave, k))
  BY <1>1, SeenAlike
<1>4. exact' => Followed(m2, s2, slave)
  BY <1>1, <1>3, OneFollows
<1>5. \A x \in outlived' : Stays(master, m2, x)
  BY <1>1 DEF Stays, One, Good, Srv
<1> QED BY <1>1, <1>2, <1>4, <1>5, Called

-----------------------------------------------------------------------------
(* Lists, and the greater of two numbers *)

ListOK(l) == l \in Seq(ToSet(l))

\* A sequence of anything is one of its own elements.
LEMMA OwnSeq ==
  ASSUME NEW S, NEW l \in Seq(S)
  PROVE  ListOK(l) /\ Len(l) \in Nat /\ DOMAIN l = 1 .. Len(l)
<1>1. Len(l) \in Nat /\ DOMAIN l = 1 .. Len(l) /\ l \in [1 .. Len(l) -> S]
  OBVIOUS
<1>2. l \in [1 .. Len(l) -> ToSet(l)]
  <2>1. \A i \in 1 .. Len(l) : l[i] \in ToSet(l)
    BY <1>1 DEF ToSet
  <2> QED BY <1>1, <2>1
<1>3. l \in Seq(ToSet(l))
  BY <1>1, <1>2
<1> QED BY <1>1, <1>3 DEF ListOK

\* So is a function on 1 .. n.
LEMMA FunctionSeq ==
  ASSUME NEW n \in Nat, NEW l, l = [i \in 1 .. n |-> l[i]]
  PROVE  ListOK(l) /\ Len(l) = n
<1> DEFINE S == {l[i] : i \in 1 .. n}
<1>1. l \in [1 .. n -> S]
  OBVIOUS
<1>2. l \in Seq(S) /\ Len(l) = n
  BY <1>1
<1> QED BY <1>2, OwnSeq

\* What is done to lists gives lists.
LEMMA ListGrows ==
  ASSUME NEW l, ListOK(l), NEW e
  PROVE  ListOK(Append(l, e)) /\ Append(l, e) # << >> /\ ListOK(<<e>> \o l) /\ <<e>> \o l # << >>
<1> DEFINE S == ToSet(l) \cup {e}
<1>1. l \in Seq(S) /\ <<e>> \in Seq(S)
  <2>1. l \in Seq(ToSet(l))
    BY DEF ListOK
  <2>2. Len(l) \in Nat /\ l \in [1 .. Len(l) -> ToSet(l)]
    BY <2>1
  <2> HIDE DEF S
  <2>3. l \in [1 .. Len(l) -> S]
    BY <2>2 DEF S
  <2> QED BY <2>2, <2>3 DEF S
<1>2. Append(l, e) \in Seq(S) /\ Len(Append(l, e)) = Len(l) + 1 /\ Len(l) \in Nat
  BY <1>1
<1>3. <<e>> \o l \in Seq(S) /\ Len(<<e>> \o l) = 1 + Len(l)
  <2> HIDE DEF S
  <2> QED BY <1>1
<1>4. Append(l, e) # << >> /\ <<e>> \o l # << >>
  BY <1>2, <1>3
<1> QED BY <1>2, <1>3, <1>4, OwnSeq

\* A list without its first or its last element.
LEMMA ListShrinks ==
  ASSUME NEW l, ListOK(l), l # << >>
  PROVE  /\ ListOK(Tail(l)) /\ ListOK(Front(l))
         /\ Len(l) \in Nat \ {0} /\ Len(Tail(l)) = Len(l) - 1 /\ Len(Front(l)) = Len(l) - 1
<1> DEFINE S == ToSet(l)
<1>1. l \in Seq(S)
  BY DEF ListOK
<1> HIDE DEF S
<1>2. Len(l) \in Nat \ {0}
  BY <1>1, EmptySeq
<1>3. Tail(l) \in Seq(S) /\ Len(Tail(l)) = Len(l) - 1
  BY <1>1
<1>4. Front(l) \in Seq(S) /\ Len(Front(l)) = Len(l) - 1
  <2> DEFINE n == Len(l) - 1
  <2>1. Front(l) = SubSeq(l, 1, n)
    BY DEF Front
  <2>2. n \in Nat /\ Len(l) = n + 1
    BY <1>2
  <2> HIDE DEF n
  <2>3. \A i \in 1 .. n : l[i] \in S
    BY <1>1, <2>2
  <2>4. SubSeq(l, 1, n) \in Seq(S) /\ Len(SubSeq(l, 1, n)) = IF 1 <= n THEN n - 1 + 1 ELSE 0
    BY ONLY <2>2, <2>3, SubSeqProperties
  <2>5. Len(SubSeq(l, 1, n)) = n
    BY <2>2, <2>4
  <2> QED BY <2>1, <2>4, <2>5 DEF n
<1> QED BY <1>2, <1>3, <1>4, OwnSeq

\* An element of a list is set.
LEMMA ListSet ==
  ASSUME NEW l, ListOK(l), NEW i \in DOMAIN l, NEW e
  PROVE  ListOK([l EXCEPT ![i] = e]) /\ [l EXCEPT ![i] = e] # << >>
<1> DEFINE t == [l EXCEPT ![i] = e]
<1>1. Len(l) \in Nat /\ DOMAIN l = 1 .. Len(l) /\ l = [j \in 1 .. Len(l) |-> l[j]]
  <2>1. l \in Seq(ToSet(l))
    BY DEF ListOK
  <2> QED BY <2>1
<1>2. t = [j \in 1 .. Len(l) |-> IF j = i THEN e ELSE l[j]]
  BY <1>1
<1>3. t = [j \in 1 .. Len(l) |-> t[j]]
  BY <1>2
<1>4. ListOK(t) /\ Len(t) = Len(l)
  BY ONLY <1>1, <1>3, FunctionSeq
<1>5. Len(l) # 0
  BY <1>1
<1>6. t # << >>
  <2> HIDE DEF t
  <2> QED BY <1>4, <1>5
<1> QED BY <1>4, <1>6

\* The greater and the smaller of two numbers.
LEMMA MaxTwo ==
  ASSUME NEW a \in Int, NEW b \in Int
  PROVE  Max({a, b}) = IF a >= b THEN a ELSE b
<1> DEFINE g == IF a >= b THEN a ELSE b
<1>1. g \in {a, b} /\ \A y \in {a, b} : g >= y
  OBVIOUS
<1>2. \A x \in {a, b} : (\A y \in {a, b} : x >= y) => x = g
  OBVIOUS
<1> HIDE DEF g
<1> QED BY <1>1, <1>2 DEF Max, g

\* The smaller of two numbers.
LEMMA MinTwo ==
  ASSUME NEW a \in Int, NEW b \in Int
  PROVE  Min({a, b}) = IF a <= b THEN a ELSE b
<1> DEFINE g == IF a <= b THEN a ELSE b
<1>1. g \in {a, b} /\ \A y \in {a, b} : g <= y
  OBVIOUS
<1>2. \A x \in {a, b} : (\A y \in {a, b} : x <= y) => x = g
  OBVIOUS
<1> HIDE DEF g
<1> QED BY <1>1, <1>2 DEF Min, g

\* A part of a list.
LEMMA ListPart ==
  ASSUME NEW l, ListOK(l), NEW a \in Int, NEW b \in Int, a >= 1, b <= Len(l)
  PROVE  ListOK(SubSeq(l, a, b)) /\ Len(SubSeq(l, a, b)) \in Nat
<1>1. l \in Seq(ToSet(l))
  BY DEF ListOK
<1>2. SubSeq(l, a, b) \in Seq(ToSet(l))
  BY <1>1
<1> QED BY <1>2, OwnSeq

\* A list without the elements at some places.
LEMMA ListWithout ==
  ASSUME NEW l, ListOK(l), NEW places \in SUBSET DOMAIN l
  PROVE  /\ ListOK(Without(l, places))
         /\ Len(l) - Len(Without(l, places)) \in Nat
         /\ Len(Without(l, places)) = Len(l) => Without(l, places) = l
<1>1. /\ Len(l) \in Nat /\ DOMAIN l = 1 .. Len(l) /\ l = [i \in 1 .. Len(l) |-> l[i]]
  <2>1. l \in Seq(ToSet(l))
    BY DEF ListOK
  <2> QED BY <2>1
<1>2. IsFiniteSet(1 .. Len(l)) /\ Cardinality(1 .. Len(l)) = Len(l)
  BY <1>1, FS_Interval
<1>3. IsFiniteSet(places) /\ Cardinality(places) \in Nat /\ Cardinality(places) <= Len(l)
  BY <1>1, <1>2, FS_Subset, FS_CardinalityType
<1> DEFINE n == Len(l) - Cardinality(places)
           w == Without(l, places)
<1>4. n \in Nat /\ w = [i \in 1 .. n |-> w[i]]
  BY <1>1, <1>3 DEF Without
<1>5. ListOK(w) /\ Len(w) = n
  <2> HIDE DEF n, w
  <2> QED BY <1>4, FunctionSeq
<1>6. ASSUME Len(w) = Len(l) PROVE w = l
  <2>1. Cardinality(places) = 0
    BY <1>1, <1>3, <1>5, <1>6
  <2>2. places = {}
    BY <1>3, <2>1, FS_EmptySet
  <2>3. \A i \in 1 .. Len(l) : Cardinality((1 .. i) \ places) = i
    <3> TAKE i \in 1 .. Len(l)
    <3>1. (1 .. i) \ places = 1 .. i /\ i \in Nat
      BY <1>1, <2>2
    <3>2. Cardinality(1 .. i) = i
      BY <3>1, FS_Interval
    <3> QED BY <3>1, <3>2
  <2>4. DOMAIN l \ places = 1 .. Len(l) /\ n = Len(l)
    BY <1>1, <2>1, <2>2
  <2> DEFINE at(j) == CHOOSE i \in DOMAIN l \ places : Cardinality((1 .. i) \ places) = j
  <2>5. \A j \in 1 .. Len(l) : at(j) = j
    BY <2>3, <2>4
  <2>6. w = [j \in 1 .. Len(l) |-> l[at(j)]]
    BY <2>4 DEF Without
  <2> HIDE DEF w, at
  <2>7. w = [j \in 1 .. Len(l) |-> l[j]]
    BY <2>5, <2>6
  <2> QED BY <1>1, <2>7
<1>7. Len(l) - Len(w) \in Nat
  BY <1>1, <1>3, <1>5
<1> QED BY <1>5, <1>6, <1>7

\* A list from its end to its start.
LEMMA ListReversed ==
  ASSUME NEW l, ListOK(l)
  PROVE  ListOK(Reverse(l)) /\ Len(Reverse(l)) = Len(l) /\ Len(l) \in Nat /\ Reverse(Reverse(l)) = l
<1> DEFINE r == Reverse(l)
<1>1. Len(l) \in Nat /\ l = [i \in 1 .. Len(l) |-> l[i]]
  <2>1. l \in Seq(ToSet(l))
    BY DEF ListOK
  <2> QED BY <2>1
<1>2. r = [i \in 1 .. Len(l) |-> l[(Len(l) - i) + 1]]
  BY DEF Reverse
<1>3. r = [i \in 1 .. Len(l) |-> r[i]]
  BY <1>2
<1>4. ListOK(r) /\ Len(r) = Len(l)
  <2> HIDE DEF r
  <2> QED BY <1>1, <1>3, FunctionSeq
<1>5. Reverse(r) = [i \in 1 .. Len(l) |-> r[(Len(l) - i) + 1]]
  <2> HIDE DEF r
  <2> QED BY <1>4 DEF Reverse
<1>6. \A i \in 1 .. Len(l) : r[(Len(l) - i) + 1] = l[i]
  <2> TAKE i \in 1 .. Len(l)
  <2>1. (Len(l) - i) + 1 \in 1 .. Len(l) /\ (Len(l) - ((Len(l) - i) + 1)) + 1 = i
    BY <1>1
  <2> HIDE DEF r
  <2> QED BY <1>2, <2>1
<1>7. Reverse(r) = [i \in 1 .. Len(l) |-> l[i]]
  <2> HIDE DEF r
  <2> QED BY <1>5, <1>6
<1> QED BY <1>1, <1>4, <1>7

-----------------------------------------------------------------------------
(* Commands that write one key and are no commands on hashes *)

\* What is there when a value has been put, or the key deleted.
Left(v) == IF Size(v) = 0 THEN None ELSE v

\* The ways in which such a command ends.
LEMMA Written ==
  ASSUME NEW s0, Srv(s0), NEW k \in Key, NEW s, s = lookupKeyWrite(s0, k)
  PROVE  /\ s.db[k] = Seen(s0, k)
         /\ One(s, s0, k, Seen(s0, k), 0)
         /\ \A v : One(Put(s, k, v), s0, k, v, 0)
         /\ \A v, n : n \in Nat => One(Dirty(Put(s, k, v), n), s0, k, v, n)
         /\ \A v, n : n \in Nat => One(Dirty(PutOrDelete(s, k, v), n), s0, k, Left(v), n)
<1>1. /\ Srv(s) /\ s.expires = s0.expires \ {k} /\ s.db[k] = Seen(s0, k) /\ s0.dirty \in Nat
      /\ s.dirty = s0.dirty + IF k \in s0.expires THEN 1 ELSE 0
      /\ \A x \in Key : x # k => s.db[x] = s0.db[x]
  BY WriteIs DEF Srv
<1>2. One(s, s0, k, Seen(s0, k), 0)
  BY <1>1 DEF One
<1>3. ASSUME NEW v PROVE One(Put(s, k, v), s0, k, v, 0)
  <2> DEFINE t == Put(s, k, v)
  <2>1. /\ Srv(t) /\ t.expires = s.expires /\ t.dirty = s.dirty /\ t.db[k] = v
        /\ \A x \in Key : x # k => t.db[x] = s.db[x]
    BY <1>1, PutIs
  <2> HIDE DEF t
  <2>2. s.dirty \in Nat /\ t.dirty = s0.dirty + (IF k \in s0.expires THEN 1 ELSE 0) + 0
    BY <1>1, <2>1
  <2>3. One(t, s0, k, v, 0)
    BY <1>1, <2>1, <2>2 DEF One
  <2> QED BY <2>3 DEF t
<1>4. ASSUME NEW v, NEW n \in Nat PROVE One(Dirty(Put(s, k, v), n), s0, k, v, n)
  <2> DEFINE t == Put(s, k, v)
             u == Dirty(t, n)
  <2>1. Srv(t) /\ t.expires = s0.expires \ {k} /\ t.db[k] = v /\ t.dirty = s0.dirty + (IF k \in s0.expires THEN 1 ELSE 0) + 0
        /\ \A x \in Key : x # k => t.db[x] = s0.db[x]
    BY <1>3 DEF One
  <2> HIDE DEF t
  <2>2. Srv(u) /\ u.expires = t.expires /\ u.dirty = t.dirty + n /\ u.db = t.db
    BY <2>1, DirtyIs
  <2> HIDE DEF u
  <2>3. One(u, s0, k, v, n)
    BY <1>1, <2>1, <2>2 DEF One
  <2> QED BY <2>3 DEF t, u
<1>5. ASSUME NEW v, NEW n \in Nat PROVE One(Dirty(PutOrDelete(s, k, v), n), s0, k, Left(v), n)
  <2> DEFINE t == PutOrDelete(s, k, v)
             u == Dirty(t, n)
  <2>1. /\ Srv(t) /\ t.expires = (IF Size(v) = 0 THEN s.expires \ {k} ELSE s.expires)
        /\ t.dirty = s.dirty /\ t.db[k] = IF Size(v) = 0 THEN None ELSE v
        /\ \A x \in Key : x # k => t.db[x] = s.db[x]
    <3>1. CASE Size(v) = 0
      <4>1. t = deleteKey(s, k)
        BY <3>1 DEF PutOrDelete
      <4> HIDE DEF t
      <4> QED BY <1>1, <3>1, <4>1, DeleteIs
    <3>2. CASE Size(v) # 0
      <4>1. t = Put(s, k, v)
        BY <3>2 DEF PutOrDelete
      <4> HIDE DEF t
      <4> QED BY <1>1, <3>2, <4>1, PutIs
    <3> QED BY <3>1, <3>2
  <2>2. t.expires = s0.expires \ {k} /\ t.db[k] = Left(v)
    BY <1>1, <2>1 DEF Left
  <2> HIDE DEF t
  <2>3. Srv(u) /\ u.expires = t.expires /\ u.dirty = t.dirty + n /\ u.db = t.db
    BY <2>1, DirtyIs
  <2> HIDE DEF u
  <2>4. One(u, s0, k, Left(v), n)
    BY <1>1, <2>1, <2>2, <2>3 DEF One
  <2> QED BY <2>4 DEF t, u
<1> QED BY <1>1, <1>2, <1>3, <1>4, <1>5

\* v becomes w, which is found as n changes; hashes stay.
Plain(v, w, n) == Change(v, w, n) /\ (v[1] = "hash" => w = v)

\* A command that is not about hashes makes of what it finds the same on both sides.
LEMMA PlainKeeps ==
  ASSUME KInv, exact, NEW k \in Key,
         NEW m2, NEW vm, NEW nm, One(m2, master, k, vm, nm), Plain(Seen(master, k), vm, nm),
         NEW s2, NEW vs, NEW ns, One(s2, slave, k, vs, ns), Plain(Seen(slave, k), vs, ns),
         Seen(master, k) = Seen(slave, k) => (exact' => vm = vs),
         master' = [m2 EXCEPT !.dirty = 0],
         slave' = IF m2.dirty > 0 THEN [s2 EXCEPT !.dirty = 0] ELSE slave,
         outlived' \subseteq Outlived,
         exact' \in BOOLEAN
  PROVE  KInv'
<1>1. ASSUME Data(Seen(master, k)) = Data(Seen(slave, k)), exact' PROVE Data(vm) = Data(vs)
  <2>1. CASE Seen(master, k)[1] = "hash"
    BY <1>1, <2>1, DataAlike DEF Plain
  <2>2. CASE Seen(master, k)[1] # "hash"
    BY <1>1, <2>2, DataAlike
  <2> QED BY <2>1, <2>2
<1>2. Change(Seen(master, k), vm, nm) /\ Change(Seen(slave, k), vs, ns)
  BY DEF Plain
<1> QED BY <1>1, <1>2, OneKeeps

\* Nothing changes.
LEMMA SameIsPlain ==
  ASSUME NEW v, ValueOK(v)
  PROVE  Plain(v, v, 0)
BY DEF Plain, Change

-----------------------------------------------------------------------------
(* APPEND and INCR *)

AppendV(v, w) == IF v = None THEN String(w) ELSE IF v[1] # "string" THEN v ELSE String(v[2] \o w)
AppendN(v) == IF v # None /\ v[1] # "string" THEN 0 ELSE 1

\* APPEND.
LEMMA AppendOne ==
  ASSUME NEW s, Good(s), NEW k \in Key, NEW w
  PROVE  LET v == Seen(s, k)
         IN  One(appendCommand(s, k, w), s, k, AppendV(v, w), AppendN(v)) /\ Plain(v, AppendV(v, w), AppendN(v))
<1> DEFINE t == lookupKeyWrite(s, k)
           v == Seen(s, k)
<1>1. ValueOK(v) /\ Srv(s)
  BY SeenOK DEF Good
<1> HIDE DEF t
<1>2. t = lookupKeyWrite(s, k)
  BY DEF t
<1>3. /\ t.db[k] = v /\ One(t, s, k, v, 0) /\ \A w2 : One(Dirty(Put(t, k, w2), 1), s, k, w2, 1)
  BY ONLY <1>1, <1>2, Written, k \in Key
<1>4. appendCommand(s, k, w) = IF v = None THEN Dirty(Put(t, k, String(w)), 1)
                               ELSE IF v[1] # "string" THEN t ELSE Dirty(Put(t, k, String(v[2] \o w)), 1)
  BY <1>3 DEF appendCommand, Missing, Is, Type, Val, t
<1> HIDE DEF v
<1>5. One(appendCommand(s, k, w), s, k, AppendV(v, w), AppendN(v))
  BY <1>3, <1>4 DEF AppendV, AppendN, None
<1>6. Plain(v, AppendV(v, w), AppendN(v))
  BY <1>1 DEF AppendV, AppendN, Plain, Change, ValueOK, NotEmpty, String, None
<1> QED BY <1>5, <1>6 DEF v

\* APPEND keeps the invariant.
LEMMA AppendKeeps ==
  ASSUME KInv, exact, append
  PROVE  KInv'
<1> PICK k \in Key, w \in Elem : Call(LAMBDA s : appendCommand(s, k, w))
  BY DEF append
<1> DEFINE m2 == appendCommand(master, k, w)
           s2 == appendCommand(slave, k, w)
<1>1. /\ master' = [m2 EXCEPT !.dirty = 0] /\ slave' = IF m2.dirty > 0 THEN [s2 EXCEPT !.dirty = 0] ELSE slave
      /\ outlived' \subseteq Outlived
      /\ exact' = exact /\ exact' \in BOOLEAN
  BY DEF Call, Call2, Propagated, KInv
<1>2. /\ One(m2, master, k, AppendV(Seen(master, k), w), AppendN(Seen(master, k)))
      /\ Plain(Seen(master, k), AppendV(Seen(master, k), w), AppendN(Seen(master, k)))
      /\ One(s2, slave, k, AppendV(Seen(slave, k), w), AppendN(Seen(slave, k)))
      /\ Plain(Seen(slave, k), AppendV(Seen(slave, k), w), AppendN(Seen(slave, k)))
  BY AppendOne DEF KInv
<1> HIDE DEF m2, s2
<1> QED BY <1>1, <1>2, PlainKeeps

\* The values of a type, and what is left of them.
LEMMA Kinds ==
  ASSUME NEW v, ValueOK(v)
  PROVE  /\ v[1] = "list" => v = List(v[2]) /\ ListOK(v[2])
         /\ v[1] = "set" => v = Set(v[2]) /\ IsFiniteSet(v[2]) /\ v[2] # {}
         /\ v[1] = "zset" => v = ZSet(v[2]) /\ IsFiniteSet(v[2]) /\ v[2] # {}
                              /\ \A p, q \in v[2] : p = <<p[1], p[2]>> /\ (p[1] = q[1] => p = q)
         /\ v = None => v[1] = "none"
         /\ v # None => v[1] \in {"string", "list", "set", "zset", "hash"}
BY DEF ValueOK, ListOK, None, List, Set, ZSet

\* A list is a value, and when it is empty the key goes.
LEMMA ListValue ==
  ASSUME NEW l, ListOK(l)
  PROVE  /\ ValueOK(List(l)) /\ List(l)[1] = "list" /\ List(l)[2] = l
         /\ ValueOK(Left(List(l))) /\ NotEmpty(Left(List(l)))
         /\ Left(List(l)) = IF l = << >> THEN None ELSE List(l)
<1>1. ValueOK(List(l)) /\ List(l)[1] = "list" /\ List(l)[2] = l
  BY DEF ValueOK, List, ListOK
<1>2. Size(List(l)) = Len(l)
  BY DEF Size, List
<1>3. Len(l) = 0 <=> l = << >>
  BY EmptySeq DEF ListOK
<1>4. ValueOK(None) /\ NotEmpty(None)
  BY DEF ValueOK, NotEmpty, None
<1> HIDE DEF List
<1> QED BY <1>1, <1>2, <1>3, <1>4 DEF Left, NotEmpty

\* A set is a value, and when it is empty the key goes.
LEMMA SetValue ==
  ASSUME NEW S, IsFiniteSet(S)
  PROVE  /\ S # {} => ValueOK(Set(S))
         /\ ValueOK(Left(Set(S))) /\ NotEmpty(Left(Set(S))) /\ NotEmpty(Set(S))
         /\ Left(Set(S)) = IF S = {} THEN None ELSE Set(S)
<1>1. (S # {} => ValueOK(Set(S))) /\ NotEmpty(Set(S))
  BY DEF ValueOK, Set, NotEmpty
<1>2. Size(Set(S)) = Cardinality(S)
  BY DEF Size, Set
<1>3. Cardinality(S) = 0 <=> S = {}
  BY FS_EmptySet
<1>4. ValueOK(None) /\ NotEmpty(None)
  BY DEF ValueOK, NotEmpty, None
<1> QED BY <1>1, <1>2, <1>3, <1>4 DEF Left

\* A sorted set is a value, and when it is empty the key goes.
LEMMA ZSetValue ==
  ASSUME NEW S, IsFiniteSet(S), \A p, q \in S : p = <<p[1], p[2]>> /\ (p[1] = q[1] => p = q)
  PROVE  /\ S # {} => ValueOK(ZSet(S))
         /\ ValueOK(Left(ZSet(S))) /\ NotEmpty(Left(ZSet(S))) /\ NotEmpty(ZSet(S))
         /\ Left(ZSet(S)) = IF S = {} THEN None ELSE ZSet(S)
<1>1. (S # {} => ValueOK(ZSet(S))) /\ NotEmpty(ZSet(S))
  BY DEF ValueOK, ZSet, NotEmpty
<1>2. Size(ZSet(S)) = Cardinality(S)
  BY DEF Size, ZSet
<1>3. Cardinality(S) = 0 <=> S = {}
  BY FS_EmptySet
<1>4. ValueOK(None) /\ NotEmpty(None)
  BY DEF ValueOK, NotEmpty, None
<1> QED BY <1>1, <1>2, <1>3, <1>4 DEF Left

-----------------------------------------------------------------------------
(* Commands on strings and lists *)

IncrV(v, incr) ==
  LET value == IF v = None THEN 0 ELSE Number(v[2])
  IN  IF (v # None /\ (v[1] # "string" \/ ~IsNumber(v[2]))) \/ NumberText(value + incr) = {} THEN v
      ELSE String(CHOOSE t \in NumberText(value + incr) : TRUE)
IncrN(v, incr) ==
  LET value == IF v = None THEN 0 ELSE Number(v[2])
  IN  IF (v # None /\ (v[1] # "string" \/ ~IsNumber(v[2]))) \/ NumberText(value + incr) = {} THEN 0 ELSE 1

\* INCR and its like.
LEMMA IncrOne ==
  ASSUME NEW s, Good(s), NEW k \in Key, NEW incr
  PROVE  LET v == Seen(s, k)
         IN  One(incrDecrCommand(s, k, incr), s, k, IncrV(v, incr), IncrN(v, incr)) /\ Plain(v, IncrV(v, incr), IncrN(v, incr))
<1> DEFINE t == lookupKeyWrite(s, k)
           v == Seen(s, k)
<1>1. ValueOK(v) /\ Srv(s)
  BY SeenOK DEF Good
<1> HIDE DEF t
<1>2. t = lookupKeyWrite(s, k)
  BY DEF t
<1>3. /\ t.db[k] = v /\ One(t, s, k, v, 0)
      /\ \A w, n : n \in Nat => One(Dirty(Put(t, k, w), n), s, k, w, n)
      /\ \A w, n : n \in Nat => One(Dirty(PutOrDelete(t, k, w), n), s, k, Left(w), n)
  BY ONLY <1>1, <1>2, Written, k \in Key
<1>4. incrDecrCommand(s, k, incr) = IF IncrN(v, incr) = 0 THEN t ELSE Dirty(Put(t, k, IncrV(v, incr)), 1)
  BY <1>3 DEF incrDecrCommand, Missing, Is, Type, Val, t, IncrV, IncrN
<1> HIDE DEF v
<1>5. One(incrDecrCommand(s, k, incr), s, k, IncrV(v, incr), IncrN(v, incr))
  <2>1. IncrN(v, incr) \in {0, 1} /\ (IncrN(v, incr) = 0 => IncrV(v, incr) = v)
    BY DEF IncrN, IncrV
  <2> QED BY <1>3, <1>4, <2>1
<1>6. Plain(v, IncrV(v, incr), IncrN(v, incr))
  <2>1. CASE IncrN(v, incr) = 0
    <3>1. IncrV(v, incr) = v
      BY <2>1 DEF IncrN, IncrV
    <3> QED BY <1>1, <2>1, <3>1, SameIsPlain
  <2>2. CASE IncrN(v, incr) # 0
    <3>1. IncrN(v, incr) = 1 /\ v[1] # "hash" /\ IncrV(v, incr)[1] = "string"
      BY <2>2 DEF IncrN, IncrV, None, String
    <3> HIDE DEF IncrV
    <3> QED BY <3>1 DEF Plain, Change, ValueOK, NotEmpty
  <2> QED BY <2>1, <2>2
<1> QED BY <1>5, <1>6 DEF v

\* INCR and its like keep the invariant.
LEMMA IncrKeeps ==
  ASSUME KInv, exact, incrCommands
  PROVE  KInv'
<1> PICK k \in Key, incr \in {1, 10} : Call(LAMBDA s : incrDecrCommand(s, k, incr))
  BY DEF incrCommands
<1> DEFINE m2 == incrDecrCommand(master, k, incr)
           s2 == incrDecrCommand(slave, k, incr)
<1>1. /\ master' = [m2 EXCEPT !.dirty = 0] /\ slave' = IF m2.dirty > 0 THEN [s2 EXCEPT !.dirty = 0] ELSE slave
      /\ outlived' \subseteq Outlived
      /\ exact' = exact /\ exact' \in BOOLEAN
  BY DEF Call, Call2, Propagated, KInv
<1>2. /\ One(m2, master, k, IncrV(Seen(master, k), incr), IncrN(Seen(master, k), incr))
      /\ Plain(Seen(master, k), IncrV(Seen(master, k), incr), IncrN(Seen(master, k), incr))
      /\ One(s2, slave, k, IncrV(Seen(slave, k), incr), IncrN(Seen(slave, k), incr))
      /\ Plain(Seen(slave, k), IncrV(Seen(slave, k), incr), IncrN(Seen(slave, k), incr))
  BY IncrOne DEF KInv
<1> HIDE DEF m2, s2
<1> QED BY <1>1, <1>2, PlainKeeps

PushL(v) == IF v = None THEN << >> ELSE v[2]
PushV(v, e, where) ==
  IF v # None /\ v[1] # "list" THEN v
  ELSE List(IF where = "head" THEN <<e>> \o PushL(v) ELSE Append(PushL(v), e))
PushN(v) == IF v # None /\ v[1] # "list" THEN 0 ELSE 1

\* LPUSH and RPUSH.
LEMMA PushOne ==
  ASSUME NEW s, Good(s), NEW k \in Key, NEW e, NEW where
  PROVE  LET v == Seen(s, k)
         IN  One(pushGenericCommand(s, k, e, where), s, k, PushV(v, e, where), PushN(v)) /\ Plain(v, PushV(v, e, where), PushN(v))
<1> DEFINE t == lookupKeyWrite(s, k)
           v == Seen(s, k)
<1>1. ValueOK(v) /\ Srv(s)
  BY SeenOK DEF Good
<1> HIDE DEF t
<1>2. t = lookupKeyWrite(s, k)
  BY DEF t
<1>3. /\ t.db[k] = v /\ One(t, s, k, v, 0)
      /\ \A w, n : n \in Nat => One(Dirty(Put(t, k, w), n), s, k, w, n)
      /\ \A w, n : n \in Nat => One(Dirty(PutOrDelete(t, k, w), n), s, k, Left(w), n)
  BY ONLY <1>1, <1>2, Written, k \in Key
<1>4. pushGenericCommand(s, k, e, where) = IF PushN(v) = 0 THEN t ELSE Dirty(Put(t, k, PushV(v, e, where)), 1)
  BY <1>3 DEF pushGenericCommand, Missing, Is, Type, Val, t, PushV, PushN, PushL
<1> HIDE DEF v
<1>5. One(pushGenericCommand(s, k, e, where), s, k, PushV(v, e, where), PushN(v))
  <2>1. PushN(v) \in {0, 1} /\ (PushN(v) = 0 => PushV(v, e, where) = v)
    BY DEF PushN, PushV
  <2> QED BY <1>3, <1>4, <2>1
<1>6. Plain(v, PushV(v, e, where), PushN(v))
  <2>1. CASE v # None /\ v[1] # "list"
    <3>1. PushV(v, e, where) = v /\ PushN(v) = 0
      BY <2>1 DEF PushV, PushN
    <3> QED BY <1>1, <3>1, SameIsPlain
  <2>2. CASE ~(v # None /\ v[1] # "list")
    <3> DEFINE l == IF where = "head" THEN <<e>> \o PushL(v) ELSE Append(PushL(v), e)
    <3>1. ListOK(PushL(v)) /\ v[1] # "hash"
      <4>1. ListOK(<< >>)
        BY DEF ListOK
      <4> QED BY <1>1, <2>2, <4>1, Kinds DEF PushL
    <3>2. ListOK(l) /\ l # << >>
      BY <3>1, ListGrows
    <3>3. PushV(v, e, where) = List(l) /\ PushN(v) = 1
      BY <2>2 DEF PushV, PushN
    <3> HIDE DEF l
    <3> QED BY <3>1, <3>2, <3>3, ListValue DEF Plain, Change, NotEmpty
  <2> QED BY <2>1, <2>2
<1> QED BY <1>5, <1>6 DEF v

\* LPUSH and RPUSH keep the invariant.
LEMMA PushKeeps ==
  ASSUME KInv, exact, pushCommands
  PROVE  KInv'
<1> PICK k \in Key, e \in Elem, where \in {"head", "tail"} : Call(LAMBDA s : pushGenericCommand(s, k, e, where))
  BY DEF pushCommands
<1> DEFINE m2 == pushGenericCommand(master, k, e, where)
           s2 == pushGenericCommand(slave, k, e, where)
<1>1. /\ master' = [m2 EXCEPT !.dirty = 0] /\ slave' = IF m2.dirty > 0 THEN [s2 EXCEPT !.dirty = 0] ELSE slave
      /\ outlived' \subseteq Outlived
      /\ exact' = exact /\ exact' \in BOOLEAN
  BY DEF Call, Call2, Propagated, KInv
<1>2. /\ One(m2, master, k, PushV(Seen(master, k), e, where), PushN(Seen(master, k)))
      /\ Plain(Seen(master, k), PushV(Seen(master, k), e, where), PushN(Seen(master, k)))
      /\ One(s2, slave, k, PushV(Seen(slave, k), e, where), PushN(Seen(slave, k)))
      /\ Plain(Seen(slave, k), PushV(Seen(slave, k), e, where), PushN(Seen(slave, k)))
  BY PushOne DEF KInv
<1> HIDE DEF m2, s2
<1> QED BY <1>1, <1>2, PlainKeeps

PopV(v, where) ==
  IF v[1] # "list" \/ v[2] = << >> THEN v ELSE Left(List(IF where = "head" THEN Tail(v[2]) ELSE Front(v[2])))
PopN(v) == IF v[1] # "list" \/ v[2] = << >> THEN 0 ELSE 1

\* LPOP and RPOP.
LEMMA PopOne ==
  ASSUME NEW s, Good(s), NEW k \in Key, NEW where
  PROVE  LET v == Seen(s, k)
         IN  One(popGenericCommand(s, k, where), s, k, PopV(v, where), PopN(v)) /\ Plain(v, PopV(v, where), PopN(v))
<1> DEFINE t == lookupKeyWrite(s, k)
           v == Seen(s, k)
<1>1. ValueOK(v) /\ Srv(s)
  BY SeenOK DEF Good
<1> HIDE DEF t
<1>2. t = lookupKeyWrite(s, k)
  BY DEF t
<1>3. /\ t.db[k] = v /\ One(t, s, k, v, 0)
      /\ \A w, n : n \in Nat => One(Dirty(Put(t, k, w), n), s, k, w, n)
      /\ \A w, n : n \in Nat => One(Dirty(PutOrDelete(t, k, w), n), s, k, Left(w), n)
  BY ONLY <1>1, <1>2, Written, k \in Key
<1>4. popGenericCommand(s, k, where) = IF v[1] # "list" \/ v[2] = << >> THEN t
                                  ELSE Dirty(PutOrDelete(t, k, List(IF where = "head" THEN Tail(v[2]) ELSE Front(v[2]))), 1)
  BY <1>3 DEF popGenericCommand, Missing, Is, Type, Val, t
<1> HIDE DEF v
<1>5. One(popGenericCommand(s, k, where), s, k, PopV(v, where), PopN(v))
  BY <1>3, <1>4 DEF PopV, PopN
<1>6. Plain(v, PopV(v, where), PopN(v))
  <2>1. CASE v[1] # "list" \/ v[2] = << >>
    <3>1. PopV(v, where) = v /\ PopN(v) = 0
      BY <2>1 DEF PopV, PopN
    <3> QED BY <1>1, <3>1, SameIsPlain
  <2>2. CASE ~(v[1] # "list" \/ v[2] = << >>)
    <3> DEFINE l == IF where = "head" THEN Tail(v[2]) ELSE Front(v[2])
    <3>1. ListOK(l)
      BY <1>1, <2>2, Kinds, ListShrinks
    <3>2. PopV(v, where) = Left(List(l)) /\ PopN(v) = 1 /\ v[1] # "hash"
      BY <2>2 DEF PopV, PopN
    <3> HIDE DEF l
    <3> QED BY <3>1, <3>2, ListValue DEF Plain, Change
  <2> QED BY <2>1, <2>2
<1> QED BY <1>5, <1>6 DEF v

\* LPOP and RPOP keep the invariant.
LEMMA PopKeeps ==
  ASSUME KInv, exact, popCommands
  PROVE  KInv'
<1> PICK k \in Key, where \in {"head", "tail"} : Call(LAMBDA s : popGenericCommand(s, k, where))
  BY DEF popCommands
<1> DEFINE m2 == popGenericCommand(master, k, where)
           s2 == popGenericCommand(slave, k, where)
<1>1. /\ master' = [m2 EXCEPT !.dirty = 0] /\ slave' = IF m2.dirty > 0 THEN [s2 EXCEPT !.dirty = 0] ELSE slave
      /\ outlived' \subseteq Outlived
      /\ exact' = exact /\ exact' \in BOOLEAN
  BY DEF Call, Call2, Propagated, KInv
<1>2. /\ One(m2, master, k, PopV(Seen(master, k), where), PopN(Seen(master, k)))
      /\ Plain(Seen(master, k), PopV(Seen(master, k), where), PopN(Seen(master, k)))
      /\ One(s2, slave, k, PopV(Seen(slave, k), where), PopN(Seen(slave, k)))
      /\ Plain(Seen(slave, k), PopV(Seen(slave, k), where), PopN(Seen(slave, k)))
  BY PopOne DEF KInv
<1> HIDE DEF m2, s2
<1> QED BY <1>1, <1>2, PlainKeeps

LsetN(v, i) == IF v[1] # "list" \/ IndexOf(v[2], i) \notin DOMAIN v[2] THEN 0 ELSE 1
LsetV(v, i, e) == IF LsetN(v, i) = 0 THEN v ELSE List([v[2] EXCEPT ![IndexOf(v[2], i)] = e])

\* LSET.
LEMMA LsetOne ==
  ASSUME NEW s, Good(s), NEW k \in Key, NEW i, NEW e
  PROVE  LET v == Seen(s, k)
         IN  One(lsetCommand(s, k, i, e), s, k, LsetV(v, i, e), LsetN(v, i)) /\ Plain(v, LsetV(v, i, e), LsetN(v, i))
<1> DEFINE t == lookupKeyWrite(s, k)
           v == Seen(s, k)
<1>1. ValueOK(v) /\ Srv(s)
  BY SeenOK DEF Good
<1> HIDE DEF t
<1>2. t = lookupKeyWrite(s, k)
  BY DEF t
<1>3. /\ t.db[k] = v /\ One(t, s, k, v, 0)
      /\ \A w, n : n \in Nat => One(Dirty(Put(t, k, w), n), s, k, w, n)
      /\ \A w, n : n \in Nat => One(Dirty(PutOrDelete(t, k, w), n), s, k, Left(w), n)
  BY ONLY <1>1, <1>2, Written, k \in Key
<1>4. lsetCommand(s, k, i, e) = IF LsetN(v, i) = 0 THEN t ELSE Dirty(Put(t, k, LsetV(v, i, e)), 1)
  BY <1>3 DEF lsetCommand, Missing, Is, Type, Val, t, LsetV, LsetN
<1> HIDE DEF v
<1>5. One(lsetCommand(s, k, i, e), s, k, LsetV(v, i, e), LsetN(v, i))
  <2>1. LsetN(v, i) \in {0, 1} /\ (LsetN(v, i) = 0 => LsetV(v, i, e) = v)
    BY DEF LsetN, LsetV
  <2> QED BY <1>3, <1>4, <2>1
<1>6. Plain(v, LsetV(v, i, e), LsetN(v, i))
  <2>1. CASE LsetN(v, i) = 0
    <3>1. LsetV(v, i, e) = v
      BY <2>1 DEF LsetV
    <3> QED BY <1>1, <2>1, <3>1, SameIsPlain
  <2>2. CASE LsetN(v, i) # 0
    <3> DEFINE l == [v[2] EXCEPT ![IndexOf(v[2], i)] = e]
    <3>1. v[1] = "list" /\ IndexOf(v[2], i) \in DOMAIN v[2] /\ LsetN(v, i) = 1
      BY <2>2 DEF LsetN
    <3>2. ListOK(l) /\ l # << >>
      BY <1>1, <3>1, Kinds, ListSet
    <3>3. LsetV(v, i, e) = List(l)
      BY <2>2 DEF LsetV
    <3> HIDE DEF l
    <3> QED BY <3>1, <3>2, <3>3, ListValue DEF Plain, Change, NotEmpty
  <2> QED BY <2>1, <2>2
<1> QED BY <1>5, <1>6 DEF v

\* LSET keeps the invariant.
LEMMA LsetKeeps ==
  ASSUME KInv, exact, lset
  PROVE  KInv'
<1> PICK k \in Key, i \in {0, -1}, e \in Elem : Call(LAMBDA s : lsetCommand(s, k, i, e))
  BY DEF lset
<1> DEFINE m2 == lsetCommand(master, k, i, e)
           s2 == lsetCommand(slave, k, i, e)
<1>1. /\ master' = [m2 EXCEPT !.dirty = 0] /\ slave' = IF m2.dirty > 0 THEN [s2 EXCEPT !.dirty = 0] ELSE slave
      /\ outlived' \subseteq Outlived
      /\ exact' = exact /\ exact' \in BOOLEAN
  BY DEF Call, Call2, Propagated, KInv
<1>2. /\ One(m2, master, k, LsetV(Seen(master, k), i, e), LsetN(Seen(master, k), i))
      /\ Plain(Seen(master, k), LsetV(Seen(master, k), i, e), LsetN(Seen(master, k), i))
      /\ One(s2, slave, k, LsetV(Seen(slave, k), i, e), LsetN(Seen(slave, k), i))
      /\ Plain(Seen(slave, k), LsetV(Seen(slave, k), i, e), LsetN(Seen(slave, k), i))
  BY LsetOne DEF KInv
<1> HIDE DEF m2, s2
<1> QED BY <1>1, <1>2, PlainKeeps

-----------------------------------------------------------------------------
(* LTRIM and LREM *)

\* What LTRIM leaves of a list.
LtrimL(l, start0, end0) ==
  LET llen == Len(l)
      start == IF start0 < 0 THEN Max({llen + start0, 0}) ELSE start0
      end == IF end0 < 0 THEN llen + end0 ELSE end0
      out == EmptyRange(start, end, llen)
      first == IF out THEN llen ELSE start
      last == IF out THEN 0 ELSE llen - Min({end, llen - 1}) - 1
  IN  SubSeq(l, first + 1, llen - last)

\* It is what LRANGE with the same indices returns.
LEMMA LtrimIs ==
  ASSUME NEW l, ListOK(l), NEW a \in Int, NEW b \in Int
  PROVE  ListOK(LtrimL(l, a, b)) /\ LtrimL(l, a, b) = lrangeCommand(l, a, b)
<1> DEFINE n == Len(l)
           start == IF a < 0 THEN IF n + a >= 0 THEN n + a ELSE 0 ELSE a
           end == IF b < 0 THEN n + b ELSE b
           least == IF end <= n - 1 THEN end ELSE n - 1
           out == start > end \/ start >= n
<1>1. n \in Nat /\ l \in Seq(ToSet(l))
  BY DEF ListOK
<1> HIDE DEF n
<1>2. start \in Nat /\ end \in Int /\ least \in Int /\ least <= n - 1
  BY <1>1
<1>3. Max({n + a, 0}) = IF n + a >= 0 THEN n + a ELSE 0
  BY <1>1, MaxTwo
<1>4. Min({end, n - 1}) = least
  <2> HIDE DEF end
  <2> QED BY <1>1, <1>2, MinTwo
<1>5. Start(n, a) = start
  <2>1. CASE a < 0
    BY <1>3, <2>1 DEF Start
  <2>2. CASE ~(a < 0)
    <3>1. Max({a, 0}) = a
      BY <2>2, MaxTwo
    <3> QED BY <2>2, <3>1 DEF Start
  <2> QED BY <2>1, <2>2
<1>6. End(n, b) = least
  BY <1>4 DEF End
<1>7. LtrimL(l, a, b) = IF out THEN SubSeq(l, n + 1, n) ELSE SubSeq(l, start + 1, least + 1)
  <2>1. LtrimL(l, a, b) = SubSeq(l, (IF out THEN n ELSE start) + 1, n - (IF out THEN 0 ELSE n - least - 1))
    <3> HIDE DEF least
    <3> QED BY <1>3, <1>4 DEF LtrimL, EmptyRange, n
  <2>2. n - 0 = n /\ n - (n - least - 1) = least + 1
    BY <1>1, <1>2
  <2> HIDE DEF out, start, least
  <2> QED BY <2>1, <2>2
<1>8. lrangeCommand(l, a, b) = SubSeq(l, start + 1, least + 1)
  <2> HIDE DEF start, least
  <2> QED BY <1>5, <1>6 DEF lrangeCommand, n
<1>9. CASE out
  <2>1. start + 1 > least + 1
    BY <1>1, <1>2, <1>9
  <2> HIDE DEF start, least, out
  <2>2. SubSeq(l, start + 1, least + 1) \in Seq(ToSet(l)) /\ Len(SubSeq(l, start + 1, least + 1)) = 0
    BY <1>1, <1>2, <2>1 DEF n
  <2>3. SubSeq(l, n + 1, n) \in Seq(ToSet(l)) /\ Len(SubSeq(l, n + 1, n)) = 0
    BY <1>1 DEF n
  <2>4. SubSeq(l, start + 1, least + 1) = << >> /\ SubSeq(l, n + 1, n) = << >>
    BY <2>2, <2>3, EmptySeq
  <2>5. ListOK(<< >>)
    BY DEF ListOK
  <2> QED BY <1>7, <1>8, <1>9, <2>4, <2>5
<1>10. CASE ~out
  <2> HIDE DEF start, least, out
  <2>1. ListOK(SubSeq(l, start + 1, least + 1))
    BY <1>2, ListPart DEF n
  <2> QED BY <1>7, <1>8, <1>10, <2>1
<1> QED BY <1>9, <1>10

LtrimV(v, start, end) == IF v[1] # "list" THEN v ELSE Left(List(LtrimL(v[2], start, end)))
LtrimN(v) == IF v[1] # "list" THEN 0 ELSE 1

\* LTRIM.
LEMMA LtrimOne ==
  ASSUME NEW s, Good(s), NEW k \in Key, NEW start \in Int, NEW end \in Int
  PROVE  LET v == Seen(s, k)
         IN  One(ltrimCommand(s, k, start, end), s, k, LtrimV(v, start, end), LtrimN(v)) /\ Plain(v, LtrimV(v, start, end), LtrimN(v))
<1> DEFINE t == lookupKeyWrite(s, k)
           v == Seen(s, k)
<1>1. ValueOK(v) /\ Srv(s)
  BY SeenOK DEF Good
<1> HIDE DEF t
<1>2. t = lookupKeyWrite(s, k)
  BY DEF t
<1>3. /\ t.db[k] = v /\ One(t, s, k, v, 0)
      /\ \A w, n : n \in Nat => One(Dirty(Put(t, k, w), n), s, k, w, n)
      /\ \A w, n : n \in Nat => One(Dirty(PutOrDelete(t, k, w), n), s, k, Left(w), n)
  BY ONLY <1>1, <1>2, Written, k \in Key
<1>4. ltrimCommand(s, k, start, end) = IF v[1] # "list" THEN t
                                    ELSE Dirty(PutOrDelete(t, k, List(LtrimL(v[2], start, end))), 1)
  BY <1>3 DEF ltrimCommand, Missing, Is, Type, Val, t, LtrimL
<1> HIDE DEF v
<1>5. One(ltrimCommand(s, k, start, end), s, k, LtrimV(v, start, end), LtrimN(v))
  BY <1>3, <1>4 DEF LtrimV, LtrimN
<1>6. Plain(v, LtrimV(v, start, end), LtrimN(v))
  <2>1. CASE v[1] # "list"
    <3>1. LtrimV(v, start, end) = v /\ LtrimN(v) = 0
      BY <2>1 DEF LtrimV, LtrimN
    <3> QED BY <1>1, <3>1, SameIsPlain
  <2>2. CASE v[1] = "list"
    <3>1. ListOK(LtrimL(v[2], start, end))
      BY <1>1, <2>2, Kinds, LtrimIs
    <3>2. LtrimV(v, start, end) = Left(List(LtrimL(v[2], start, end))) /\ LtrimN(v) = 1
      BY <2>2 DEF LtrimV, LtrimN
    <3> QED BY <2>2, <3>1, <3>2, ListValue DEF Plain, Change
  <2> QED BY <2>1, <2>2
<1> QED BY <1>5, <1>6 DEF v

\* LTRIM keeps the invariant.
LEMMA LtrimKeeps ==
  ASSUME KInv, exact, ltrim
  PROVE  KInv'
<1> PICK k \in Key, range \in {<<0, 0>>, <<1, -1>>, <<-1, -1>>, <<1, 0>>} :
       Call(LAMBDA s : ltrimCommand(s, k, range[1], range[2]))
  BY DEF ltrim
<1> DEFINE start == range[1]
           end == range[2]
<1>0. start \in -1 .. 1 /\ end \in -1 .. 1
  OBVIOUS
<1> DEFINE m2 == ltrimCommand(master, k, start, end)
           s2 == ltrimCommand(slave, k, start, end)
<1>1. /\ master' = [m2 EXCEPT !.dirty = 0] /\ slave' = IF m2.dirty > 0 THEN [s2 EXCEPT !.dirty = 0] ELSE slave
      /\ outlived' \subseteq Outlived
      /\ exact' = exact /\ exact' \in BOOLEAN
  BY DEF Call, Call2, Propagated, KInv
<1>2. /\ One(m2, master, k, LtrimV(Seen(master, k), start, end), LtrimN(Seen(master, k)))
      /\ Plain(Seen(master, k), LtrimV(Seen(master, k), start, end), LtrimN(Seen(master, k)))
      /\ One(s2, slave, k, LtrimV(Seen(slave, k), start, end), LtrimN(Seen(slave, k)))
      /\ Plain(Seen(slave, k), LtrimV(Seen(slave, k), start, end), LtrimN(Seen(slave, k)))
  <2>1. start \in Int /\ end \in Int /\ Good(master) /\ Good(slave)
    BY <1>0 DEF KInv
  <2> HIDE DEF m2, s2, start, end
  <2> QED BY <2>1, LtrimOne DEF m2, s2
<1> HIDE DEF m2, s2, start, end
<1> QED BY <1>1, <1>2, PlainKeeps

\* What LREM leaves of a list.
LremL(l, n, e) ==
  IF n < 0 THEN Reverse(Without(Reverse(l), FirstPlaces(Reverse(l), e, -n))) ELSE Without(l, FirstPlaces(l, e, n))

\* It is a list, and as long as before only when it is the same.
LEMMA LremIs ==
  ASSUME NEW l, ListOK(l), NEW n, NEW e
  PROVE  /\ ListOK(LremL(l, n, e)) /\ Len(l) - Len(LremL(l, n, e)) \in Nat
         /\ Len(l) - Len(LremL(l, n, e)) = 0 => LremL(l, n, e) = l
<1>1. ASSUME NEW r, NEW x PROVE FirstPlaces(r, e, x) \in SUBSET DOMAIN r
  BY DEF FirstPlaces
<1>2. CASE n < 0
  <2> DEFINE r == Reverse(l)
             w == Without(r, FirstPlaces(r, e, -n))
  <2>1. LremL(l, n, e) = Reverse(w)
    BY <1>2 DEF LremL
  <2>2. ListOK(r) /\ Len(r) = Len(l) /\ Len(l) \in Nat /\ Reverse(r) = l
    BY ListReversed
  <2>3. FirstPlaces(r, e, -n) \in SUBSET DOMAIN r
    BY <1>1
  <2> HIDE DEF r
  <2>4. ListOK(w) /\ Len(r) - Len(w) \in Nat /\ (Len(w) = Len(r) => w = r)
    BY <2>2, <2>3, ListWithout
  <2> HIDE DEF w
  <2>5. ListOK(Reverse(w)) /\ Len(Reverse(w)) = Len(w) /\ Len(w) \in Nat
    BY <2>4, ListReversed
  <2> QED BY <2>1, <2>2, <2>4, <2>5
<1>3. CASE ~(n < 0)
  <2> DEFINE w == Without(l, FirstPlaces(l, e, n))
  <2>1. LremL(l, n, e) = w
    BY <1>3 DEF LremL
  <2>2. FirstPlaces(l, e, n) \in SUBSET DOMAIN l
    BY <1>1
  <2>3. ListOK(w) /\ Len(l) - Len(w) \in Nat /\ (Len(w) = Len(l) => w = l)
    BY <2>2, ListWithout
  <2> HIDE DEF w
  <2>4. Len(l) \in Nat /\ Len(w) \in Nat
    BY <2>3, OwnSeq DEF ListOK
  <2> QED BY <2>1, <2>3, <2>4
<1> QED BY <1>2, <1>3

LremV(v, n, e) == IF v[1] # "list" THEN v ELSE Left(List(LremL(v[2], n, e)))
LremN(v, n, e) == IF v[1] # "list" THEN 0 ELSE Len(v[2]) - Len(LremL(v[2], n, e))

\* LREM.
LEMMA LremOne ==
  ASSUME NEW s, Good(s), NEW k \in Key, Full(s), NEW n, NEW e
  PROVE  LET v == Seen(s, k)
         IN  One(lremCommand(s, k, n, e), s, k, LremV(v, n, e), LremN(v, n, e)) /\ Plain(v, LremV(v, n, e), LremN(v, n, e))
<1> DEFINE t == lookupKeyWrite(s, k)
           v == Seen(s, k)
<1>1. ValueOK(v) /\ Srv(s) /\ NotEmpty(v)
  BY SeenOK DEF Good
<1> HIDE DEF t
<1>2. t = lookupKeyWrite(s, k)
  BY DEF t
<1>3. /\ t.db[k] = v /\ One(t, s, k, v, 0)
      /\ \A w, i : i \in Nat => One(Dirty(Put(t, k, w), i), s, k, w, i)
      /\ \A w, i : i \in Nat => One(Dirty(PutOrDelete(t, k, w), i), s, k, Left(w), i)
  BY ONLY <1>1, <1>2, Written, k \in Key
<1>4. lremCommand(s, k, n, e) = IF v[1] # "list" THEN t
                             ELSE Dirty(PutOrDelete(t, k, List(LremL(v[2], n, e))), Len(v[2]) - Len(LremL(v[2], n, e)))
  BY <1>3 DEF lremCommand, Missing, Is, Type, Val, t, LremL
<1> HIDE DEF v
<1>7. LremN(v, n, e) \in Nat
  <2>1. CASE v[1] = "list"
    BY <1>1, <2>1, Kinds, LremIs DEF LremN
  <2> QED BY <2>1 DEF LremN
<1>5. One(lremCommand(s, k, n, e), s, k, LremV(v, n, e), LremN(v, n, e))
  <2>1. CASE v[1] # "list"
    BY <1>3, <1>4, <2>1 DEF LremV, LremN
  <2>2. CASE v[1] = "list"
    <3>1. /\ lremCommand(s, k, n, e) = Dirty(PutOrDelete(t, k, List(LremL(v[2], n, e))), LremN(v, n, e))
          /\ LremV(v, n, e) = Left(List(LremL(v[2], n, e)))
      BY <1>4, <2>2 DEF LremN, LremV
    <3> HIDE DEF LremN, LremL
    <3> QED BY <1>3, <1>7, <3>1
  <2> QED BY <2>1, <2>2
<1>6. Plain(v, LremV(v, n, e), LremN(v, n, e))
  <2>1. CASE v[1] # "list"
    <3>1. LremV(v, n, e) = v /\ LremN(v, n, e) = 0
      BY <2>1 DEF LremV, LremN
    <3> QED BY <1>1, <3>1, SameIsPlain
  <2>2. CASE v[1] = "list"
    <3> DEFINE l == LremL(v[2], n, e)
    <3>1. /\ ListOK(l) /\ v = List(v[2]) /\ v[2] # << >> /\ (Len(v[2]) - Len(l) = 0 => l = v[2])
      BY <1>1, <2>2, Kinds, LremIs DEF NotEmpty
    <3>2. LremV(v, n, e) = Left(List(l)) /\ LremN(v, n, e) = Len(v[2]) - Len(l)
      BY <2>2 DEF LremV, LremN
    <3> HIDE DEF l
    <3>3. LremN(v, n, e) = 0 => LremV(v, n, e) = v
      BY <3>1, <3>2, ListValue
    <3>4. ValueOK(LremV(v, n, e)) /\ NotEmpty(LremV(v, n, e))
      BY <3>1, <3>2, ListValue
    <3> HIDE DEF LremV, LremN
    <3> QED BY <1>7, <2>2, <3>3, <3>4 DEF Plain, Change
  <2> QED BY <2>1, <2>2
<1> QED BY <1>5, <1>6 DEF v

\* LREM keeps the invariant.
LEMMA LremKeeps ==
  ASSUME KInv, exact, lrem
  PROVE  KInv'
<1> PICK k \in Key, n \in -1 .. 1, e \in Elem : Call(LAMBDA s : lremCommand(s, k, n, e))
  BY DEF lrem
<1> DEFINE m2 == lremCommand(master, k, n, e)
           s2 == lremCommand(slave, k, n, e)
<1>1. /\ master' = [m2 EXCEPT !.dirty = 0] /\ slave' = IF m2.dirty > 0 THEN [s2 EXCEPT !.dirty = 0] ELSE slave
      /\ outlived' \subseteq Outlived
      /\ exact' = exact /\ exact' \in BOOLEAN
  BY DEF Call, Call2, Propagated, KInv
<1>2. /\ One(m2, master, k, LremV(Seen(master, k), n, e), LremN(Seen(master, k), n, e))
      /\ Plain(Seen(master, k), LremV(Seen(master, k), n, e), LremN(Seen(master, k), n, e))
      /\ One(s2, slave, k, LremV(Seen(slave, k), n, e), LremN(Seen(slave, k), n, e))
      /\ Plain(Seen(slave, k), LremV(Seen(slave, k), n, e), LremN(Seen(slave, k), n, e))
  BY LremOne DEF KInv
<1> HIDE DEF m2, s2
<1> QED BY <1>1, <1>2, PlainKeeps

-----------------------------------------------------------------------------
(* Sets and sorted sets *)

SetOf(v) == IF v = None THEN {} ELSE v[2]

SaddV(v, e) == IF v # None /\ v[1] # "set" THEN v ELSE Set(SetOf(v) \cup {e})
SaddN(v, e) == IF v # None /\ v[1] # "set" THEN 0 ELSE IF e \in SetOf(v) THEN 0 ELSE 1

\* SADD.
LEMMA SaddOne ==
  ASSUME NEW s, Good(s), NEW k \in Key, NEW e
  PROVE  LET v == Seen(s, k)
         IN  One(saddCommand(s, k, e), s, k, SaddV(v, e), SaddN(v, e)) /\ Plain(v, SaddV(v, e), SaddN(v, e))
<1> DEFINE t == lookupKeyWrite(s, k)
           v == Seen(s, k)
<1>1. ValueOK(v) /\ Srv(s)
  BY SeenOK DEF Good
<1> HIDE DEF t
<1>2. t = lookupKeyWrite(s, k)
  BY DEF t
<1>3. /\ t.db[k] = v /\ One(t, s, k, v, 0)
      /\ \A w, n : n \in Nat => One(Dirty(Put(t, k, w), n), s, k, w, n)
      /\ \A w, n : n \in Nat => One(Dirty(PutOrDelete(t, k, w), n), s, k, Left(w), n)
  BY ONLY <1>1, <1>2, Written, k \in Key
<1>4. saddCommand(s, k, e) = IF v # None /\ v[1] # "set" THEN t ELSE Dirty(Put(t, k, SaddV(v, e)), SaddN(v, e))
  BY <1>3 DEF saddCommand, Missing, Is, Type, Val, t, SaddV, SaddN, SetOf
<1> HIDE DEF v
<1>5. One(saddCommand(s, k, e), s, k, SaddV(v, e), SaddN(v, e))
  <2>1. SaddN(v, e) \in Nat /\ (v # None /\ v[1] # "set" => SaddV(v, e) = v /\ SaddN(v, e) = 0)
    BY DEF SaddN, SaddV
  <2> QED BY <1>3, <1>4, <2>1
<1>6. Plain(v, SaddV(v, e), SaddN(v, e))
  <2>1. CASE v # None /\ v[1] # "set"
    <3>1. SaddV(v, e) = v /\ SaddN(v, e) = 0
      BY <2>1 DEF SaddV, SaddN
    <3> QED BY <1>1, <3>1, SameIsPlain
  <2>2. CASE v = None \/ v[1] = "set"
    <3> DEFINE S == SetOf(v) \cup {e}
    <3>1. SaddV(v, e) = Set(S) /\ SaddN(v, e) = IF e \in SetOf(v) THEN 0 ELSE 1
      BY <2>2 DEF SaddV, SaddN
    <3>2. IsFiniteSet(SetOf(v))
      BY <1>1, <2>2, Kinds, FS_EmptySet DEF SetOf
    <3>3. IsFiniteSet(S) /\ S # {}
      BY <3>2, FS_AddElement
    <3>4. e \in SetOf(v) => v = Set(S)
      <4>1. v = None => SetOf(v) = {}
        BY DEF SetOf
      <4>2. v # None => v[1] = "set" /\ SetOf(v) = v[2] /\ v = Set(v[2])
        BY <1>1, <2>2, Kinds DEF SetOf
      <4>3. e \in SetOf(v) => S = SetOf(v)
        OBVIOUS
      <4> HIDE DEF S
      <4> QED BY <4>1, <4>2, <4>3
    <3> HIDE DEF S
    <3>5. v[1] # "hash"
      BY <1>1, <2>2, Kinds
    <3> QED BY <3>1, <3>3, <3>4, <3>5, SetValue DEF Plain, Change
  <2> QED BY <2>1, <2>2
<1> QED BY <1>5, <1>6 DEF v

\* SADD keeps the invariant.
LEMMA SaddKeeps ==
  ASSUME KInv, exact, sadd
  PROVE  KInv'
<1> PICK k \in Key, e \in Elem : Call(LAMBDA s : saddCommand(s, k, e))
  BY DEF sadd
<1> DEFINE m2 == saddCommand(master, k, e)
           s2 == saddCommand(slave, k, e)
<1>1. /\ master' = [m2 EXCEPT !.dirty = 0] /\ slave' = IF m2.dirty > 0 THEN [s2 EXCEPT !.dirty = 0] ELSE slave
      /\ outlived' \subseteq Outlived
      /\ exact' = exact /\ exact' \in BOOLEAN
  BY DEF Call, Call2, Propagated, KInv
<1>2. /\ One(m2, master, k, SaddV(Seen(master, k), e), SaddN(Seen(master, k), e))
      /\ Plain(Seen(master, k), SaddV(Seen(master, k), e), SaddN(Seen(master, k), e))
      /\ One(s2, slave, k, SaddV(Seen(slave, k), e), SaddN(Seen(slave, k), e))
      /\ Plain(Seen(slave, k), SaddV(Seen(slave, k), e), SaddN(Seen(slave, k), e))
  BY SaddOne DEF KInv
<1> HIDE DEF m2, s2
<1> QED BY <1>1, <1>2, PlainKeeps

SremV(v, e) == IF v[1] # "set" \/ e \notin v[2] THEN v ELSE Left(Set(v[2] \ {e}))
SremN(v, e) == IF v[1] # "set" \/ e \notin v[2] THEN 0 ELSE 1

\* SREM.
LEMMA SremOne ==
  ASSUME NEW s, Good(s), NEW k \in Key, NEW e
  PROVE  LET v == Seen(s, k)
         IN  One(sremCommand(s, k, e), s, k, SremV(v, e), SremN(v, e)) /\ Plain(v, SremV(v, e), SremN(v, e))
<1> DEFINE t == lookupKeyWrite(s, k)
           v == Seen(s, k)
<1>1. ValueOK(v) /\ Srv(s)
  BY SeenOK DEF Good
<1> HIDE DEF t
<1>2. t = lookupKeyWrite(s, k)
  BY DEF t
<1>3. /\ t.db[k] = v /\ One(t, s, k, v, 0)
      /\ \A w, n : n \in Nat => One(Dirty(Put(t, k, w), n), s, k, w, n)
      /\ \A w, n : n \in Nat => One(Dirty(PutOrDelete(t, k, w), n), s, k, Left(w), n)
  BY ONLY <1>1, <1>2, Written, k \in Key
<1>4. sremCommand(s, k, e) = IF v[1] # "set" \/ e \notin v[2] THEN t ELSE Dirty(PutOrDelete(t, k, Set(v[2] \ {e})), 1)
  BY <1>3 DEF sremCommand, Missing, Is, Type, Val, t
<1> HIDE DEF v
<1>5. One(sremCommand(s, k, e), s, k, SremV(v, e), SremN(v, e))
  BY <1>3, <1>4 DEF SremV, SremN
<1>6. Plain(v, SremV(v, e), SremN(v, e))
  <2>1. CASE v[1] # "set" \/ e \notin v[2]
    <3>1. SremV(v, e) = v /\ SremN(v, e) = 0
      BY <2>1 DEF SremV, SremN
    <3> QED BY <1>1, <3>1, SameIsPlain
  <2>2. CASE ~(v[1] # "set" \/ e \notin v[2])
    <3>1. IsFiniteSet(v[2] \ {e}) /\ v[1] # "hash"
      BY <1>1, <2>2, Kinds, FS_RemoveElement
    <3>2. SremV(v, e) = Left(Set(v[2] \ {e})) /\ SremN(v, e) = 1
      BY <2>2 DEF SremV, SremN
    <3> QED BY <3>1, <3>2, SetValue DEF Plain, Change
  <2> QED BY <2>1, <2>2
<1> QED BY <1>5, <1>6 DEF v

\* SREM keeps the invariant.
LEMMA SremKeeps ==
  ASSUME KInv, exact, srem
  PROVE  KInv'
<1> PICK k \in Key, e \in Elem : Call(LAMBDA s : sremCommand(s, k, e))
  BY DEF srem
<1> DEFINE m2 == sremCommand(master, k, e)
           s2 == sremCommand(slave, k, e)
<1>1. /\ master' = [m2 EXCEPT !.dirty = 0] /\ slave' = IF m2.dirty > 0 THEN [s2 EXCEPT !.dirty = 0] ELSE slave
      /\ outlived' \subseteq Outlived
      /\ exact' = exact /\ exact' \in BOOLEAN
  BY DEF Call, Call2, Propagated, KInv
<1>2. /\ One(m2, master, k, SremV(Seen(master, k), e), SremN(Seen(master, k), e))
      /\ Plain(Seen(master, k), SremV(Seen(master, k), e), SremN(Seen(master, k), e))
      /\ One(s2, slave, k, SremV(Seen(slave, k), e), SremN(Seen(slave, k), e))
      /\ Plain(Seen(slave, k), SremV(Seen(slave, k), e), SremN(Seen(slave, k), e))
  BY SremOne DEF KInv
<1> HIDE DEF m2, s2
<1> QED BY <1>1, <1>2, PlainKeeps

\* The element that SPOP takes.
SpopE(v, pick) == IF pick \in v[2] THEN pick ELSE CHOOSE x \in v[2] : TRUE
SpopV(v, pick) == IF v[1] # "set" THEN v ELSE Left(Set(v[2] \ {SpopE(v, pick)}))
SpopN(v) == IF v[1] # "set" THEN 0 ELSE 1

\* SPOP.
LEMMA SpopOne ==
  ASSUME NEW s, Good(s), NEW k \in Key, NEW pick
  PROVE  LET v == Seen(s, k)
         IN  One(spopCommand(s, k, pick), s, k, SpopV(v, pick), SpopN(v)) /\ Plain(v, SpopV(v, pick), SpopN(v))
<1> DEFINE t == lookupKeyWrite(s, k)
           v == Seen(s, k)
<1>1. ValueOK(v) /\ Srv(s)
  BY SeenOK DEF Good
<1> HIDE DEF t
<1>2. t = lookupKeyWrite(s, k)
  BY DEF t
<1>3. /\ t.db[k] = v /\ One(t, s, k, v, 0)
      /\ \A w, n : n \in Nat => One(Dirty(Put(t, k, w), n), s, k, w, n)
      /\ \A w, n : n \in Nat => One(Dirty(PutOrDelete(t, k, w), n), s, k, Left(w), n)
  BY ONLY <1>1, <1>2, Written, k \in Key
<1>4. spopCommand(s, k, pick) = IF v[1] # "set" THEN t ELSE Dirty(PutOrDelete(t, k, Set(v[2] \ {SpopE(v, pick)})), 1)
  BY <1>3 DEF spopCommand, Missing, Is, Type, Val, t, SpopE
<1> HIDE DEF v
<1>5. One(spopCommand(s, k, pick), s, k, SpopV(v, pick), SpopN(v))
  BY <1>3, <1>4 DEF SpopV, SpopN
<1>6. Plain(v, SpopV(v, pick), SpopN(v))
  <2>1. CASE v[1] # "set"
    <3>1. SpopV(v, pick) = v /\ SpopN(v) = 0
      BY <2>1 DEF SpopV, SpopN
    <3> QED BY <1>1, <3>1, SameIsPlain
  <2>2. CASE ~(v[1] # "set")
    <3>1. IsFiniteSet(v[2] \ {SpopE(v, pick)}) /\ v[1] # "hash"
      BY <1>1, <2>2, Kinds, FS_RemoveElement
    <3>2. SpopV(v, pick) = Left(Set(v[2] \ {SpopE(v, pick)})) /\ SpopN(v) = 1
      BY <2>2 DEF SpopV, SpopN
    <3> QED BY <3>1, <3>2, SetValue DEF Plain, Change
  <2> QED BY <2>1, <2>2
<1> QED BY <1>5, <1>6 DEF v

\* SPOP of the only element of a set takes the same from both.
LEMMA SpopKeeps ==
  ASSUME KInv, exact, spop
  PROVE  KInv'
<1> PICK k \in Key, e \in Elem, e2 \in Elem :
           /\ Call2(spopCommand(master, k, e), LAMBDA s : spopCommand(s, k, e2))
           /\ exact' = (exact /\ (~Is(master, k, "set") \/ Volatile(k) \/ Cardinality(Val(master, k)) = 1))
  BY DEF spop
<1> DEFINE m2 == spopCommand(master, k, e)
           s2 == spopCommand(slave, k, e2)
           vm == Seen(master, k)
           vs == Seen(slave, k)
<1>1. /\ master' = [m2 EXCEPT !.dirty = 0] /\ slave' = IF m2.dirty > 0 THEN [s2 EXCEPT !.dirty = 0] ELSE slave
      /\ outlived' \subseteq Outlived
      /\ exact' \in BOOLEAN
  BY DEF Call2, Propagated, KInv
<1>2. /\ One(m2, master, k, SpopV(vm, e), SpopN(vm)) /\ Plain(vm, SpopV(vm, e), SpopN(vm))
      /\ One(s2, slave, k, SpopV(vs, e2), SpopN(vs)) /\ Plain(vs, SpopV(vs, e2), SpopN(vs))
  BY SpopOne DEF KInv
<1>3. ASSUME vm = vs, exact' PROVE SpopV(vm, e) = SpopV(vs, e2)
  <2>1. CASE vm[1] # "set"
    BY <1>3, <2>1 DEF SpopV
  <2>2. CASE vm[1] = "set"
    <3>1. None[1] # "set"
      BY DEF None
    <3>2. k \notin master.expires /\ k \notin slave.expires /\ vm = master.db[k]
      BY <1>3, <2>2, <3>1 DEF Seen
    <3>3. Cardinality(vm[2]) = 1
      <4>1. exact' => ~Is(master, k, "set") \/ Volatile(k) \/ Cardinality(Val(master, k)) = 1
        OBVIOUS
      <4> HIDE DEF vm
      <4> QED BY <1>3, <2>2, <3>2, <4>1 DEF Is, Type, Volatile, Val
    <3>4. ValueOK(vm)
      BY SeenOK DEF KInv
    <3>5. IsFiniteSet(vm[2])
      BY <2>2, <3>4, Kinds
    <3>6. PICK x : vm[2] = {x}
      BY <3>3, <3>5, FS_Singleton
    <3>7. SpopE(vm, e) = x /\ SpopE(vs, e2) = x
      <4> HIDE DEF vm, vs
      <4> QED BY <1>3, <3>6 DEF SpopE
    <3> HIDE DEF vm, vs
    <3> QED BY <1>3, <2>2, <3>7 DEF SpopV
  <2> QED BY <2>1, <2>2
<1> HIDE DEF m2, s2
<1> QED BY <1>1, <1>2, <1>3, PlainKeeps

ZaddS(v, e, scoreval, doincrement) ==
  IF doincrement /\ Has(SetOf(v), e) THEN ScoreIn(SetOf(v), e) + scoreval ELSE scoreval
ZaddN(v, e, scoreval, doincrement) ==
  IF v # None /\ v[1] # "zset" THEN 0 ELSE IF <<e, ZaddS(v, e, scoreval, doincrement)>> \in SetOf(v) THEN 0 ELSE 1
ZaddV(v, e, scoreval, doincrement) ==
  IF v # None /\ v[1] # "zset" THEN v
  ELSE ZSet(But(SetOf(v), e) \cup {<<e, ZaddS(v, e, scoreval, doincrement)>>})

\* An element with its score is put in the place of that with another.
LEMMA ButIs ==
  ASSUME NEW S, IsFiniteSet(S), \A p, q \in S : p = <<p[1], p[2]>> /\ (p[1] = q[1] => p = q), NEW e, NEW x
  PROVE  LET T == But(S, e) \cup {<<e, x>>}
         IN  /\ IsFiniteSet(T) /\ T # {} /\ \A p, q \in T : p = <<p[1], p[2]>> /\ (p[1] = q[1] => p = q)
             /\ <<e, x>> \in S => T = S
<1> DEFINE T == But(S, e) \cup {<<e, x>>}
<1>1. But(S, e) \subseteq S /\ \A p \in But(S, e) : p[1] # e
  BY DEF But
<1>2. IsFiniteSet(T)
  BY <1>1, FS_Subset, FS_AddElement
<1>3. \A p, q \in T : p = <<p[1], p[2]>> /\ (p[1] = q[1] => p = q)
  BY <1>1
<1>4. ASSUME <<e, x>> \in S PROVE T = S
  <2>1. \A p \in S : p[1] = e => p = <<e, x>>
    BY <1>4
  <2> QED BY <1>4, <2>1 DEF But
<1> QED BY <1>2, <1>3, <1>4

\* ZADD and ZINCRBY.
LEMMA ZaddOne ==
  ASSUME NEW s, Good(s), NEW k \in Key, NEW e, NEW scoreval, NEW doincrement
  PROVE  LET v == Seen(s, k)
         IN  /\ One(zaddCommand(s, k, e, scoreval, doincrement), s, k, ZaddV(v, e, scoreval, doincrement), ZaddN(v, e, scoreval, doincrement))
             /\ Plain(v, ZaddV(v, e, scoreval, doincrement), ZaddN(v, e, scoreval, doincrement))
<1> DEFINE t == lookupKeyWrite(s, k)
           v == Seen(s, k)
<1>1. ValueOK(v) /\ Srv(s)
  BY SeenOK DEF Good
<1> HIDE DEF t
<1>2. t = lookupKeyWrite(s, k)
  BY DEF t
<1>3. /\ t.db[k] = v /\ One(t, s, k, v, 0)
      /\ \A w, n : n \in Nat => One(Dirty(Put(t, k, w), n), s, k, w, n)
      /\ \A w, n : n \in Nat => One(Dirty(PutOrDelete(t, k, w), n), s, k, Left(w), n)
  BY ONLY <1>1, <1>2, Written, k \in Key
<1>4. zaddCommand(s, k, e, scoreval, doincrement) = IF v # None /\ v[1] # "zset" THEN t
                    ELSE Dirty(Put(t, k, ZaddV(v, e, scoreval, doincrement)), ZaddN(v, e, scoreval, doincrement))
  BY <1>3 DEF zaddCommand, Missing, Is, Type, Val, t, ZaddV, ZaddN, ZaddS, SetOf
<1> HIDE DEF v
<1>5. One(zaddCommand(s, k, e, scoreval, doincrement), s, k, ZaddV(v, e, scoreval, doincrement), ZaddN(v, e, scoreval, doincrement))
  <2>1. /\ ZaddN(v, e, scoreval, doincrement) \in Nat
        /\ v # None /\ v[1] # "zset" => ZaddV(v, e, scoreval, doincrement) = v /\ ZaddN(v, e, scoreval, doincrement) = 0
    BY DEF ZaddN, ZaddV
  <2> QED BY <1>3, <1>4, <2>1
<1>6. Plain(v, ZaddV(v, e, scoreval, doincrement), ZaddN(v, e, scoreval, doincrement))
  <2>1. CASE v # None /\ v[1] # "zset"
    <3>1. ZaddV(v, e, scoreval, doincrement) = v /\ ZaddN(v, e, scoreval, doincrement) = 0
      BY <2>1 DEF ZaddV, ZaddN
    <3> QED BY <1>1, <3>1, SameIsPlain
  <2>2. CASE v = None \/ v[1] = "zset"
    <3> DEFINE x == ZaddS(v, e, scoreval, doincrement)
               T == But(SetOf(v), e) \cup {<<e, x>>}
    <3>1. ZaddV(v, e, scoreval, doincrement) = ZSet(T) /\ ZaddN(v, e, scoreval, doincrement) = IF <<e, x>> \in SetOf(v) THEN 0 ELSE 1
      BY <2>2 DEF ZaddV, ZaddN
    <3>2. /\ IsFiniteSet(SetOf(v))
          /\ \A p, q \in SetOf(v) : p = <<p[1], p[2]>> /\ (p[1] = q[1] => p = q)
      <4>1. CASE v = None
        BY <4>1, FS_EmptySet DEF SetOf
      <4>2. CASE v # None
        BY <1>1, <2>2, <4>2, Kinds DEF SetOf
      <4> QED BY <4>1, <4>2
    <3> HIDE DEF x
    <3>3. /\ IsFiniteSet(T) /\ T # {} /\ \A p, q \in T : p = <<p[1], p[2]>> /\ (p[1] = q[1] => p = q)
          /\ <<e, x>> \in SetOf(v) => T = SetOf(v)
      BY <3>2, ButIs
    <3>4. <<e, x>> \in SetOf(v) => v = ZSet(T)
      <4>1. v = None => SetOf(v) = {}
        BY DEF SetOf
      <4>2. v # None => v[1] = "zset" /\ SetOf(v) = v[2] /\ v = ZSet(v[2])
        BY <1>1, <2>2, Kinds DEF SetOf
      <4> HIDE DEF T
      <4> QED BY <3>3, <4>1, <4>2
    <3> HIDE DEF T
    <3>5. v[1] # "hash"
      BY <1>1, <2>2, Kinds
    <3>6. ValueOK(ZSet(T)) /\ NotEmpty(ZSet(T))
      BY <3>3, ZSetValue
    <3> QED BY <3>1, <3>4, <3>5, <3>6 DEF Plain, Change
  <2> QED BY <2>1, <2>2
<1> QED BY <1>5, <1>6 DEF v

\* ZADD and ZINCRBY keep the invariant.
LEMMA ZaddKeeps ==
  ASSUME KInv, exact, zadd
  PROVE  KInv'
<1> PICK k \in Key, e \in Elem, scoreval \in Scores, doincrement \in BOOLEAN : Call(LAMBDA s : zaddCommand(s, k, e, scoreval, doincrement))
  BY DEF zadd
<1> DEFINE m2 == zaddCommand(master, k, e, scoreval, doincrement)
           s2 == zaddCommand(slave, k, e, scoreval, doincrement)
<1>1. /\ master' = [m2 EXCEPT !.dirty = 0] /\ slave' = IF m2.dirty > 0 THEN [s2 EXCEPT !.dirty = 0] ELSE slave
      /\ outlived' \subseteq Outlived
      /\ exact' = exact /\ exact' \in BOOLEAN
  BY DEF Call, Call2, Propagated, KInv
<1>2. /\ One(m2, master, k, ZaddV(Seen(master, k), e, scoreval, doincrement), ZaddN(Seen(master, k), e, scoreval, doincrement))
      /\ Plain(Seen(master, k), ZaddV(Seen(master, k), e, scoreval, doincrement), ZaddN(Seen(master, k), e, scoreval, doincrement))
      /\ One(s2, slave, k, ZaddV(Seen(slave, k), e, scoreval, doincrement), ZaddN(Seen(slave, k), e, scoreval, doincrement))
      /\ Plain(Seen(slave, k), ZaddV(Seen(slave, k), e, scoreval, doincrement), ZaddN(Seen(slave, k), e, scoreval, doincrement))
  BY ZaddOne DEF KInv
<1> HIDE DEF m2, s2
<1> QED BY <1>1, <1>2, PlainKeeps

\* out: what goes.
ZremV(v, out) == IF v[1] # "zset" THEN v ELSE Left(ZSet(v[2] \ out))
ZremN(v, out) == IF v[1] # "zset" THEN 0 ELSE Cardinality(out)

\* What is left of a sorted set when some of it goes.
LEMMA ZremPlain ==
  ASSUME NEW v, ValueOK(v), NEW out, v[1] = "zset" => out \subseteq v[2]
  PROVE  ZremN(v, out) \in Nat /\ Plain(v, ZremV(v, out), ZremN(v, out))
<1>1. CASE v[1] # "zset"
  <2>1. ZremV(v, out) = v /\ ZremN(v, out) = 0
    BY <1>1 DEF ZremV, ZremN
  <2> QED BY <2>1, SameIsPlain
<1>2. CASE v[1] = "zset"
  <2> DEFINE T == v[2] \ out
  <2>1. /\ v = ZSet(v[2]) /\ IsFiniteSet(v[2]) /\ v[2] # {}
        /\ \A p, q \in v[2] : p = <<p[1], p[2]>> /\ (p[1] = q[1] => p = q)
    BY <1>2, Kinds
  <2>2. ZremV(v, out) = Left(ZSet(T)) /\ ZremN(v, out) = Cardinality(out)
    BY <1>2 DEF ZremV, ZremN
  <2>3. IsFiniteSet(T) /\ IsFiniteSet(out) /\ Cardinality(out) \in Nat
    BY <1>2, <2>1, FS_Subset, FS_CardinalityType
  <2>4. Cardinality(out) = 0 => T = v[2]
    BY <2>3, FS_EmptySet
  <2>5. \A p, q \in T : p = <<p[1], p[2]>> /\ (p[1] = q[1] => p = q)
    BY <2>1
  <2> HIDE DEF T
  <2>6. /\ ValueOK(Left(ZSet(T))) /\ NotEmpty(Left(ZSet(T)))
        /\ Left(ZSet(T)) = IF T = {} THEN None ELSE ZSet(T)
    BY <2>3, <2>5, ZSetValue
  <2>7. Cardinality(out) = 0 => Left(ZSet(T)) = v
    BY <2>1, <2>4, <2>6
  <2> QED BY <1>2, <2>2, <2>3, <2>6, <2>7 DEF Plain, Change
<1> QED BY <1>1, <1>2

\* ZREM.
LEMMA ZremElemOne ==
  ASSUME NEW s, Good(s), NEW k \in Key, NEW e
  PROVE  LET v == Seen(s, k)
         IN  /\ One(zremFromSet(s, k, LAMBDA p : p[1] = e), s, k, ZremV(v, {p \in v[2] : p[1] = e}), ZremN(v, {p \in v[2] : p[1] = e}))
             /\ Plain(v, ZremV(v, {p \in v[2] : p[1] = e}), ZremN(v, {p \in v[2] : p[1] = e}))
<1> DEFINE t == lookupKeyWrite(s, k)
           v == Seen(s, k)
<1>1. ValueOK(v) /\ Srv(s)
  BY SeenOK DEF Good
<1> HIDE DEF t
<1>2. t = lookupKeyWrite(s, k)
  BY DEF t
<1>3. /\ t.db[k] = v /\ One(t, s, k, v, 0)
      /\ \A w, n : n \in Nat => One(Dirty(Put(t, k, w), n), s, k, w, n)
      /\ \A w, n : n \in Nat => One(Dirty(PutOrDelete(t, k, w), n), s, k, Left(w), n)
  BY ONLY <1>1, <1>2, Written, k \in Key
<1>4. zremFromSet(s, k, LAMBDA p : p[1] = e) = IF v[1] # "zset" THEN t
                                               ELSE Dirty(PutOrDelete(t, k, ZSet(v[2] \ {p \in v[2] : p[1] = e})), Cardinality({p \in v[2] : p[1] = e}))
  BY <1>3 DEF zremFromSet, Missing, Is, Type, Val, t
<1> HIDE DEF v
<1>7. ZremN(v, {p \in v[2] : p[1] = e}) \in Nat /\ Plain(v, ZremV(v, {p \in v[2] : p[1] = e}), ZremN(v, {p \in v[2] : p[1] = e}))
  <2> DEFINE out == {p \in v[2] : p[1] = e}
  <2>1. out \subseteq v[2]
    OBVIOUS
  <2> HIDE DEF out
  <2>2. ZremN(v, out) \in Nat /\ Plain(v, ZremV(v, out), ZremN(v, out))
    BY <1>1, <2>1, ZremPlain
  <2> QED BY <2>2 DEF out
<1>6. Plain(v, ZremV(v, {p \in v[2] : p[1] = e}), ZremN(v, {p \in v[2] : p[1] = e}))
  BY <1>7
<1>5. One(zremFromSet(s, k, LAMBDA p : p[1] = e), s, k, ZremV(v, {p \in v[2] : p[1] = e}), ZremN(v, {p \in v[2] : p[1] = e}))
  <2> DEFINE out == {p \in v[2] : p[1] = e}
  <2>1. CASE v[1] # "zset"
    <3>1. ZremV(v, out) = v /\ ZremN(v, out) = 0
      BY <2>1 DEF ZremV, ZremN
    <3> QED BY <1>3, <1>4, <2>1, <3>1
  <2>2. CASE v[1] = "zset"
    <3>1. ZremV(v, out) = Left(ZSet(v[2] \ out)) /\ ZremN(v, out) = Cardinality(out)
      BY <2>2 DEF ZremV, ZremN
    <3>2. zremFromSet(s, k, LAMBDA p : p[1] = e) = Dirty(PutOrDelete(t, k, ZSet(v[2] \ out)), Cardinality(out))
      BY <1>4, <2>2
    <3>3. ZremN(v, out) \in Nat
      BY <1>7
    <3> HIDE DEF out
    <3>4. One(Dirty(PutOrDelete(t, k, ZSet(v[2] \ out)), Cardinality(out)), s, k, ZremV(v, out), ZremN(v, out))
      BY <1>3, <3>1, <3>3
    <3> QED BY <3>2, <3>4 DEF out
  <2> QED BY <2>1, <2>2
<1> QED BY <1>5, <1>6 DEF v

\* ZREMRANGEBYSCORE.
LEMMA ZremScoreOne ==
  ASSUME NEW s, Good(s), NEW k \in Key, NEW e
  PROVE  LET v == Seen(s, k)
         IN  /\ One(zremFromSet(s, k, LAMBDA p : p[2] <= e), s, k, ZremV(v, {p \in v[2] : p[2] <= e}), ZremN(v, {p \in v[2] : p[2] <= e}))
             /\ Plain(v, ZremV(v, {p \in v[2] : p[2] <= e}), ZremN(v, {p \in v[2] : p[2] <= e}))
<1> DEFINE t == lookupKeyWrite(s, k)
           v == Seen(s, k)
<1>1. ValueOK(v) /\ Srv(s)
  BY SeenOK DEF Good
<1> HIDE DEF t
<1>2. t = lookupKeyWrite(s, k)
  BY DEF t
<1>3. /\ t.db[k] = v /\ One(t, s, k, v, 0)
      /\ \A w, n : n \in Nat => One(Dirty(Put(t, k, w), n), s, k, w, n)
      /\ \A w, n : n \in Nat => One(Dirty(PutOrDelete(t, k, w), n), s, k, Left(w), n)
  BY ONLY <1>1, <1>2, Written, k \in Key
<1>4. zremFromSet(s, k, LAMBDA p : p[2] <= e) = IF v[1] # "zset" THEN t
                                                ELSE Dirty(PutOrDelete(t, k, ZSet(v[2] \ {p \in v[2] : p[2] <= e})), Cardinality({p \in v[2] : p[2] <= e}))
  BY <1>3 DEF zremFromSet, Missing, Is, Type, Val, t
<1> HIDE DEF v
<1>7. ZremN(v, {p \in v[2] : p[2] <= e}) \in Nat /\ Plain(v, ZremV(v, {p \in v[2] : p[2] <= e}), ZremN(v, {p \in v[2] : p[2] <= e}))
  <2> DEFINE out == {p \in v[2] : p[2] <= e}
  <2>1. out \subseteq v[2]
    OBVIOUS
  <2> HIDE DEF out
  <2>2. ZremN(v, out) \in Nat /\ Plain(v, ZremV(v, out), ZremN(v, out))
    BY <1>1, <2>1, ZremPlain
  <2> QED BY <2>2 DEF out
<1>6. Plain(v, ZremV(v, {p \in v[2] : p[2] <= e}), ZremN(v, {p \in v[2] : p[2] <= e}))
  BY <1>7
<1>5. One(zremFromSet(s, k, LAMBDA p : p[2] <= e), s, k, ZremV(v, {p \in v[2] : p[2] <= e}), ZremN(v, {p \in v[2] : p[2] <= e}))
  <2> DEFINE out == {p \in v[2] : p[2] <= e}
  <2>1. CASE v[1] # "zset"
    <3>1. ZremV(v, out) = v /\ ZremN(v, out) = 0
      BY <2>1 DEF ZremV, ZremN
    <3> QED BY <1>3, <1>4, <2>1, <3>1
  <2>2. CASE v[1] = "zset"
    <3>1. ZremV(v, out) = Left(ZSet(v[2] \ out)) /\ ZremN(v, out) = Cardinality(out)
      BY <2>2 DEF ZremV, ZremN
    <3>2. zremFromSet(s, k, LAMBDA p : p[2] <= e) = Dirty(PutOrDelete(t, k, ZSet(v[2] \ out)), Cardinality(out))
      BY <1>4, <2>2
    <3>3. ZremN(v, out) \in Nat
      BY <1>7
    <3> HIDE DEF out
    <3>4. One(Dirty(PutOrDelete(t, k, ZSet(v[2] \ out)), Cardinality(out)), s, k, ZremV(v, out), ZremN(v, out))
      BY <1>3, <3>1, <3>3
    <3> QED BY <3>2, <3>4 DEF out
  <2> QED BY <2>1, <2>2
<1> QED BY <1>5, <1>6 DEF v

\* One field is set.
LEMMA SetOne ==
  ASSUME NEW h, NEW f, NEW v
  PROVE  hashSetAll(h, <<<<f, v>>>>) = hashSet(h, f, v)
<1> DEFINE len == Len(<<<<f, v>>>>)
           g == [n \in 0 .. len |-> IF n = 0 THEN h ELSE hashSet(h, f, v)]
           is(after) == after = [n \in 0 .. len |-> IF n = 0 THEN h ELSE hashSet(after[n - 1], <<<<f, v>>>>[n][1], <<<<f, v>>>>[n][2])]
<1>1. 0 .. len = {0, 1} /\ len = 1
  OBVIOUS
<1>2. is(g)
  <2>1. g = [n \in {0, 1} |-> IF n = 0 THEN h ELSE hashSet(h, f, v)]
    BY <1>1
  <2> HIDE DEF g, len
  <2>2. g[0] = h
    BY <2>1
  <2>3. \A n \in {0, 1} : (IF n = 0 THEN h ELSE hashSet(g[n - 1], <<<<f, v>>>>[n][1], <<<<f, v>>>>[n][2])) = g[n]
    <3>1. g[0] = h
      BY <2>1
    <3>2. hashSet(g[0], <<<<f, v>>>>[1][1], <<<<f, v>>>>[1][2]) = g[1]
      BY <1>1, <2>1, <2>2
    <3> QED BY <3>1, <3>2
  <2> QED BY <1>1, <2>1, <2>3
<1>3. hashSetAll(h, <<<<f, v>>>>) = (CHOOSE after : is(after))[len]
  BY DEF hashSetAll
<1>4. PICK a : hashSetAll(h, <<<<f, v>>>>) = a[1] /\ is(a)
  <2> HIDE DEF len, is
  <2> QED BY <1>1, <1>2, <1>3
<1>5. a[1] = hashSet(h, f, v)
  <2> HIDE DEF len
  <2>1. a[0] = h
    BY <1>1, <1>4
  <2>2. a[1] = hashSet(a[0], f, v)
    BY <1>1, <1>4
  <2> QED BY <2>1, <2>2
<1> QED BY <1>4, <1>5

\* Two fields are set.
LEMMA SetTwo ==
  ASSUME NEW h, NEW f, NEW v, NEW g2, NEW w
  PROVE  hashSetAll(h, <<<<f, v>>, <<g2, w>>>>) = hashSet(hashSet(h, f, v), g2, w)
<1> DEFINE len == Len(<<<<f, v>>, <<g2, w>>>>)
           g == [n \in 0 .. len |-> IF n = 0 THEN h ELSE IF n = 1 THEN hashSet(h, f, v) ELSE hashSet(hashSet(h, f, v), g2, w)]
           is(after) == after = [n \in 0 .. len |-> IF n = 0 THEN h
                                                    ELSE hashSet(after[n - 1], <<<<f, v>>, <<g2, w>>>>[n][1], <<<<f, v>>, <<g2, w>>>>[n][2])]
<1>1. 0 .. len = {0, 1, 2} /\ len = 2
  OBVIOUS
<1>2. is(g)
  <2>1. g = [n \in {0, 1, 2} |-> IF n = 0 THEN h ELSE IF n = 1 THEN hashSet(h, f, v) ELSE hashSet(hashSet(h, f, v), g2, w)]
    BY <1>1
  <2> HIDE DEF g, len
  <2>2. g[0] = h /\ g[1] = hashSet(h, f, v)
    BY <2>1
  <2>3. \A n \in {0, 1, 2} : (IF n = 0 THEN h ELSE hashSet(g[n - 1], <<<<f, v>>, <<g2, w>>>>[n][1], <<<<f, v>>, <<g2, w>>>>[n][2])) = g[n]
    <3>1. g[0] = h
      BY <2>1
    <3>2. hashSet(g[0], <<<<f, v>>, <<g2, w>>>>[1][1], <<<<f, v>>, <<g2, w>>>>[1][2]) = g[1]
      BY <1>1, <2>1, <2>2
    <3>3. hashSet(g[1], <<<<f, v>>, <<g2, w>>>>[2][1], <<<<f, v>>, <<g2, w>>>>[2][2]) = g[2]
      BY <1>1, <2>1, <2>2
    <3> QED BY <3>1, <3>2, <3>3
  <2> QED BY <1>1, <2>1, <2>3
<1>3. hashSetAll(h, <<<<f, v>>, <<g2, w>>>>) = (CHOOSE after : is(after))[len]
  BY DEF hashSetAll
<1>4. PICK a : hashSetAll(h, <<<<f, v>>, <<g2, w>>>>) = a[2] /\ is(a)
  <2> HIDE DEF len, is
  <2> QED BY <1>1, <1>2, <1>3
<1>5. a[2] = hashSet(hashSet(h, f, v), g2, w)
  <2> HIDE DEF len
  <2>1. a[0] = h
    BY <1>1, <1>4
  <2>2. a[1] = hashSet(a[0], f, v)
    BY <1>1, <1>4
  <2>3. a[2] = hashSet(a[1], g2, w)
    BY <1>1, <1>4
  <2> QED BY <2>1, <2>2, <2>3
<1> QED BY <1>4, <1>5

\* MSET of two keys.
LEMMA MsetTwo ==
  ASSUME NEW s, NEW k, NEW v, NEW l, NEW w
  PROVE  setAll(s, <<<<k, v>>, <<l, w>>>>) = removeExpire(Put(removeExpire(Put(s, k, String(v)), k), l, String(w)), l)
<1> DEFINE len == Len(<<<<k, v>>, <<l, w>>>>)
           g == [n \in 0 .. len |-> IF n = 0 THEN s
                                    ELSE IF n = 1 THEN removeExpire(Put(s, k, String(v)), k)
                                    ELSE removeExpire(Put(removeExpire(Put(s, k, String(v)), k), l, String(w)), l)]
           is(after) == after = [n \in 0 .. len |-> IF n = 0 THEN s
                                                    ELSE removeExpire(Put(after[n - 1], <<<<k, v>>, <<l, w>>>>[n][1], String(<<<<k, v>>, <<l, w>>>>[n][2])), <<<<k, v>>, <<l, w>>>>[n][1])]
<1>1. 0 .. len = {0, 1, 2} /\ len = 2
  OBVIOUS
<1>2. is(g)
  <2>1. g = [n \in {0, 1, 2} |-> IF n = 0 THEN s
                                 ELSE IF n = 1 THEN removeExpire(Put(s, k, String(v)), k)
                                 ELSE removeExpire(Put(removeExpire(Put(s, k, String(v)), k), l, String(w)), l)]
    BY <1>1
  <2> HIDE DEF g, len
  <2>2. g[0] = s /\ g[1] = removeExpire(Put(s, k, String(v)), k)
    BY <2>1
  <2>3. \A n \in {0, 1, 2} : (IF n = 0 THEN s ELSE removeExpire(Put(g[n - 1], <<<<k, v>>, <<l, w>>>>[n][1], String(<<<<k, v>>, <<l, w>>>>[n][2])), <<<<k, v>>, <<l, w>>>>[n][1])) = g[n]
    <3>1. g[0] = s
      BY <2>1
    <3>2. removeExpire(Put(g[0], <<<<k, v>>, <<l, w>>>>[1][1], String(<<<<k, v>>, <<l, w>>>>[1][2])), <<<<k, v>>, <<l, w>>>>[1][1]) = g[1]
      BY <1>1, <2>1, <2>2
    <3>3. removeExpire(Put(g[1], <<<<k, v>>, <<l, w>>>>[2][1], String(<<<<k, v>>, <<l, w>>>>[2][2])), <<<<k, v>>, <<l, w>>>>[2][1]) = g[2]
      BY <1>1, <2>1, <2>2
    <3> QED BY <3>1, <3>2, <3>3
  <2> QED BY <1>1, <2>1, <2>3
<1>3. setAll(s, <<<<k, v>>, <<l, w>>>>) = (CHOOSE after : is(after))[len]
  BY DEF setAll
<1>4. PICK a : setAll(s, <<<<k, v>>, <<l, w>>>>) = a[2] /\ is(a)
  <2> HIDE DEF len, is
  <2> QED BY <1>1, <1>2, <1>3
<1>5. a[2] = removeExpire(Put(removeExpire(Put(s, k, String(v)), k), l, String(w)), l)
  <2> HIDE DEF len
  <2>1. a[0] = s
    BY <1>1, <1>4
  <2>2. a[1] = removeExpire(Put(a[0], k, String(v)), k)
    BY <1>1, <1>4
  <2>3. a[2] = removeExpire(Put(a[1], l, String(w)), l)
    BY <1>1, <1>4
  <2> QED BY <2>1, <2>2, <2>3
<1> QED BY <1>4, <1>5

\* What DEL does of one key.
DelOne(s, k) == IF Missing(s, k) THEN s ELSE Dirty(deleteKey(s, k), 1)

\* DEL of two keys.
LEMMA DelTwo ==
  ASSUME NEW s, NEW k, NEW l
  PROVE  delCommand(s, <<k, l>>) = DelOne(DelOne(s, k), l)
<1> DEFINE len == Len(<<k, l>>)
           g == [n \in 0 .. len |-> IF n = 0 THEN s ELSE IF n = 1 THEN DelOne(s, k) ELSE DelOne(DelOne(s, k), l)]
           is(after) == after = [n \in 0 .. len |-> IF n = 0 THEN s ELSE DelOne(after[n - 1], <<k, l>>[n])]
<1>1. 0 .. len = {0, 1, 2} /\ len = 2
  OBVIOUS
<1>2. is(g)
  <2>1. g = [n \in {0, 1, 2} |-> IF n = 0 THEN s ELSE IF n = 1 THEN DelOne(s, k) ELSE DelOne(DelOne(s, k), l)]
    BY <1>1
  <2> HIDE DEF g, len
  <2>2. g[0] = s /\ g[1] = DelOne(s, k)
    BY <2>1
  <2>3. \A n \in {0, 1, 2} : (IF n = 0 THEN s ELSE DelOne(g[n - 1], <<k, l>>[n])) = g[n]
    <3>1. g[0] = s
      BY <2>1
    <3>2. DelOne(g[0], <<k, l>>[1]) = g[1]
      BY <1>1, <2>1, <2>2
    <3>3. DelOne(g[1], <<k, l>>[2]) = g[2]
      BY <1>1, <2>1, <2>2
    <3> QED BY <3>1, <3>2, <3>3
  <2> QED BY <1>1, <2>1, <2>3
<1>3. delCommand(s, <<k, l>>) = (CHOOSE after : is(after))[len]
  BY DEF delCommand, DelOne
<1>4. PICK a : delCommand(s, <<k, l>>) = a[2] /\ is(a)
  <2> HIDE DEF len, is
  <2> QED BY <1>1, <1>2, <1>3
<1>5. a[2] = DelOne(DelOne(s, k), l)
  <2> HIDE DEF len
  <2>1. a[0] = s
    BY <1>1, <1>4
  <2>2. a[1] = DelOne(a[0], k)
    BY <1>1, <1>4
  <2>3. a[2] = DelOne(a[1], l)
    BY <1>1, <1>4
  <2> QED BY <2>1, <2>2, <2>3
<1> QED BY <1>4, <1>5

\* No key is looked up.
LEMMA LookNone ==
  ASSUME NEW s, NEW ks, ks = << >>
  PROVE  lookupAllWrite(s, ks) = s
<1> DEFINE len == Len(ks)
           g == [n \in 0 .. len |-> s]
           is(after) == after = [n \in 0 .. len |-> IF n = 0 THEN s ELSE lookupKeyWrite(after[n - 1], ks[n])]
<1>1. 0 .. len = {0} /\ len = 0
  OBVIOUS
<1>2. is(g)
  <2>1. g = [n \in {0} |-> s]
    BY <1>1
  <2> HIDE DEF g, len
  <2>2. g[0] = s
    BY <2>1
  <2>3. \A n \in {0} : (IF n = 0 THEN s ELSE lookupKeyWrite(g[n - 1], ks[n])) = g[n]
    <3>1. g[0] = s
      BY <2>1
    <3> QED BY <3>1
  <2> QED BY <1>1, <2>1, <2>3
<1>3. lookupAllWrite(s, ks) = (CHOOSE after : is(after))[len]
  BY DEF lookupAllWrite
<1>4. PICK a : lookupAllWrite(s, ks) = a[0] /\ is(a)
  <2> HIDE DEF len, is
  <2> QED BY <1>1, <1>2, <1>3
<1>5. a[0] = s
  <2> HIDE DEF len
  <2>1. a[0] = s
    BY <1>1, <1>4
  <2> QED BY <2>1
<1> QED BY <1>4, <1>5

\* One key is looked up.
LEMMA LookOne ==
  ASSUME NEW s, NEW ks, NEW k, ks = <<k>>
  PROVE  lookupAllWrite(s, ks) = lookupKeyWrite(s, k)
<1> DEFINE len == Len(ks)
           g == [n \in 0 .. len |-> IF n = 0 THEN s ELSE lookupKeyWrite(s, k)]
           is(after) == after = [n \in 0 .. len |-> IF n = 0 THEN s ELSE lookupKeyWrite(after[n - 1], ks[n])]
<1>1. 0 .. len = {0, 1} /\ len = 1 /\ ks[1] = k
  OBVIOUS
<1>2. is(g)
  <2>1. g = [n \in {0, 1} |-> IF n = 0 THEN s ELSE lookupKeyWrite(s, k)]
    BY <1>1
  <2> HIDE DEF g, len
  <2>2. g[0] = s
    BY <2>1
  <2>3. \A n \in {0, 1} : (IF n = 0 THEN s ELSE lookupKeyWrite(g[n - 1], ks[n])) = g[n]
    <3>1. g[0] = s
      BY <2>1
    <3>2. lookupKeyWrite(g[0], ks[1]) = g[1]
      BY <1>1, <2>1, <2>2
    <3> QED BY <3>1, <3>2
  <2> QED BY <1>1, <2>1, <2>3
<1>3. lookupAllWrite(s, ks) = (CHOOSE after : is(after))[len]
  BY DEF lookupAllWrite
<1>4. PICK a : lookupAllWrite(s, ks) = a[1] /\ is(a)
  <2> HIDE DEF len, is
  <2> QED BY <1>1, <1>2, <1>3
<1>5. a[1] = lookupKeyWrite(s, k)
  <2> HIDE DEF len
  <2>1. a[0] = s
    BY <1>1, <1>4
  <2>2. a[1] = lookupKeyWrite(a[0], k)
    BY <1>1, <1>4
  <2> QED BY <2>1, <2>2
<1> QED BY <1>4, <1>5

\* Two keys are looked up.
LEMMA LookTwo ==
  ASSUME NEW s, NEW ks, NEW k, NEW l, ks = <<k, l>>
  PROVE  lookupAllWrite(s, ks) = lookupKeyWrite(lookupKeyWrite(s, k), l)
<1> DEFINE len == Len(ks)
           g == [n \in 0 .. len |-> IF n = 0 THEN s ELSE IF n = 1 THEN lookupKeyWrite(s, k) ELSE lookupKeyWrite(lookupKeyWrite(s, k), l)]
           is(after) == after = [n \in 0 .. len |-> IF n = 0 THEN s ELSE lookupKeyWrite(after[n - 1], ks[n])]
<1>1. 0 .. len = {0, 1, 2} /\ len = 2 /\ ks[1] = k /\ ks[2] = l
  OBVIOUS
<1>2. is(g)
  <2>1. g = [n \in {0, 1, 2} |-> IF n = 0 THEN s ELSE IF n = 1 THEN lookupKeyWrite(s, k) ELSE lookupKeyWrite(lookupKeyWrite(s, k), l)]
    BY <1>1
  <2> HIDE DEF g, len
  <2>2. g[0] = s /\ g[1] = lookupKeyWrite(s, k)
    BY <2>1
  <2>3. \A n \in {0, 1, 2} : (IF n = 0 THEN s ELSE lookupKeyWrite(g[n - 1], ks[n])) = g[n]
    <3>1. g[0] = s
      BY <2>1
    <3>2. lookupKeyWrite(g[0], ks[1]) = g[1]
      BY <1>1, <2>1, <2>2
    <3>3. lookupKeyWrite(g[1], ks[2]) = g[2]
      BY <1>1, <2>1, <2>2
    <3> QED BY <3>1, <3>2, <3>3
  <2> QED BY <1>1, <2>1, <2>3
<1>3. lookupAllWrite(s, ks) = (CHOOSE after : is(after))[len]
  BY DEF lookupAllWrite
<1>4. PICK a : lookupAllWrite(s, ks) = a[2] /\ is(a)
  <2> HIDE DEF len, is
  <2> QED BY <1>1, <1>2, <1>3
<1>5. a[2] = lookupKeyWrite(lookupKeyWrite(s, k), l)
  <2> HIDE DEF len
  <2>1. a[0] = s
    BY <1>1, <1>4
  <2>2. a[1] = lookupKeyWrite(a[0], k)
    BY <1>1, <1>4
  <2>3. a[2] = lookupKeyWrite(a[1], l)
    BY <1>1, <1>4
  <2> QED BY <2>1, <2>2, <2>3
<1> QED BY <1>4, <1>5

\* ZREM and ZREMRANGEBYSCORE keep the invariant.
LEMMA ZremKeeps ==
  ASSUME KInv, exact, zremCommands
  PROVE  KInv'
<1> PICK k \in Key : \/ \E e \in Elem : Call(LAMBDA s : zremFromSet(s, k, LAMBDA p : p[1] = e))
                    \/ \E score \in Scores : Call(LAMBDA s : zremFromSet(s, k, LAMBDA p : p[2] <= score))
  BY DEF zremCommands
<1>1. ASSUME NEW e \in Elem, Call(LAMBDA s : zremFromSet(s, k, LAMBDA p : p[1] = e)) PROVE KInv'
  <2> DEFINE m2 == zremFromSet(master, k, LAMBDA p : p[1] = e)
             s2 == zremFromSet(slave, k, LAMBDA p : p[1] = e)
             om == {p \in Seen(master, k)[2] : p[1] = e}
             os == {p \in Seen(slave, k)[2] : p[1] = e}
  <2>1. /\ master' = [m2 EXCEPT !.dirty = 0] /\ slave' = IF m2.dirty > 0 THEN [s2 EXCEPT !.dirty = 0] ELSE slave
        /\ outlived' \subseteq Outlived
        /\ exact' = exact /\ exact' \in BOOLEAN
    BY <1>1 DEF Call, Call2, Propagated, KInv
  <2>2. /\ One(m2, master, k, ZremV(Seen(master, k), om), ZremN(Seen(master, k), om))
        /\ Plain(Seen(master, k), ZremV(Seen(master, k), om), ZremN(Seen(master, k), om))
        /\ One(s2, slave, k, ZremV(Seen(slave, k), os), ZremN(Seen(slave, k), os))
        /\ Plain(Seen(slave, k), ZremV(Seen(slave, k), os), ZremN(Seen(slave, k), os))
    BY ZremElemOne DEF KInv
  <2>3. Seen(master, k) = Seen(slave, k) => om = os
    OBVIOUS
  <2> HIDE DEF m2, s2, om, os
  <2> QED BY <2>1, <2>2, <2>3, PlainKeeps
<1>2. ASSUME NEW score \in Scores, Call(LAMBDA s : zremFromSet(s, k, LAMBDA p : p[2] <= score)) PROVE KInv'
  <2> DEFINE m2 == zremFromSet(master, k, LAMBDA p : p[2] <= score)
             s2 == zremFromSet(slave, k, LAMBDA p : p[2] <= score)
             om == {p \in Seen(master, k)[2] : p[2] <= score}
             os == {p \in Seen(slave, k)[2] : p[2] <= score}
  <2>1. /\ master' = [m2 EXCEPT !.dirty = 0] /\ slave' = IF m2.dirty > 0 THEN [s2 EXCEPT !.dirty = 0] ELSE slave
        /\ outlived' \subseteq Outlived
        /\ exact' = exact /\ exact' \in BOOLEAN
    BY <1>2 DEF Call, Call2, Propagated, KInv
  <2>2. /\ One(m2, master, k, ZremV(Seen(master, k), om), ZremN(Seen(master, k), om))
        /\ Plain(Seen(master, k), ZremV(Seen(master, k), om), ZremN(Seen(master, k), om))
        /\ One(s2, slave, k, ZremV(Seen(slave, k), os), ZremN(Seen(slave, k), os))
        /\ Plain(Seen(slave, k), ZremV(Seen(slave, k), os), ZremN(Seen(slave, k), os))
    BY ZremScoreOne DEF KInv
  <2>3. Seen(master, k) = Seen(slave, k) => om = os
    OBVIOUS
  <2> HIDE DEF m2, s2, om, os
  <2> QED BY <2>1, <2>2, <2>3, PlainKeeps
<1> QED BY <1>1, <1>2

-----------------------------------------------------------------------------
(* Hashes *)

\* A hash, perhaps without fields.
HashOK(h) ==
  /\ h = [enc |-> h.enc, map |-> h.map] /\ IsFiniteSet(h.map)
  /\ h.enc = "zipmap" => Cardinality(h.map) <= hash_max_zipmap_entries /\ ShortMap(h.map)

HashOf(v) == IF v = None THEN [enc |-> "zipmap", map |-> {}] ELSE v[2]
NoHashV(v) == v # None /\ v[1] # "hash"

\* The hash that a command finds or creates; it has the same fields on both sides.
LEMMA HashOfIs ==
  ASSUME NEW v, ValueOK(v), ~NoHashV(v)
  PROVE  /\ HashOK(HashOf(v)) /\ Data(v) = (IF v = None THEN v ELSE <<"hash", HashOf(v).map>>)
         /\ v # None => v = <<"hash", HashOf(v)>> /\ HashOf(v).map # {}
         /\ v = None => HashOf(v).map = {}
<1>1. CASE v = None
  <2>1. IsFiniteSet({}) /\ Cardinality({}) = 0 /\ 0 <= hash_max_zipmap_entries /\ ShortMap({})
    BY FS_EmptySet, KeyspaceLimitAssumption DEF ShortMap
  <2> DEFINE h == [enc |-> "zipmap", map |-> {}]
  <2>2. h.enc = "zipmap" /\ h.map = {} /\ h = [enc |-> h.enc, map |-> h.map]
    OBVIOUS
  <2>3. HashOf(v) = h
    BY <1>1 DEF HashOf
  <2> HIDE DEF h
  <2>4. Data(None) = None
    BY DEF Data, None
  <2> QED BY <1>1, <2>1, <2>2, <2>3, <2>4 DEF HashOK
<1>2. CASE v # None
  <2>1. v[1] = "hash" /\ HashOf(v) = v[2]
    BY <1>2 DEF NoHashV, HashOf
  <2>2. /\ v = <<"hash", [enc |-> v[2].enc, map |-> v[2].map]>> /\ IsFiniteSet(v[2].map) /\ v[2].map # {}
        /\ v[2].enc = "zipmap" => Cardinality(v[2].map) <= hash_max_zipmap_entries /\ ShortMap(v[2].map)
    BY <1>2, <2>1 DEF ValueOK, List, Set, ZSet
  <2>3. v[2] = [enc |-> v[2].enc, map |-> v[2].map] /\ v = <<"hash", v[2]>>
    BY <2>2
  <2> QED BY <1>2, <2>1, <2>2, <2>3 DEF HashOK, Data
<1> QED BY <1>1, <1>2

\* Both find the same fields.
LEMMA HashAlike ==
  ASSUME NEW v, ValueOK(v), NEW w, ValueOK(w), Data(v) = Data(w)
  PROVE  (NoHashV(v) <=> NoHashV(w)) /\ (~NoHashV(v) => HashOf(v).map = HashOf(w).map)
<1>1. NoHashV(v) <=> NoHashV(w)
  BY DataAlike DEF NoHashV
<1>2. ASSUME ~NoHashV(v) PROVE HashOf(v).map = HashOf(w).map
  <2>1. v = None <=> w = None
    BY DataAlike
  <2>2. CASE v = None
    BY <2>1, <2>2 DEF HashOf
  <2>3. CASE v # None
    <3>1. Data(v) = <<"hash", HashOf(v).map>> /\ Data(w) = <<"hash", HashOf(w).map>>
      BY <1>1, <1>2, <2>1, <2>3, HashOfIs
    <3> DEFINE a == HashOf(v).map
               b == HashOf(w).map
    <3> HIDE DEF a, b
    <3>2. <<"hash", a>> = <<"hash", b>>
      BY <3>1 DEF a, b
    <3>3. <<"hash", a>>[2] = a /\ <<"hash", b>>[2] = b
      OBVIOUS
    <3>4. a = b
      BY <3>2, <3>3
    <3> QED BY <3>4 DEF a, b
  <2> QED BY <2>2, <2>3
<1> QED BY <1>1, <1>2

\* A hash with fields is a value.
LEMMA HashValue ==
  ASSUME NEW h, HashOK(h), h.map # {}
  PROVE  /\ ValueOK(<<"hash", h>>) /\ NotEmpty(<<"hash", h>>)
         /\ Data(<<"hash", h>>) = <<"hash", h.map>>
         /\ Left(<<"hash", h>>) = <<"hash", h>>
<1> DEFINE v == <<"hash", h>>
<1>1. v[1] = "hash" /\ v[2] = h
  OBVIOUS
<1>2. v = <<"hash", [enc |-> v[2].enc, map |-> v[2].map]>>
  BY DEF HashOK
<1> HIDE DEF v
<1>3. ValueOK(v) /\ NotEmpty(v)
  BY <1>1, <1>2 DEF ValueOK, HashOK, NotEmpty
<1>4. Data(v) = <<"hash", h.map>>
  BY <1>1 DEF Data
<1>5. Size(v) = Cardinality(h.map)
  BY <1>1 DEF Size
<1>6. Cardinality(h.map) # 0
  BY FS_EmptySet DEF HashOK
<1>7. Left(v) = v
  BY <1>5, <1>6 DEF Left
<1> QED BY <1>3, <1>4, <1>7 DEF v

\* A conversion keeps the fields; without it what is to be stored fits into a zipmap.
LEMMA ConversionIs ==
  ASSUME NEW h, HashOK(h), NEW pairs
  PROVE  LET t == hashTryConversion(h, pairs)
         IN  /\ HashOK(t) /\ t.map = h.map
             /\ t.enc = "zipmap" => \A n \in DOMAIN pairs : Fits(pairs[n][1], pairs[n][2])
<1> DEFINE long == \E n \in DOMAIN pairs :
                     \/ TooLong(pairs[n][1])
                     \/ TooLong(pairs[n][2]) /\ (n < Len(pairs) \/ ~IsNumber(pairs[n][2]))
<1>1. hashTryConversion(h, pairs) = IF long THEN [h EXCEPT !.enc = "ht"] ELSE h
  BY DEF hashTryConversion
<1>2. [h EXCEPT !.enc = "ht"] = [enc |-> "ht", map |-> h.map]
  BY DEF HashOK
<1>3. HashOK([enc |-> "ht", map |-> h.map])
  BY DEF HashOK
<1>4. ~long => \A n \in DOMAIN pairs : Fits(pairs[n][1], pairs[n][2])
  BY DEF Fits
<1> HIDE DEF long
<1> QED BY <1>1, <1>2, <1>3, <1>4

\* A field is set, and a zipmap is small.
LEMMA HashSetIs ==
  ASSUME NEW h, HashOK(h), NEW f, NEW x, h.enc = "zipmap" => Fits(f, x)
  PROVE  LET t == hashSet(h, f, x)
         IN  HashOK(t) /\ t.map = But(h.map, f) \cup {<<f, x>>} /\ t.map # {} /\ (t.enc = "zipmap" => h.enc = "zipmap")
<1> DEFINE map == But(h.map, f) \cup {<<f, x>>}
           enc == IF Cardinality(map) > hash_max_zipmap_entries THEN "ht" ELSE h.enc
<1>1. But(h.map, f) \subseteq h.map
  BY DEF But
<1>2. IsFiniteSet(map) /\ map # {}
  BY <1>1, FS_Subset, FS_AddElement DEF HashOK
<1>3. Cardinality(map) \in Nat /\ hash_max_zipmap_entries \in Nat
  BY <1>2, FS_CardinalityType, KeyspaceLimitAssumption
<1>4. hashSet(h, f, x) = [enc |-> enc, map |-> map]
  BY DEF hashSet
<1>6. h.enc = "zipmap" => ShortMap(map)
  <2> SUFFICES ASSUME h.enc = "zipmap", NEW p \in map PROVE Fits(p[1], p[2])
    BY DEF ShortMap
  <2>1. CASE p \in h.map
    BY <2>1 DEF HashOK, ShortMap
  <2>2. CASE p = <<f, x>>
    BY <2>2
  <2> QED BY <1>1, <2>1, <2>2
<1> HIDE DEF map
<1>5. enc = "zipmap" => Cardinality(map) <= hash_max_zipmap_entries /\ h.enc = "zipmap"
  BY <1>3
<1> HIDE DEF enc
<1> QED BY <1>2, <1>4, <1>5, <1>6 DEF HashOK, map

HmsetAV(v, f, x) ==
  IF NoHashV(v) THEN v
  ELSE <<"hash", hashSet(hashTryConversion(HashOf(v), <<<<f, x>>>>), f, x)>>
HmsetAN(v) == IF NoHashV(v) THEN 0 ELSE 1

\* What HSET makes of a value.
LEMMA HmsetAIs ==
  ASSUME NEW v, ValueOK(v), NEW f, NEW x
  PROVE  /\ Change(v, HmsetAV(v, f, x), HmsetAN(v))
         /\ ~NoHashV(v) => Data(HmsetAV(v, f, x)) = <<"hash", But(HashOf(v).map, f) \cup {<<f, x>>}>>
<1>1. CASE NoHashV(v)
  BY <1>1 DEF HmsetAV, HmsetAN, Change
<1>2. CASE ~NoHashV(v)
  <2> DEFINE h == hashTryConversion(HashOf(v), <<<<f, x>>>>)
             t == hashSet(h, f, x)
  <2>1. HashOK(HashOf(v))
    BY <1>2, HashOfIs
  <2>2. HashOK(h) /\ h.map = HashOf(v).map /\ (h.enc = "zipmap" => Fits(f, x))
    <3> DEFINE pairs == <<<<f, x>>>>
    <3>1. 1 \in DOMAIN pairs /\ pairs[1][1] = f /\ pairs[1][2] = x
      OBVIOUS
    <3> HIDE DEF pairs
    <3> QED BY <2>1, <3>1, ConversionIs DEF pairs
  <2>3. HmsetAV(v, f, x) = <<"hash", t>> /\ HmsetAN(v) = 1
    BY <1>2 DEF HmsetAV, HmsetAN
  <2> HIDE DEF h
  <2>4. HashOK(t) /\ t.map = But(h.map, f) \cup {<<f, x>>} /\ t.map # {}
    BY <2>2, HashSetIs
  <2> HIDE DEF t
  <2>6. ValueOK(<<"hash", t>>) /\ NotEmpty(<<"hash", t>>) /\ Data(<<"hash", t>>) = <<"hash", t.map>>
    BY <2>4, HashValue
  <2> QED BY <1>2, <2>2, <2>3, <2>4, <2>6 DEF Change
<1> QED BY <1>1, <1>2

\* HSET.
LEMMA HmsetAOne ==
  ASSUME NEW s, Good(s), NEW k \in Key, NEW f, NEW x
  PROVE  LET v == Seen(s, k)
         IN  One(hmsetCommand(s, k, <<<<f, x>>>>), s, k, HmsetAV(v, f, x), HmsetAN(v)) /\ Change(v, HmsetAV(v, f, x), HmsetAN(v))
<1> DEFINE t == lookupKeyWrite(s, k)
           v == Seen(s, k)
<1>1. ValueOK(v) /\ Srv(s)
  BY SeenOK DEF Good
<1> HIDE DEF t
<1>2. t = lookupKeyWrite(s, k)
  BY DEF t
<1>3. /\ t.db[k] = v /\ One(t, s, k, v, 0)
      /\ \A w, n : n \in Nat => One(Dirty(Put(t, k, w), n), s, k, w, n)
      /\ \A w, n : n \in Nat => One(Dirty(PutOrDelete(t, k, w), n), s, k, Left(w), n)
  BY ONLY <1>1, <1>2, Written, k \in Key
<1>4. hmsetCommand(s, k, <<<<f, x>>>>) = IF NoHashV(v) THEN t ELSE Dirty(Put(t, k, HmsetAV(v, f, x)), 1)
  BY <1>3, SetOne DEF hmsetCommand, Missing, Is, Type, Val, t, HmsetAV, HashOf, NoHashV, HashAt, NoHash
<1> HIDE DEF v
<1>5. One(hmsetCommand(s, k, <<<<f, x>>>>), s, k, HmsetAV(v, f, x), HmsetAN(v))
  BY <1>3, <1>4 DEF HmsetAV, HmsetAN
<1>6. Change(v, HmsetAV(v, f, x), HmsetAN(v))
  BY <1>1, HmsetAIs
<1> QED BY <1>5, <1>6 DEF v

HmsetBV(v, f, x, g, y) ==
  IF NoHashV(v) THEN v
  ELSE <<"hash", hashSet(hashSet(hashTryConversion(HashOf(v), <<<<f, x>>, <<g, y>>>>), f, x), g, y)>>
HmsetBN(v) == IF NoHashV(v) THEN 0 ELSE 1

\* What HMSET of two fields makes of a value.
LEMMA HmsetBIs ==
  ASSUME NEW v, ValueOK(v), NEW f, NEW x, NEW g, NEW y
  PROVE  /\ Change(v, HmsetBV(v, f, x, g, y), HmsetBN(v))
         /\ ~NoHashV(v) => Data(HmsetBV(v, f, x, g, y)) = <<"hash", But(But(HashOf(v).map, f) \cup {<<f, x>>}, g) \cup {<<g, y>>}>>
<1>1. CASE NoHashV(v)
  BY <1>1 DEF HmsetBV, HmsetBN, Change
<1>2. CASE ~NoHashV(v)
  <2> DEFINE h == hashTryConversion(HashOf(v), <<<<f, x>>, <<g, y>>>>)
             t == hashSet(h, f, x)
             u == hashSet(t, g, y)
  <2>1. HashOK(HashOf(v))
    BY <1>2, HashOfIs
  <2>2. HashOK(h) /\ h.map = HashOf(v).map /\ (h.enc = "zipmap" => Fits(f, x) /\ Fits(g, y))
    <3> DEFINE pairs == <<<<f, x>>, <<g, y>>>>
    <3>1. /\ 1 \in DOMAIN pairs /\ pairs[1][1] = f /\ pairs[1][2] = x
          /\ 2 \in DOMAIN pairs /\ pairs[2][1] = g /\ pairs[2][2] = y
      OBVIOUS
    <3> HIDE DEF pairs
    <3> QED BY <2>1, <3>1, ConversionIs DEF pairs
  <2>3. HmsetBV(v, f, x, g, y) = <<"hash", u>> /\ HmsetBN(v) = 1
    BY <1>2 DEF HmsetBV, HmsetBN
  <2> HIDE DEF h
  <2>4. HashOK(t) /\ t.map = But(h.map, f) \cup {<<f, x>>} /\ t.map # {} /\ (t.enc = "zipmap" => Fits(g, y))
    BY <2>2, HashSetIs
  <2> HIDE DEF t
  <2>5. HashOK(u) /\ u.map = But(t.map, g) \cup {<<g, y>>} /\ u.map # {}
    <3>1. HashOK(t) /\ (t.enc = "zipmap" => Fits(g, y)) /\ u = hashSet(t, g, y)
      BY <2>4
    <3> HIDE DEF u
    <3> QED BY ONLY <3>1, HashSetIs
  <2> HIDE DEF u
  <2>6. ValueOK(<<"hash", u>>) /\ NotEmpty(<<"hash", u>>) /\ Data(<<"hash", u>>) = <<"hash", u.map>>
    BY <2>5, HashValue
  <2> QED BY <1>2, <2>2, <2>3, <2>4, <2>5, <2>6 DEF Change
<1> QED BY <1>1, <1>2

\* HMSET of two fields.
LEMMA HmsetBOne ==
  ASSUME NEW s, Good(s), NEW k \in Key, NEW f, NEW x, NEW g, NEW y
  PROVE  LET v == Seen(s, k)
         IN  /\ One(hmsetCommand(s, k, <<<<f, x>>, <<g, y>>>>), s, k, HmsetBV(v, f, x, g, y), HmsetBN(v))
             /\ Change(v, HmsetBV(v, f, x, g, y), HmsetBN(v))
<1> DEFINE t == lookupKeyWrite(s, k)
           v == Seen(s, k)
<1>1. ValueOK(v) /\ Srv(s)
  BY SeenOK DEF Good
<1> HIDE DEF t
<1>2. t = lookupKeyWrite(s, k)
  BY DEF t
<1>3. /\ t.db[k] = v /\ One(t, s, k, v, 0)
      /\ \A w, n : n \in Nat => One(Dirty(Put(t, k, w), n), s, k, w, n)
      /\ \A w, n : n \in Nat => One(Dirty(PutOrDelete(t, k, w), n), s, k, Left(w), n)
  BY ONLY <1>1, <1>2, Written, k \in Key
<1>4. hmsetCommand(s, k, <<<<f, x>>, <<g, y>>>>) = IF NoHashV(v) THEN t ELSE Dirty(Put(t, k, HmsetBV(v, f, x, g, y)), 1)
  BY <1>3, SetTwo DEF hmsetCommand, Missing, Is, Type, Val, t, HmsetBV, HashOf, NoHashV, HashAt, NoHash
<1> HIDE DEF v
<1>5. One(hmsetCommand(s, k, <<<<f, x>>, <<g, y>>>>), s, k, HmsetBV(v, f, x, g, y), HmsetBN(v))
  BY <1>3, <1>4 DEF HmsetBV, HmsetBN
<1>6. Change(v, HmsetBV(v, f, x, g, y), HmsetBN(v))
  BY <1>1, HmsetBIs
<1> QED BY <1>5, <1>6 DEF v

HsetnxH(v, f, x) == hashTryConversion(HashOf(v), <<<<f, x>>>>)
HsetnxV(v, f, x) ==
  IF NoHashV(v) THEN v
  ELSE <<"hash", IF Has(HsetnxH(v, f, x).map, f) THEN HsetnxH(v, f, x) ELSE hashSet(HsetnxH(v, f, x), f, x)>>
HsetnxN(v, f, x) == IF NoHashV(v) \/ Has(HsetnxH(v, f, x).map, f) THEN 0 ELSE 1

\* What HSETNX makes of a value.
LEMMA HsetnxIs ==
  ASSUME NEW v, ValueOK(v), NEW f, NEW x
  PROVE  /\ Change(v, HsetnxV(v, f, x), HsetnxN(v, f, x))
         /\ ~NoHashV(v) => Data(HsetnxV(v, f, x)) =
              <<"hash", IF Has(HashOf(v).map, f) THEN HashOf(v).map ELSE But(HashOf(v).map, f) \cup {<<f, x>>}>>
<1>1. CASE NoHashV(v)
  BY <1>1 DEF HsetnxV, HsetnxN, Change
<1>2. CASE ~NoHashV(v)
  <2> DEFINE h == HsetnxH(v, f, x)
             t == hashSet(h, f, x)
  <2>1. /\ HashOK(HashOf(v)) /\ (v = None => HashOf(v).map = {})
        /\ v # None => Data(v) = <<"hash", HashOf(v).map>>
    BY <1>2, HashOfIs
  <2>2. HashOK(h) /\ h.map = HashOf(v).map /\ (h.enc = "zipmap" => Fits(f, x))
    <3> DEFINE pairs == <<<<f, x>>>>
    <3>1. 1 \in DOMAIN pairs /\ pairs[1][1] = f /\ pairs[1][2] = x
      OBVIOUS
    <3> HIDE DEF pairs
    <3> QED BY <2>1, <3>1, ConversionIs DEF pairs, HsetnxH
  <2>3. /\ HsetnxV(v, f, x) = <<"hash", IF Has(h.map, f) THEN h ELSE t>>
        /\ HsetnxN(v, f, x) = IF Has(h.map, f) THEN 0 ELSE 1
    BY <1>2 DEF HsetnxV, HsetnxN
  <2> HIDE DEF h
  <2>4. HashOK(t) /\ t.map = But(h.map, f) \cup {<<f, x>>} /\ t.map # {}
    BY <2>2, HashSetIs
  <2> HIDE DEF t
  <2>5. CASE Has(h.map, f)
    <3>1. h.map # {} /\ v # None
      BY <2>1, <2>2, <2>5 DEF Has
    <3>2. ValueOK(<<"hash", h>>) /\ NotEmpty(<<"hash", h>>) /\ Data(<<"hash", h>>) = <<"hash", h.map>>
      BY <2>2, <3>1, HashValue
    <3> QED BY <1>2, <2>1, <2>2, <2>3, <2>5, <3>1, <3>2 DEF Change
  <2>6. CASE ~Has(h.map, f)
    <3>1. ValueOK(<<"hash", t>>) /\ NotEmpty(<<"hash", t>>) /\ Data(<<"hash", t>>) = <<"hash", t.map>>
      BY <2>4, HashValue
    <3> QED BY <1>2, <2>2, <2>3, <2>4, <2>6, <3>1 DEF Change
  <2> QED BY <2>5, <2>6
<1> QED BY <1>1, <1>2

\* HSETNX.
LEMMA HsetnxOne ==
  ASSUME NEW s, Good(s), NEW k \in Key, NEW f, NEW x
  PROVE  LET v == Seen(s, k)
         IN  One(hsetnxCommand(s, k, f, x), s, k, HsetnxV(v, f, x), HsetnxN(v, f, x)) /\ Change(v, HsetnxV(v, f, x), HsetnxN(v, f, x))
<1> DEFINE t == lookupKeyWrite(s, k)
           v == Seen(s, k)
<1>1. ValueOK(v) /\ Srv(s)
  BY SeenOK DEF Good
<1> HIDE DEF t
<1>2. t = lookupKeyWrite(s, k)
  BY DEF t
<1>3. /\ t.db[k] = v /\ One(t, s, k, v, 0)
      /\ \A w, n : n \in Nat => One(Dirty(Put(t, k, w), n), s, k, w, n)
      /\ \A w, n : n \in Nat => One(Dirty(PutOrDelete(t, k, w), n), s, k, Left(w), n)
  BY ONLY <1>1, <1>2, Written, k \in Key
<1>4. hsetnxCommand(s, k, f, x) = IF NoHashV(v) THEN t
                              ELSE IF HsetnxN(v, f, x) = 0 THEN Put(t, k, HsetnxV(v, f, x))
                              ELSE Dirty(Put(t, k, HsetnxV(v, f, x)), 1)
  BY <1>3 DEF hsetnxCommand, Missing, Is, Type, Val, t, HsetnxV, HsetnxN, HsetnxH, HashOf, NoHashV, HashAt, NoHash
<1> HIDE DEF v
<1>5. One(hsetnxCommand(s, k, f, x), s, k, HsetnxV(v, f, x), HsetnxN(v, f, x))
  <2>1. HsetnxN(v, f, x) \in {0, 1} /\ (NoHashV(v) => HsetnxV(v, f, x) = v /\ HsetnxN(v, f, x) = 0)
    BY DEF HsetnxN, HsetnxV
  <2>2. \A w : One(Put(t, k, w), s, k, w, 0)
    BY ONLY <1>1, <1>2, Written, k \in Key
  <2> QED BY <1>3, <1>4, <2>1, <2>2
<1>6. Change(v, HsetnxV(v, f, x), HsetnxN(v, f, x))
  BY <1>1, HsetnxIs
<1> QED BY <1>5, <1>6 DEF v

HincrN(v, f, incr) ==
  LET map == HashOf(v).map
      value == IF Has(map, f) THEN Number(ScoreIn(map, f)) ELSE 0
  IN  IF NoHashV(v) \/ (Has(map, f) /\ ~IsNumber(ScoreIn(map, f))) \/ NumberText(value + incr) = {} THEN 0 ELSE 1
HincrX(v, f, incr) ==
  LET map == HashOf(v).map
      value == IF Has(map, f) THEN Number(ScoreIn(map, f)) ELSE 0
  IN  CHOOSE t \in NumberText(value + incr) : TRUE
HincrV(v, f, incr) == IF HincrN(v, f, incr) = 0 THEN v ELSE <<"hash", hashSet(HashOf(v), f, HincrX(v, f, incr))>>

\* What HINCRBY makes of a value.
LEMMA HincrIs ==
  ASSUME NEW v, ValueOK(v), NEW f, NEW incr
  PROVE  /\ Change(v, HincrV(v, f, incr), HincrN(v, f, incr))
         /\ HincrN(v, f, incr) # 0 => ~NoHashV(v) /\ Data(HincrV(v, f, incr)) =
              <<"hash", But(HashOf(v).map, f) \cup {<<f, HincrX(v, f, incr)>>}>>
<1>1. CASE HincrN(v, f, incr) = 0
  BY <1>1 DEF HincrV, Change
<1>2. CASE HincrN(v, f, incr) # 0
  <2> DEFINE h == HashOf(v)
             x == HincrX(v, f, incr)
             t == hashSet(h, f, x)
  <2>1. HincrN(v, f, incr) = 1 /\ ~NoHashV(v) /\ HincrV(v, f, incr) = <<"hash", t>>
    BY <1>2 DEF HincrN, HincrV
  <2>2. HashOK(h)
    BY <2>1, HashOfIs
  <2>5. Fits(f, x)
    BY <2>1 DEF HincrN, HincrX, NumberText, Numerals, Fits
  <2> HIDE DEF h, x
  <2>3. HashOK(t) /\ t.map = But(h.map, f) \cup {<<f, x>>} /\ t.map # {}
    BY <2>2, <2>5, HashSetIs
  <2> HIDE DEF t
  <2>4. ValueOK(<<"hash", t>>) /\ NotEmpty(<<"hash", t>>) /\ Data(<<"hash", t>>) = <<"hash", t.map>>
    BY <2>3, HashValue
  <2> QED BY <1>2, <2>1, <2>3, <2>4 DEF Change, h, x
<1> QED BY <1>1, <1>2

\* HINCRBY.
LEMMA HincrOne ==
  ASSUME NEW s, Good(s), NEW k \in Key, NEW f, NEW incr
  PROVE  LET v == Seen(s, k)
         IN  One(hincrbyCommand(s, k, f, incr), s, k, HincrV(v, f, incr), HincrN(v, f, incr)) /\ Change(v, HincrV(v, f, incr), HincrN(v, f, incr))
<1> DEFINE t == lookupKeyWrite(s, k)
           v == Seen(s, k)
<1>1. ValueOK(v) /\ Srv(s)
  BY SeenOK DEF Good
<1> HIDE DEF t
<1>2. t = lookupKeyWrite(s, k)
  BY DEF t
<1>3. /\ t.db[k] = v /\ One(t, s, k, v, 0)
      /\ \A w, n : n \in Nat => One(Dirty(Put(t, k, w), n), s, k, w, n)
      /\ \A w, n : n \in Nat => One(Dirty(PutOrDelete(t, k, w), n), s, k, Left(w), n)
  BY ONLY <1>1, <1>2, Written, k \in Key
<1>4. hincrbyCommand(s, k, f, incr) = IF HincrN(v, f, incr) = 0 THEN t ELSE Dirty(Put(t, k, HincrV(v, f, incr)), 1)
  BY <1>3 DEF hincrbyCommand, Missing, Is, Type, Val, t, HincrV, HincrN, HincrX, HashOf, NoHashV, HashAt, NoHash
<1> HIDE DEF v
<1>5. One(hincrbyCommand(s, k, f, incr), s, k, HincrV(v, f, incr), HincrN(v, f, incr))
  <2>1. HincrN(v, f, incr) \in {0, 1} /\ (HincrN(v, f, incr) = 0 => HincrV(v, f, incr) = v)
    BY DEF HincrN, HincrV
  <2> QED BY <1>3, <1>4, <2>1
<1>6. Change(v, HincrV(v, f, incr), HincrN(v, f, incr))
  BY <1>1, HincrIs
<1> QED BY <1>5, <1>6 DEF v

HdelN(v, f) == IF v[1] # "hash" \/ ~Has(HashOf(v).map, f) THEN 0 ELSE 1
HdelV(v, f) == IF HdelN(v, f) = 0 THEN v ELSE Left(<<"hash", [HashOf(v) EXCEPT !.map = But(@, f)]>>)

\* What HDEL makes of a value.
LEMMA HdelIs ==
  ASSUME NEW v, ValueOK(v), NEW f
  PROVE  /\ Change(v, HdelV(v, f), HdelN(v, f))
         /\ HdelN(v, f) # 0 => ~NoHashV(v) /\ Data(HdelV(v, f)) =
              IF But(HashOf(v).map, f) = {} THEN None ELSE <<"hash", But(HashOf(v).map, f)>>
<1>1. CASE HdelN(v, f) = 0
  BY <1>1 DEF HdelV, Change
<1>2. CASE HdelN(v, f) # 0
  <2> DEFINE h == HashOf(v)
             t == [h EXCEPT !.map = But(@, f)]
             w == <<"hash", t>>
  <2>1. HdelN(v, f) = 1 /\ ~NoHashV(v) /\ HdelV(v, f) = Left(w)
    BY <1>2 DEF HdelN, HdelV, NoHashV
  <2>2. HashOK(h)
    BY <2>1, HashOfIs
  <2> HIDE DEF h
  <2>3. t = [enc |-> h.enc, map |-> But(h.map, f)]
    BY <2>2 DEF HashOK
  <2>4. But(h.map, f) \subseteq h.map /\ IsFiniteSet(h.map)
    BY <2>2 DEF But, HashOK
  <2>5. /\ IsFiniteSet(But(h.map, f)) /\ Cardinality(But(h.map, f)) \in Nat
        /\ Cardinality(h.map) \in Nat /\ Cardinality(But(h.map, f)) <= Cardinality(h.map)
    BY <2>4, FS_Subset, FS_CardinalityType
  <2> HIDE DEF t
  <2>6. t.enc = h.enc /\ t.map = But(h.map, f) /\ t = [enc |-> t.enc, map |-> t.map]
    BY <2>3
  <2>10. ShortMap(h.map) => ShortMap(t.map)
    BY <2>4, <2>6 DEF ShortMap
  <2>7. HashOK(t)
    BY <2>2, <2>5, <2>6, <2>10, KeyspaceLimitAssumption DEF HashOK
  <2>8. CASE t.map = {}
    <3>1. Size(w) = 0
      BY <2>8, FS_EmptySet DEF Size
    <3>2. Left(w) = None /\ ValueOK(None) /\ NotEmpty(None) /\ Data(None) = None
      BY <3>1 DEF Left, ValueOK, NotEmpty, None, Data
    <3> QED BY <1>2, <2>1, <2>6, <2>8, <3>2 DEF Change, h
  <2>9. CASE t.map # {}
    <3>1. ValueOK(w) /\ NotEmpty(w) /\ Data(w) = <<"hash", t.map>> /\ Left(w) = w
      BY <2>7, <2>9, HashValue
    <3> HIDE DEF w
    <3> QED BY <1>2, <2>1, <2>6, <2>9, <3>1 DEF Change, h
  <2> QED BY <2>8, <2>9
<1> QED BY <1>1, <1>2

\* HDEL.
LEMMA HdelOne ==
  ASSUME NEW s, Good(s), NEW k \in Key, NEW f
  PROVE  LET v == Seen(s, k)
         IN  One(hdelCommand(s, k, f), s, k, HdelV(v, f), HdelN(v, f)) /\ Change(v, HdelV(v, f), HdelN(v, f))
<1> DEFINE t == lookupKeyWrite(s, k)
           v == Seen(s, k)
<1>1. ValueOK(v) /\ Srv(s)
  BY SeenOK DEF Good
<1> HIDE DEF t
<1>2. t = lookupKeyWrite(s, k)
  BY DEF t
<1>3. /\ t.db[k] = v /\ One(t, s, k, v, 0)
      /\ \A w, n : n \in Nat => One(Dirty(Put(t, k, w), n), s, k, w, n)
      /\ \A w, n : n \in Nat => One(Dirty(PutOrDelete(t, k, w), n), s, k, Left(w), n)
  BY ONLY <1>1, <1>2, Written, k \in Key
<1>4. hdelCommand(s, k, f) = IF HdelN(v, f) = 0 THEN t
                           ELSE Dirty(PutOrDelete(t, k, <<"hash", [HashOf(v) EXCEPT !.map = But(@, f)]>>), 1)
  BY <1>3 DEF hdelCommand, Missing, Is, Type, Val, t, HdelN, HashOf, None
<1> HIDE DEF v
<1>5. One(hdelCommand(s, k, f), s, k, HdelV(v, f), HdelN(v, f))
  <2>1. HdelN(v, f) \in {0, 1}
    BY DEF HdelN
  <2>2. CASE HdelN(v, f) = 0
    BY <1>3, <1>4, <2>2 DEF HdelV
  <2>3. CASE HdelN(v, f) = 1
    <3> DEFINE w == <<"hash", [HashOf(v) EXCEPT !.map = But(@, f)]>>
    <3>1. hdelCommand(s, k, f) = Dirty(PutOrDelete(t, k, w), 1) /\ HdelV(v, f) = Left(w)
      BY <1>4, <2>3 DEF HdelV
    <3> HIDE DEF w
    <3> QED BY <1>3, <2>3, <3>1
  <2> QED BY <2>1, <2>2, <2>3
<1>6. Change(v, HdelV(v, f), HdelN(v, f))
  BY <1>1, HdelIs
<1> QED BY <1>5, <1>6 DEF v

\* The commands on hashes keep the invariant: what a hash holds does not depend on how it is kept.
LEMMA HashKeeps ==
  ASSUME KInv, exact, hashCommands
  PROVE  KInv'
<1> PICK k \in Key, f \in Elem :
           \/ \E v \in Elem : Call(LAMBDA s : hmsetCommand(s, k, <<<<f, v>>>>))
           \/ \E g, v \in Elem : g # f /\ Call(LAMBDA s : hmsetCommand(s, k, <<<<f, v>>, <<g, v>>>>))
           \/ \E v \in Elem : Call(LAMBDA s : hsetnxCommand(s, k, f, v))
           \/ \E incr \in {1, 10} : Call(LAMBDA s : hincrbyCommand(s, k, f, incr))
           \/ Call(LAMBDA s : hdelCommand(s, k, f))
  BY DEF hashCommands
<1>1. ASSUME NEW x \in Elem, Call(LAMBDA s : hmsetCommand(s, k, <<<<f, x>>>>)) PROVE KInv'
  <2> DEFINE m2 == hmsetCommand(master, k, <<<<f, x>>>>)
             s2 == hmsetCommand(slave, k, <<<<f, x>>>>)
             vm == Seen(master, k)
             vs == Seen(slave, k)
  <2>1. /\ master' = [m2 EXCEPT !.dirty = 0] /\ slave' = IF m2.dirty > 0 THEN [s2 EXCEPT !.dirty = 0] ELSE slave
        /\ outlived' \subseteq Outlived
        /\ exact' = exact /\ exact' \in BOOLEAN
    BY <1>1 DEF Call, Call2, Propagated, KInv
  <2>2. /\ One(m2, master, k, HmsetAV(vm, f, x), HmsetAN(vm)) /\ Change(vm, HmsetAV(vm, f, x), HmsetAN(vm))
        /\ One(s2, slave, k, HmsetAV(vs, f, x), HmsetAN(vs)) /\ Change(vs, HmsetAV(vs, f, x), HmsetAN(vs))
    BY HmsetAOne DEF KInv
  <2>3. ValueOK(vm) /\ ValueOK(vs)
    BY SeenOK DEF KInv
  <2> HIDE DEF m2, s2, vm, vs
  <2>4. ASSUME Data(vm) = Data(vs) PROVE Data(HmsetAV(vm, f, x)) = Data(HmsetAV(vs, f, x))
    <3>1. (NoHashV(vm) <=> NoHashV(vs)) /\ (~NoHashV(vm) => HashOf(vm).map = HashOf(vs).map)
      BY <2>3, <2>4, HashAlike
    <3>2. CASE NoHashV(vm)
      <4>1. HmsetAV(vm, f, x) = vm /\ HmsetAV(vs, f, x) = vs
        BY <3>1, <3>2 DEF HmsetAV
      <4> QED BY <2>4, <4>1
    <3>3. CASE ~NoHashV(vm)
      <4>1. /\ Data(HmsetAV(vm, f, x)) = <<"hash", But(HashOf(vm).map, f) \cup {<<f, x>>}>>
            /\ Data(HmsetAV(vs, f, x)) = <<"hash", But(HashOf(vs).map, f) \cup {<<f, x>>}>>
        BY <2>3, <3>1, <3>3, HmsetAIs
      <4> QED BY <3>1, <3>3, <4>1
    <3> QED BY <3>2, <3>3
  <2> QED BY <2>1, <2>2, <2>4, OneKeeps DEF vm, vs
<1>2. ASSUME NEW g \in Elem, NEW x \in Elem, Call(LAMBDA s : hmsetCommand(s, k, <<<<f, x>>, <<g, x>>>>)) PROVE KInv'
  <2> DEFINE m2 == hmsetCommand(master, k, <<<<f, x>>, <<g, x>>>>)
             s2 == hmsetCommand(slave, k, <<<<f, x>>, <<g, x>>>>)
             vm == Seen(master, k)
             vs == Seen(slave, k)
  <2>1. /\ master' = [m2 EXCEPT !.dirty = 0] /\ slave' = IF m2.dirty > 0 THEN [s2 EXCEPT !.dirty = 0] ELSE slave
        /\ outlived' \subseteq Outlived
        /\ exact' = exact /\ exact' \in BOOLEAN
    BY <1>2 DEF Call, Call2, Propagated, KInv
  <2>2. /\ One(m2, master, k, HmsetBV(vm, f, x, g, x), HmsetBN(vm)) /\ Change(vm, HmsetBV(vm, f, x, g, x), HmsetBN(vm))
        /\ One(s2, slave, k, HmsetBV(vs, f, x, g, x), HmsetBN(vs)) /\ Change(vs, HmsetBV(vs, f, x, g, x), HmsetBN(vs))
    BY HmsetBOne DEF KInv
  <2>3. ValueOK(vm) /\ ValueOK(vs)
    BY SeenOK DEF KInv
  <2> HIDE DEF m2, s2, vm, vs
  <2>4. ASSUME Data(vm) = Data(vs) PROVE Data(HmsetBV(vm, f, x, g, x)) = Data(HmsetBV(vs, f, x, g, x))
    <3>1. (NoHashV(vm) <=> NoHashV(vs)) /\ (~NoHashV(vm) => HashOf(vm).map = HashOf(vs).map)
      BY <2>3, <2>4, HashAlike
    <3>2. CASE NoHashV(vm)
      <4>1. HmsetBV(vm, f, x, g, x) = vm /\ HmsetBV(vs, f, x, g, x) = vs
        BY <3>1, <3>2 DEF HmsetBV
      <4> QED BY <2>4, <4>1
    <3>3. CASE ~NoHashV(vm)
      <4>1. /\ Data(HmsetBV(vm, f, x, g, x)) = <<"hash", But(But(HashOf(vm).map, f) \cup {<<f, x>>}, g) \cup {<<g, x>>}>>
            /\ Data(HmsetBV(vs, f, x, g, x)) = <<"hash", But(But(HashOf(vs).map, f) \cup {<<f, x>>}, g) \cup {<<g, x>>}>>
        BY <2>3, <3>1, <3>3, HmsetBIs
      <4> QED BY <3>1, <3>3, <4>1
    <3> QED BY <3>2, <3>3
  <2> QED BY <2>1, <2>2, <2>4, OneKeeps DEF vm, vs
<1>3. ASSUME NEW x \in Elem, Call(LAMBDA s : hsetnxCommand(s, k, f, x)) PROVE KInv'
  <2> DEFINE m2 == hsetnxCommand(master, k, f, x)
             s2 == hsetnxCommand(slave, k, f, x)
             vm == Seen(master, k)
             vs == Seen(slave, k)
  <2>1. /\ master' = [m2 EXCEPT !.dirty = 0] /\ slave' = IF m2.dirty > 0 THEN [s2 EXCEPT !.dirty = 0] ELSE slave
        /\ outlived' \subseteq Outlived
        /\ exact' = exact /\ exact' \in BOOLEAN
    BY <1>3 DEF Call, Call2, Propagated, KInv
  <2>2. /\ One(m2, master, k, HsetnxV(vm, f, x), HsetnxN(vm, f, x)) /\ Change(vm, HsetnxV(vm, f, x), HsetnxN(vm, f, x))
        /\ One(s2, slave, k, HsetnxV(vs, f, x), HsetnxN(vs, f, x)) /\ Change(vs, HsetnxV(vs, f, x), HsetnxN(vs, f, x))
    BY HsetnxOne DEF KInv
  <2>3. ValueOK(vm) /\ ValueOK(vs)
    BY SeenOK DEF KInv
  <2> HIDE DEF m2, s2, vm, vs
  <2>4. ASSUME Data(vm) = Data(vs) PROVE Data(HsetnxV(vm, f, x)) = Data(HsetnxV(vs, f, x))
    <3>1. (NoHashV(vm) <=> NoHashV(vs)) /\ (~NoHashV(vm) => HashOf(vm).map = HashOf(vs).map)
      BY <2>3, <2>4, HashAlike
    <3>2. CASE NoHashV(vm)
      <4>1. HsetnxV(vm, f, x) = vm /\ HsetnxV(vs, f, x) = vs
        BY <3>1, <3>2 DEF HsetnxV
      <4> QED BY <2>4, <4>1
    <3>3. CASE ~NoHashV(vm)
      <4>1. /\ Data(HsetnxV(vm, f, x)) = <<"hash", IF Has(HashOf(vm).map, f) THEN HashOf(vm).map ELSE But(HashOf(vm).map, f) \cup {<<f, x>>}>>
            /\ Data(HsetnxV(vs, f, x)) = <<"hash", IF Has(HashOf(vs).map, f) THEN HashOf(vs).map ELSE But(HashOf(vs).map, f) \cup {<<f, x>>}>>
        BY <2>3, <3>1, <3>3, HsetnxIs
      <4> QED BY <3>1, <3>3, <4>1
    <3> QED BY <3>2, <3>3
  <2> QED BY <2>1, <2>2, <2>4, OneKeeps DEF vm, vs
<1>4. ASSUME NEW incr \in {1, 10}, Call(LAMBDA s : hincrbyCommand(s, k, f, incr)) PROVE KInv'
  <2> DEFINE m2 == hincrbyCommand(master, k, f, incr)
             s2 == hincrbyCommand(slave, k, f, incr)
             vm == Seen(master, k)
             vs == Seen(slave, k)
  <2>1. /\ master' = [m2 EXCEPT !.dirty = 0] /\ slave' = IF m2.dirty > 0 THEN [s2 EXCEPT !.dirty = 0] ELSE slave
        /\ outlived' \subseteq Outlived
        /\ exact' = exact /\ exact' \in BOOLEAN
    BY <1>4 DEF Call, Call2, Propagated, KInv
  <2>2. /\ One(m2, master, k, HincrV(vm, f, incr), HincrN(vm, f, incr)) /\ Change(vm, HincrV(vm, f, incr), HincrN(vm, f, incr))
        /\ One(s2, slave, k, HincrV(vs, f, incr), HincrN(vs, f, incr)) /\ Change(vs, HincrV(vs, f, incr), HincrN(vs, f, incr))
    BY HincrOne DEF KInv
  <2>3. ValueOK(vm) /\ ValueOK(vs)
    BY SeenOK DEF KInv
  <2> HIDE DEF m2, s2, vm, vs
  <2>4. ASSUME Data(vm) = Data(vs) PROVE Data(HincrV(vm, f, incr)) = Data(HincrV(vs, f, incr))
    <3>1. (NoHashV(vm) <=> NoHashV(vs)) /\ (~NoHashV(vm) => HashOf(vm).map = HashOf(vs).map)
      BY <2>3, <2>4, HashAlike
    <3>4. HincrN(vm, f, incr) = HincrN(vs, f, incr)
      <4>1. CASE NoHashV(vm)
        BY <3>1, <4>1 DEF HincrN
      <4>2. CASE ~NoHashV(vm)
        <5>1. vm[1] = "hash" <=> vs[1] = "hash"
          BY <2>4, DataAlike
        <5> QED BY <3>1, <4>2, <5>1 DEF HincrN
      <4> QED BY <4>1, <4>2
    <3>2. CASE HincrN(vm, f, incr) = 0
      <4>1. HincrV(vm, f, incr) = vm /\ HincrV(vs, f, incr) = vs
        BY <3>4, <3>2 DEF HincrV
      <4> QED BY <2>4, <4>1
    <3>3. CASE HincrN(vm, f, incr) # 0
      <4>1. /\ ~NoHashV(vm)
            /\ Data(HincrV(vm, f, incr)) = <<"hash", But(HashOf(vm).map, f) \cup {<<f, HincrX(vm, f, incr)>>}>>
            /\ Data(HincrV(vs, f, incr)) = <<"hash", But(HashOf(vs).map, f) \cup {<<f, HincrX(vs, f, incr)>>}>>
        BY <2>3, <3>3, <3>4, HincrIs
      <4>2. HashOf(vm).map = HashOf(vs).map
        BY <3>1, <4>1
      <4> QED BY <4>1, <4>2 DEF HincrX
    <3> QED BY <3>2, <3>3
  <2> QED BY <2>1, <2>2, <2>4, OneKeeps DEF vm, vs
<1>5. ASSUME Call(LAMBDA s : hdelCommand(s, k, f)) PROVE KInv'
  <2> DEFINE m2 == hdelCommand(master, k, f)
             s2 == hdelCommand(slave, k, f)
             vm == Seen(master, k)
             vs == Seen(slave, k)
  <2>1. /\ master' = [m2 EXCEPT !.dirty = 0] /\ slave' = IF m2.dirty > 0 THEN [s2 EXCEPT !.dirty = 0] ELSE slave
        /\ outlived' \subseteq Outlived
        /\ exact' = exact /\ exact' \in BOOLEAN
    BY <1>5 DEF Call, Call2, Propagated, KInv
  <2>2. /\ One(m2, master, k, HdelV(vm, f), HdelN(vm, f)) /\ Change(vm, HdelV(vm, f), HdelN(vm, f))
        /\ One(s2, slave, k, HdelV(vs, f), HdelN(vs, f)) /\ Change(vs, HdelV(vs, f), HdelN(vs, f))
    BY HdelOne DEF KInv
  <2>3. ValueOK(vm) /\ ValueOK(vs)
    BY SeenOK DEF KInv
  <2> HIDE DEF m2, s2, vm, vs
  <2>4. ASSUME Data(vm) = Data(vs) PROVE Data(HdelV(vm, f)) = Data(HdelV(vs, f))
    <3>1. (NoHashV(vm) <=> NoHashV(vs)) /\ (~NoHashV(vm) => HashOf(vm).map = HashOf(vs).map)
      BY <2>3, <2>4, HashAlike
    <3>4. HdelN(vm, f) = HdelN(vs, f)
      <4>1. CASE NoHashV(vm)
        BY <3>1, <4>1 DEF HdelN, NoHashV
      <4>2. CASE ~NoHashV(vm)
        <5>1. vm[1] = "hash" <=> vs[1] = "hash"
          BY <2>4, DataAlike
        <5> QED BY <3>1, <4>2, <5>1 DEF HdelN
      <4> QED BY <4>1, <4>2
    <3>2. CASE HdelN(vm, f) = 0
      <4>1. HdelV(vm, f) = vm /\ HdelV(vs, f) = vs
        BY <3>4, <3>2 DEF HdelV
      <4> QED BY <2>4, <4>1
    <3>3. CASE HdelN(vm, f) # 0
      <4>1. /\ ~NoHashV(vm)
            /\ Data(HdelV(vm, f)) = (IF But(HashOf(vm).map, f) = {} THEN None ELSE <<"hash", But(HashOf(vm).map, f)>>)
            /\ Data(HdelV(vs, f)) = (IF But(HashOf(vs).map, f) = {} THEN None ELSE <<"hash", But(HashOf(vs).map, f)>>)
        BY <2>3, <3>3, <3>4, HdelIs
      <4>2. HashOf(vm).map = HashOf(vs).map
        BY <3>1, <4>1
      <4> QED BY <4>1, <4>2
    <3> QED BY <3>2, <3>3
  <2> QED BY <2>1, <2>2, <2>4, OneKeeps DEF vm, vs
<1> QED BY <1>1, <1>2, <1>3, <1>4, <1>5

-----------------------------------------------------------------------------
(* Commands that look several keys up and write several *)

\* t is s after the keys of K have been looked up for writing.
Looked(t, s, K) ==
  /\ Srv(t) /\ t.expires = s.expires \ K
  /\ \A x \in Key : t.db[x] = IF x \in K THEN Seen(s, x) ELSE s.db[x]
  /\ t.dirty >= s.dirty /\ (t.dirty = s.dirty => K \cap s.expires = {})

\* No key, and one more.
LEMMA LookedNone ==
  ASSUME NEW s, Srv(s)
  PROVE  Looked(s, s, {})
<1>1. s.dirty \in Nat
  BY DEF Srv
<1> QED BY <1>1 DEF Looked

\* One more key is looked up.
LEMMA LookedMore ==
  ASSUME NEW s, Srv(s), NEW K, NEW t, Looked(t, s, K), NEW k \in Key, NEW L, L = K \cup {k}
  PROVE  Looked(lookupKeyWrite(t, k), s, L)
<1> DEFINE u == lookupKeyWrite(t, k)
<1>1. /\ Srv(u) /\ u.expires = t.expires \ {k} /\ u.db[k] = Seen(t, k)
      /\ u.dirty = t.dirty + IF k \in t.expires THEN 1 ELSE 0
      /\ \A x \in Key : x # k => u.db[x] = t.db[x]
  BY WriteIs DEF Looked
<1> HIDE DEF u
<1>2. t.dirty \in Nat /\ s.dirty \in Nat
  BY DEF Looked, Srv
<1>3. u.expires = s.expires \ L
  BY <1>1 DEF Looked
<1>4. Seen(t, k) = Seen(s, k)
  BY DEF Seen, Looked
<1>5. ASSUME NEW x \in Key PROVE u.db[x] = IF x \in L THEN Seen(s, x) ELSE s.db[x]
  <2>1. CASE x = k
    BY <1>1, <1>4, <2>1
  <2>2. CASE x # k
    <3>1. u.db[x] = t.db[x] /\ (x \in K <=> x \in L)
      BY <1>1, <2>2
    <3> QED BY <3>1 DEF Looked
  <2> QED BY <2>1, <2>2
<1>6. u.dirty >= s.dirty
  BY <1>1, <1>2 DEF Looked
<1>7. ASSUME u.dirty = s.dirty PROVE L \cap s.expires = {}
  <2>1. t.dirty >= s.dirty
    BY DEF Looked
  <2>2. t.dirty = s.dirty /\ k \notin t.expires
    BY <1>1, <1>2, <1>7, <2>1
  <2>3. K \cap s.expires = {} /\ t.expires = s.expires \ K
    BY <2>2 DEF Looked
  <2> QED BY <2>2, <2>3
<1> QED BY <1>1, <1>3, <1>5, <1>6, <1>7 DEF Looked, u

\* Both find the same.
LEMMA LookedAlike ==
  ASSUME KInv, exact, NEW K, K \subseteq Key, NEW m1, NEW s1, Looked(m1, master, K), Looked(s1, slave, K)
  PROVE  /\ Good(m1) /\ Good(s1) /\ Full(m1) /\ Full(s1)
         /\ \A x \in Key : AgreeAt(m1, s1, x)
         /\ \A x \in K : Data(m1.db[x]) = Data(s1.db[x])
         /\ \A x \in K : x \notin m1.expires /\ x \notin s1.expires
         /\ m1.dirty \in Nat
         /\ m1.dirty = 0 => m1.expires = master.expires /\ \A x \in Key : m1.db[x] = master.db[x]
<1>1. /\ Good(master) /\ Good(slave) /\ master.dirty = 0 /\ Full(master) /\ Full(slave)
      /\ \A x \in Key : AgreeAt(master, slave, x)
  BY DEF KInv
<1>2. ASSUME NEW s, Good(s), NEW t, Looked(t, s, K), Full(s)
      PROVE  Good(t) /\ Full(t)
  <2>1. \A x \in Key : ValueOK(t.db[x]) /\ NotEmpty(t.db[x])
    BY <1>2, SeenOK DEF Looked, Good, Full
  <2>2. ASSUME NEW x \in t.expires PROVE t.db[x] # None
    <3>1. x \in s.expires /\ x \notin K /\ x \in Key
      BY <1>2, <2>2 DEF Looked, Good, Srv
    <3> QED BY <1>2, <3>1 DEF Looked, Good
  <2> QED BY <1>2, <2>1, <2>2 DEF Looked, Good, Full
<1>3. Good(m1) /\ Full(m1)
  BY <1>1, <1>2
<1>4. Good(s1) /\ Full(s1)
  BY <1>1, <1>2
<1>5. \A x \in K : x \notin m1.expires /\ x \notin s1.expires /\ m1.db[x] = Seen(master, x) /\ s1.db[x] = Seen(slave, x)
  BY DEF Looked
<1>6. \A x \in K : Data(m1.db[x]) = Data(s1.db[x])
  <2> TAKE x \in K
  <2>1. Data(Seen(master, x)) = Data(Seen(slave, x))
    BY <1>1, SeenAlike
  <2> QED BY <1>5, <2>1
<1>7. \A x \in Key : AgreeAt(m1, s1, x)
  <2> TAKE x \in Key
  <2>1. CASE x \in K
    BY <1>5, <1>6, <2>1 DEF AgreeAt
  <2>2. CASE x \notin K
    <3>1. /\ m1.db[x] = master.db[x] /\ s1.db[x] = slave.db[x]
          /\ x \in m1.expires <=> x \in master.expires
          /\ x \in s1.expires <=> x \in slave.expires
      BY <2>2 DEF Looked
    <3> QED BY <1>1, <3>1 DEF AgreeAt
  <2> QED BY <2>1, <2>2
<1>8. m1.dirty \in Nat
  BY DEF Looked, Srv
<1>9. ASSUME m1.dirty = 0 PROVE m1.expires = master.expires /\ \A x \in Key : m1.db[x] = master.db[x]
  <2>1. K \cap master.expires = {} /\ m1.expires = master.expires \ K
    BY <1>1, <1>9 DEF Looked
  <2>2. \A x \in Key : m1.db[x] = IF x \in K THEN Seen(master, x) ELSE master.db[x]
    BY DEF Looked
  <2> QED BY <2>1, <2>2 DEF Seen
<1> QED BY <1>3, <1>4, <1>5, <1>6, <1>7, <1>8, <1>9

\* The command ends there.
LEMMA Stops ==
  ASSUME KInv, exact, NEW K, K \subseteq Key, NEW m2, NEW s2, Looked(m2, master, K), Looked(s2, slave, K),
         master' = [m2 EXCEPT !.dirty = 0],
         slave' = IF m2.dirty > 0 THEN [s2 EXCEPT !.dirty = 0] ELSE slave,
         outlived' \subseteq Outlived,
         exact' \in BOOLEAN
  PROVE  KInv'
<1>1. /\ Good(m2) /\ Good(s2) /\ Full(m2) /\ Full(s2) /\ \A x \in Key : AgreeAt(m2, s2, x)
      /\ m2.dirty \in Nat
      /\ m2.dirty = 0 => m2.expires = master.expires /\ \A x \in Key : m2.db[x] = master.db[x]
  BY LookedAlike
<1>2. Full(slave) /\ \A x \in Key : AgreeAt(master, slave, x)
  BY DEF KInv
<1>3. Followed(m2, s2, slave)
  <2> SUFFICES ASSUME NEW x \in Key PROVE AgreeAt(m2, IF m2.dirty > 0 THEN s2 ELSE slave, x)
    BY DEF Followed
  <2>1. CASE m2.dirty > 0
    BY <1>1, <2>1
  <2>2. CASE m2.dirty = 0
    <3>1. AgreeAt(master, slave, x)
      BY <1>2
    <3>2. AgreeAt(m2, slave, x)
      BY <1>1, <2>2, <3>1 DEF AgreeAt
    <3> QED BY <2>2, <3>2
  <2> QED BY <1>1, <2>1, <2>2
<1>4. \A x \in outlived' : Stays(master, m2, x)
  <2> TAKE x \in outlived'
  <2> SUFFICES ASSUME x \in master.expires, x \in m2.expires PROVE m2.db[x] = master.db[x]
    BY DEF Stays
  <2>1. x \in Key /\ x \notin K
    BY DEF Looked, KInv, Good, Srv
  <2> QED BY <2>1 DEF Looked
<1> QED BY <1>1, <1>2, <1>3, <1>4, Called

\* t is s but for the keys of D, where there is nothing wrong.
Wrote(t, s, D) ==
  /\ Srv(t)
  /\ \A x \in Key : x \notin D => t.db[x] = s.db[x] /\ (x \in t.expires <=> x \in s.expires)
  /\ \A x \in Key : x \in D => ValueOK(t.db[x]) /\ NotEmpty(t.db[x]) /\ (x \in t.expires => t.db[x] # None)

\* What is right stays so.
LEMMA WroteGood ==
  ASSUME NEW s, Good(s), NEW t, NEW D, Wrote(t, s, D)
  PROVE  Good(t) /\ (Full(s) => Full(t))
<1>1. \A x \in Key : ValueOK(t.db[x])
  BY DEF Good, Wrote
<1>2. \A x \in t.expires : t.db[x] # None
  BY DEF Good, Wrote, Srv
<1> QED BY <1>1, <1>2 DEF Good, Full, Wrote

\* The command goes on to write the same on both sides.
LEMMA Writes ==
  ASSUME KInv, exact, NEW K, K \subseteq Key, NEW m1, NEW s1, Looked(m1, master, K), Looked(s1, slave, K),
         NEW D, NEW m2, NEW s2, Wrote(m2, m1, D), Wrote(s2, s1, D), m2.dirty > 0,
         \A x \in Key : x \in D => Data(m2.db[x]) = Data(s2.db[x]) /\ (x \in m2.expires <=> x \in s2.expires),
         \A x \in outlived' : x \in D => x \notin m2.expires,
         master' = [m2 EXCEPT !.dirty = 0],
         slave' = IF m2.dirty > 0 THEN [s2 EXCEPT !.dirty = 0] ELSE slave,
         outlived' \subseteq Outlived,
         exact' \in BOOLEAN
  PROVE  KInv'
<1>1. Good(m1) /\ Good(s1) /\ Full(m1) /\ Full(s1) /\ \A x \in Key : AgreeAt(m1, s1, x)
  BY LookedAlike
<1>2. Good(m2) /\ Good(s2) /\ Full(m2) /\ Full(s2)
  BY <1>1, WroteGood
<1>3. Followed(m2, s2, slave)
  <2> SUFFICES ASSUME NEW x \in Key PROVE AgreeAt(m2, s2, x)
    BY DEF Followed
  <2>1. CASE x \in D
    BY <2>1 DEF AgreeAt
  <2>2. CASE x \notin D
    <3>1. /\ m2.db[x] = m1.db[x] /\ s2.db[x] = s1.db[x]
          /\ x \in m2.expires <=> x \in m1.expires
          /\ x \in s2.expires <=> x \in s1.expires
      BY <2>2 DEF Wrote
    <3> QED BY <1>1, <3>1 DEF AgreeAt
  <2> QED BY <2>1, <2>2
<1>4. \A x \in outlived' : Stays(master, m2, x)
  <2> TAKE x \in outlived'
  <2> SUFFICES ASSUME x \in master.expires, x \in m2.expires PROVE m2.db[x] = master.db[x]
    BY DEF Stays
  <2>1. x \in Key /\ x \notin D
    BY DEF KInv, Good, Srv
  <2>2. m2.db[x] = m1.db[x] /\ x \in m1.expires
    BY <2>1 DEF Wrote
  <2> QED BY <2>1, <2>2 DEF Looked
<1> QED BY <1>2, <1>3, <1>4, Called

\* A key is written, and then what dirty, or its time to live, is.
LEMMA PutWrote ==
  ASSUME NEW s, Srv(s), NEW k \in Key, NEW v, ValueOK(v), NotEmpty(v), v # None
  PROVE  Wrote(Put(s, k, v), s, {k}) /\ Put(s, k, v).db[k] = v /\ Put(s, k, v).dirty = s.dirty
         /\ Put(s, k, v).expires = s.expires
<1> DEFINE t == Put(s, k, v)
<1>1. /\ Srv(t) /\ t.expires = s.expires /\ t.dirty = s.dirty /\ t.db[k] = v
      /\ \A x \in Key : x # k => t.db[x] = s.db[x]
  BY PutIs
<1> HIDE DEF t
<1>2. Wrote(t, s, {k})
  BY <1>1 DEF Wrote
<1> QED BY <1>1, <1>2 DEF t

\* A string is a value.
LEMMA StringValue ==
  ASSUME NEW v
  PROVE  ValueOK(String(v)) /\ NotEmpty(String(v)) /\ String(v) # None
BY DEF ValueOK, NotEmpty, String, None

\* There is nothing wrong where nothing is.
LEMMA NoneValue == ValueOK(None) /\ NotEmpty(None) /\ Data(None) = None
BY DEF ValueOK, NotEmpty, None, Data

\* SET, SETNX and SETEX: what has been looked up, and the rest.
SetS(s0, nx, k) == IF nx THEN deleteIfVolatile(s0, k) ELSE s0

\* SET, SETNX and SETEX of a key write it, or find it there.
LEMMA SetIs ==
  ASSUME NEW s0, Good(s0), NEW nx \in BOOLEAN, NEW k \in Key, NEW v, NEW ttl \in BOOLEAN
  PROVE  LET s == SetS(s0, nx, k)
             t == setGenericCommand(s0, nx, k, v, ttl)
         IN  /\ Looked(s, s0, IF nx THEN {k} ELSE {})
             /\ nx /\ s.db[k] # None => t = s
             /\ ~(nx /\ s.db[k] # None) =>
                  Wrote(t, s, {k}) /\ t.dirty > 0 /\ t.db[k] = String(v) /\ (k \in t.expires <=> ttl)
<1> DEFINE s == SetS(s0, nx, k)
<1>1. Looked(s0, s0, {}) /\ Srv(s0)
  BY LookedNone DEF Good
<1>2. Looked(s, s0, IF nx THEN {k} ELSE {})
  <2>1. Looked(lookupKeyWrite(s0, k), s0, {k})
    BY <1>1, LookedMore
  <2> QED BY <1>1, <2>1 DEF SetS, lookupKeyWrite
<1> DEFINE p == Put(s, k, String(v))
           d == Dirty(p, 1)
           r == removeExpire(d, k)
           t == IF ttl THEN setExpire(r, k) ELSE r
<1>3. setGenericCommand(s0, nx, k, v, ttl) = IF nx /\ s.db[k] # None THEN s ELSE t
  BY DEF setGenericCommand, SetS, Missing
<1>4. Srv(s) /\ s.dirty \in Nat
  BY <1>2 DEF Looked, Srv
<1> HIDE DEF s
<1>5. /\ Srv(p) /\ p.expires = s.expires /\ p.dirty = s.dirty /\ p.db[k] = String(v)
      /\ \A x \in Key : x # k => p.db[x] = s.db[x]
  BY <1>4, PutIs
<1> HIDE DEF p
<1>6. Srv(d) /\ d.expires = p.expires /\ d.dirty = p.dirty + 1 /\ d.db = p.db
  BY <1>5, DirtyIs
<1> HIDE DEF d
<1>7. Srv(r) /\ r.expires = d.expires \ {k} /\ r.dirty = d.dirty /\ r.db = d.db
  BY <1>6, RemoveExpireIs
<1> HIDE DEF r
<1>8. /\ Srv(t) /\ t.dirty = r.dirty /\ t.db = r.db
      /\ t.expires = IF ttl THEN r.expires \cup {k} ELSE r.expires
  BY <1>7, SetExpireIs
<1> HIDE DEF t
<1>9. t.dirty > 0 /\ t.db[k] = String(v) /\ (k \in t.expires <=> ttl)
  BY <1>4, <1>5, <1>6, <1>7, <1>8
<1>10. \A x \in Key : x # k => t.db[x] = s.db[x] /\ (x \in t.expires <=> x \in s.expires)
  BY <1>5, <1>6, <1>7, <1>8
<1>11. Wrote(t, s, {k})
  BY <1>8, <1>9, <1>10, StringValue DEF Wrote
<1> QED BY <1>2, <1>3, <1>9, <1>11 DEF s

\* SET, SETNX or SETEX; only the last gives a time to live.
Setting(k, v, nx, ttl) ==
  /\ Propagated(setGenericCommand(master, nx, k, v, ttl), LAMBDA s : setGenericCommand(s, nx, k, v, ttl))
  /\ outlived' \subseteq Outlived /\ (ttl => k \notin outlived') /\ UNCHANGED exact

\* SET, SETNX and SETEX keep the invariant.
LEMMA SetKeeps ==
  ASSUME KInv, exact, setCommands
  PROVE  KInv'
<1>9. PICK k \in Key, v \in Elem : (\E nx \in BOOLEAN : Call(LAMBDA s : setGenericCommand(s, nx, k, v, FALSE))) \/ setexCommand(k, v)
  BY DEF setCommands
<1>10. \E nx, ttl \in BOOLEAN : Setting(k, v, nx, ttl)
  <2>1. CASE \E nx \in BOOLEAN : Call(LAMBDA s : setGenericCommand(s, nx, k, v, FALSE))
    <3>1. PICK nx \in BOOLEAN : Call(LAMBDA s : setGenericCommand(s, nx, k, v, FALSE))
      BY <2>1
    <3>2. Setting(k, v, nx, FALSE)
      BY <3>1 DEF Setting, Call, Call2
    <3> QED BY <3>2
  <2>2. CASE setexCommand(k, v)
    <3>1. Setting(k, v, FALSE, TRUE)
      BY <2>2 DEF Setting, setexCommand
    <3> QED BY <3>1
  <2> QED BY <1>9, <2>1, <2>2
<1> PICK nx \in BOOLEAN, ttl \in BOOLEAN : Setting(k, v, nx, ttl)
  BY <1>10
<1> DEFINE m2 == setGenericCommand(master, nx, k, v, ttl)
           s2 == setGenericCommand(slave, nx, k, v, ttl)
           m1 == SetS(master, nx, k)
           s1 == SetS(slave, nx, k)
           K == IF nx THEN {k} ELSE {}
<1>1. /\ master' = [m2 EXCEPT !.dirty = 0] /\ slave' = IF m2.dirty > 0 THEN [s2 EXCEPT !.dirty = 0] ELSE slave
      /\ outlived' \subseteq Outlived /\ (ttl => k \notin outlived')
      /\ exact' \in BOOLEAN
  BY DEF Setting, Propagated, KInv
<1>2. /\ Looked(m1, master, K)
      /\ nx /\ m1.db[k] # None => m2 = m1
      /\ ~(nx /\ m1.db[k] # None) =>
                  Wrote(m2, m1, {k}) /\ m2.dirty > 0 /\ m2.db[k] = String(v) /\ (k \in m2.expires <=> ttl)
  BY SetIs DEF KInv
<1>3. /\ Looked(s1, slave, K)
      /\ nx /\ s1.db[k] # None => s2 = s1
      /\ ~(nx /\ s1.db[k] # None) =>
                  Wrote(s2, s1, {k}) /\ s2.dirty > 0 /\ s2.db[k] = String(v) /\ (k \in s2.expires <=> ttl)
  BY SetIs DEF KInv
<1>4. K \subseteq Key /\ (nx => k \in K)
  OBVIOUS
<1> HIDE DEF m1, s1, m2, s2, K
<1>5. \A x \in K : Data(m1.db[x]) = Data(s1.db[x])
  BY <1>2, <1>3, <1>4, LookedAlike
<1>6. nx => (m1.db[k] # None <=> s1.db[k] # None)
  BY <1>4, <1>5, DataAlike
<1>7. CASE nx /\ m1.db[k] # None
  BY <1>1, <1>2, <1>3, <1>4, <1>6, <1>7, Stops
<1>8. CASE ~(nx /\ m1.db[k] # None)
  <2>1. /\ Wrote(m2, m1, {k}) /\ m2.dirty > 0 /\ Wrote(s2, s1, {k})
        /\ m2.db[k] = s2.db[k] /\ (k \in m2.expires <=> k \in s2.expires)
    BY <1>2, <1>3, <1>6, <1>8
  <2>2. \A x \in outlived' : x \in {k} => x \notin m2.expires
    BY <1>1, <1>2, <1>8
  <2> QED BY <1>1, <1>2, <1>3, <1>4, <2>1, <2>2, Writes
<1> QED BY <1>7, <1>8

-----------------------------------------------------------------------------
\* r is s0 after RENAME, RENAMENX or MOVE of k to another key l; s and t are what the lookups leave.
Renamed(s0, s, t, r, k, l, nx) ==
  /\ Looked(s, s0, {k}) /\ Looked(t, s0, {k, l}) /\ s.db[k] = t.db[k]
  /\ s.db[k] = None => r = s
  /\ s.db[k] # None /\ nx /\ t.db[l] # None => r = t
  /\ s.db[k] # None /\ ~(nx /\ t.db[l] # None) =>
       /\ Wrote(r, t, {k, l}) /\ r.dirty > 0 /\ r.db[l] = t.db[k] /\ r.db[k] = None
       /\ k \notin r.expires /\ l \notin r.expires

\* RENAME and RENAMENX do that.
LEMMA RenameIs ==
  ASSUME NEW s0, Good(s0), Full(s0), NEW k \in Key, NEW l \in Key, k # l, NEW nx \in BOOLEAN,
         NEW s, s = lookupKeyWrite(s0, k), NEW t, t = lookupKeyWrite(s, l),
         NEW r, r = renameGenericCommand(s0, k, l, nx)
  PROVE  Renamed(s0, s, t, r, k, l, nx)
<1> DEFINE p == Put(t, l, t.db[k])
           d == deleteKey(p, k)
           e == Dirty(d, 1)
<1>1. Looked(s0, s0, {}) /\ Srv(s0)
  BY LookedNone DEF Good
<1>2. Looked(s, s0, {k})
  BY <1>1, LookedMore
<1>3. r = IF s.db[k] = None THEN s ELSE IF nx /\ t.db[l] # None THEN t ELSE e
  BY DEF renameGenericCommand, lookupKeyWrite, Missing
<1>4. Looked(t, s0, {k, l})
  BY <1>1, <1>2, LookedMore
<1>5. Srv(t) /\ t.dirty \in Nat /\ k \notin t.expires /\ l \notin t.expires
  BY <1>4 DEF Looked, Srv
<1>6. s.db[k] = t.db[k]
  BY <1>2, <1>4 DEF Looked
<1>7. /\ Srv(p) /\ p.expires = t.expires /\ p.dirty = t.dirty /\ p.db[l] = t.db[k]
      /\ \A x \in Key : x # l => p.db[x] = t.db[x]
  BY <1>5, PutIs
<1> HIDE DEF p
<1>8. /\ Srv(d) /\ d.expires = p.expires \ {k} /\ d.dirty = p.dirty /\ d.db[k] = None
      /\ \A x \in Key : x # k => d.db[x] = p.db[x]
  BY <1>7, DeleteIs
<1> HIDE DEF d
<1>9. Srv(e) /\ e.expires = d.expires /\ e.dirty = d.dirty + 1 /\ e.db = d.db
  BY <1>8, DirtyIs
<1> HIDE DEF e
<1>10. /\ e.dirty > 0 /\ e.db[l] = t.db[k] /\ e.db[k] = None /\ k \notin e.expires /\ l \notin e.expires
       /\ \A x \in Key : x # k /\ x # l => e.db[x] = t.db[x] /\ (x \in e.expires <=> x \in t.expires)
  BY <1>5, <1>7, <1>8, <1>9
<1>11. ValueOK(t.db[k])
  BY <1>4, SeenOK DEF Looked
<1>12. Wrote(e, t, {k, l})
  <2>1. NotEmpty(t.db[k])
    BY <1>4, SeenOK DEF Looked
  <2> QED BY <1>9, <1>10, <1>11, <2>1, NoneValue DEF Wrote
<1> QED BY <1>2, <1>3, <1>4, <1>6, <1>10, <1>12 DEF Renamed

\* A call that does what RENAME or RENAMENX does keeps the invariant.
LEMMA RenameCallKeeps ==
  ASSUME KInv, exact, NEW k \in Key, NEW l \in Key, NEW nx \in BOOLEAN,
         NEW m3, m3 = renameGenericCommand(master, k, l, nx), NEW s3, s3 = renameGenericCommand(slave, k, l, nx),
         master' = [m3 EXCEPT !.dirty = 0], slave' = IF m3.dirty > 0 THEN [s3 EXCEPT !.dirty = 0] ELSE slave,
         outlived' \subseteq Outlived,
         exact' = exact
  PROVE  KInv'
<1> DEFINE m1 == lookupKeyWrite(master, k)
           s1 == lookupKeyWrite(slave, k)
           m2 == lookupKeyWrite(m1, l)
           s2 == lookupKeyWrite(s1, l)
<1>1. /\ master' = [m3 EXCEPT !.dirty = 0] /\ slave' = IF m3.dirty > 0 THEN [s3 EXCEPT !.dirty = 0] ELSE slave
      /\ outlived' \subseteq Outlived
      /\ exact' \in BOOLEAN
  BY DEF KInv
<1>2. Good(master) /\ Full(master) /\ Good(slave) /\ Full(slave)
  BY DEF KInv
<1>3. CASE k = l
  <2>1. m3 = master /\ s3 = slave
    BY <1>3 DEF renameGenericCommand
  <2>2. Looked(m3, master, {}) /\ Looked(s3, slave, {})
    BY <1>2, <2>1, LookedNone DEF Good
  <2> QED BY <1>1, <2>2, Stops
<1>4. CASE k # l
  <2> DEFINE K == {k}
             L == {k, l}
  <2>1. Renamed(master, m1, m2, m3, k, l, nx)
    BY <1>2, <1>4, RenameIs
  <2>2. Renamed(slave, s1, s2, s3, k, l, nx)
    BY <1>2, <1>4, RenameIs
  <2> HIDE DEF m1, s1, m2, s2
  <2>3. K \subseteq Key /\ L \subseteq Key /\ k \in L /\ l \in L
    OBVIOUS
  <2>9. /\ Looked(m1, master, K) /\ Looked(s1, slave, K) /\ Looked(m2, master, L) /\ Looked(s2, slave, L)
        /\ m1.db[k] = m2.db[k] /\ s1.db[k] = s2.db[k]
    BY <2>1, <2>2 DEF Renamed
  <2> HIDE DEF K, L
  <2>4. Data(m2.db[k]) = Data(s2.db[k]) /\ Data(m2.db[l]) = Data(s2.db[l])
    BY <2>3, <2>9, LookedAlike
  <2>5. (m2.db[k] = None <=> s2.db[k] = None) /\ (m2.db[l] = None <=> s2.db[l] = None)
    BY <2>4, DataAlike
  <2>6. CASE m1.db[k] = None
    <3>1. m3 = m1 /\ s3 = s1
      BY <2>1, <2>2, <2>5, <2>6, <2>9 DEF Renamed
    <3> QED BY <1>1, <2>3, <2>9, <3>1, Stops
  <2>7. CASE m1.db[k] # None /\ nx /\ m2.db[l] # None
    <3>1. m3 = m2 /\ s3 = s2
      BY <2>1, <2>2, <2>5, <2>7, <2>9 DEF Renamed
    <3> QED BY <1>1, <2>3, <2>9, <3>1, Stops
  <2>8. CASE m1.db[k] # None /\ ~(nx /\ m2.db[l] # None)
    <3>1. /\ Wrote(m3, m2, L) /\ m3.dirty > 0 /\ m3.db[l] = m2.db[k] /\ m3.db[k] = None
          /\ k \notin m3.expires /\ l \notin m3.expires
      BY <2>1, <2>8 DEF Renamed, L
    <3>2. /\ Wrote(s3, s2, L) /\ s3.db[l] = s2.db[k] /\ s3.db[k] = None
          /\ k \notin s3.expires /\ l \notin s3.expires
      BY <2>2, <2>5, <2>8, <2>9 DEF Renamed, L
    <3>3. \A x \in Key : x \in L => Data(m3.db[x]) = Data(s3.db[x]) /\ (x \in m3.expires <=> x \in s3.expires)
      BY <2>4, <3>1, <3>2 DEF L
    <3>4. \A x \in outlived' : x \in L => x \notin m3.expires
      BY <3>1 DEF L
    <3> QED BY <1>1, <2>3, <2>9, <3>1, <3>2, <3>3, <3>4, Writes
  <2> QED BY <2>6, <2>7, <2>8
<1> QED BY <1>3, <1>4

\* RENAME and RENAMENX keep the invariant.
LEMMA RenameKeeps ==
  ASSUME KInv, exact, renameCommands
  PROVE  KInv'
<1> PICK k \in Key, l \in Key, nx \in BOOLEAN : Call(LAMBDA s : renameGenericCommand(s, k, l, nx))
  BY DEF renameCommands
<1> DEFINE m2 == renameGenericCommand(master, k, l, nx)
           s2 == renameGenericCommand(slave, k, l, nx)
<1>1. /\ master' = [m2 EXCEPT !.dirty = 0] /\ slave' = IF m2.dirty > 0 THEN [s2 EXCEPT !.dirty = 0] ELSE slave
      /\ outlived' \subseteq Outlived
      /\ exact' = exact
  BY DEF Call, Call2, Propagated
<1>2. m2 = renameGenericCommand(master, k, l, nx) /\ s2 = renameGenericCommand(slave, k, l, nx)
  OBVIOUS
<1> HIDE DEF m2, s2
<1> QED BY <1>1, <1>2, RenameCallKeeps

\* MOVE does what RENAMENX does, to a key of another database.
LEMMA MoveKeeps ==
  ASSUME KInv, exact, move
  PROVE  KInv'
<1> PICK k \in Key, l \in Key : Call(LAMBDA s : moveCommand(s, k, l))
  BY DEF move
<1> DEFINE m2 == moveCommand(master, k, l)
           s2 == moveCommand(slave, k, l)
<1>1. /\ master' = [m2 EXCEPT !.dirty = 0] /\ slave' = IF m2.dirty > 0 THEN [s2 EXCEPT !.dirty = 0] ELSE slave
      /\ outlived' \subseteq Outlived
      /\ exact' = exact
  BY DEF Call, Call2, Propagated
<1>2. m2 = renameGenericCommand(master, k, l, TRUE) /\ s2 = renameGenericCommand(slave, k, l, TRUE)
  BY DEF moveCommand, renameGenericCommand
<1> HIDE DEF m2, s2
<1> QED BY <1>1, <1>2, RenameCallKeeps

\* Two keys are looked up, one after the other.
LEMMA LookedTwo ==
  ASSUME NEW s0, Srv(s0), NEW k \in Key, NEW l \in Key
  PROVE  Looked(lookupKeyWrite(lookupKeyWrite(s0, k), l), s0, {k, l}) /\ Looked(lookupKeyWrite(s0, k), s0, {k})
<1> DEFINE s == lookupKeyWrite(s0, k)
<1>1. Looked(s0, s0, {})
  BY LookedNone
<1>2. Looked(s, s0, {k})
  BY <1>1, LookedMore
<1> HIDE DEF s
<1>3. Looked(lookupKeyWrite(s, l), s0, {k, l})
  BY <1>2, LookedMore
<1> QED BY <1>2, <1>3 DEF s

\* r is s0 after MSET or MSETNX of v at k and at l; s is what the lookups leave.
Msetted(s0, s, r, k, l, v, nx) ==
  /\ Looked(s, s0, IF nx THEN {k, l} ELSE {})
  /\ nx /\ (s.db[k] # None \/ s.db[l] # None) => r = s
  /\ ~(nx /\ (s.db[k] # None \/ s.db[l] # None)) =>
       /\ Wrote(r, s, {k, l}) /\ r.dirty > 0 /\ r.db[k] = String(v) /\ r.db[l] = String(v)
       /\ k \notin r.expires /\ l \notin r.expires

MsetS(s0, k, l, nx) == IF nx THEN lookupKeyWrite(lookupKeyWrite(s0, k), l) ELSE s0

\* MSET and MSETNX do that.
LEMMA MsetIs ==
  ASSUME NEW s0, Good(s0), NEW k \in Key, NEW l \in Key, NEW v, NEW nx \in BOOLEAN
  PROVE  Msetted(s0, MsetS(s0, k, l, nx), msetGenericCommand(s0, <<<<k, v>>, <<l, v>>>>, nx), k, l, v, nx)
<1> DEFINE pairs == <<<<k, v>>, <<l, v>>>>
           ks == [n \in DOMAIN pairs |-> pairs[n][1]]
           s == MsetS(s0, k, l, nx)
           some == s.db[k] # None \/ s.db[l] # None
           a == Put(s, k, String(v))
           b == removeExpire(a, k)
           c == Put(b, l, String(v))
           d == removeExpire(c, l)
           e == Dirty(d, 2)
<1>1. Srv(s0)
  BY DEF Good
<1>2. Looked(s, s0, IF nx THEN {k, l} ELSE {})
  BY <1>1, LookedNone, LookedTwo DEF MsetS
<1>3. DOMAIN pairs = {1, 2} /\ pairs[1] = <<k, v>> /\ pairs[2] = <<l, v>> /\ Len(pairs) = 2
  OBVIOUS
<1>4. ks = <<k, l>>
  <2>1. ks = [n \in {1, 2} |-> IF n = 1 THEN k ELSE l]
    BY <1>3
  <2>2. <<k, l>> = [n \in {1, 2} |-> IF n = 1 THEN k ELSE l]
    OBVIOUS
  <2> HIDE DEF ks
  <2> QED BY <2>1, <2>2
<1>5. lookupAllWrite(s0, ks) = lookupKeyWrite(lookupKeyWrite(s0, k), l)
  <2> HIDE DEF ks
  <2> QED BY <1>4, LookTwo
<1>6. (\E n \in DOMAIN pairs : ~Missing(s, pairs[n][1])) <=> some
  <2> HIDE DEF s, pairs
  <2> QED BY <1>3 DEF Missing
<1>7. setAll(s, pairs) = d
  <2> HIDE DEF s
  <2> QED BY MsetTwo
<1>8. msetGenericCommand(s0, pairs, nx) = IF nx /\ some THEN s ELSE Dirty(setAll(s, pairs), Len(pairs))
  <2>1. s = IF nx THEN lookupAllWrite(s0, ks) ELSE s0
    BY <1>5 DEF MsetS
  <2>2. msetGenericCommand(s0, pairs, nx) =
          IF nx /\ \E n \in DOMAIN pairs : ~Missing(IF nx THEN lookupAllWrite(s0, ks) ELSE s0, pairs[n][1])
          THEN (IF nx THEN lookupAllWrite(s0, ks) ELSE s0)
          ELSE Dirty(setAll(IF nx THEN lookupAllWrite(s0, ks) ELSE s0, pairs), Len(pairs))
    BY DEF msetGenericCommand
  <2> HIDE DEF s, some, ks, pairs
  <2> QED BY <1>6, <2>1, <2>2
<1>9. msetGenericCommand(s0, pairs, nx) = IF nx /\ some THEN s ELSE e
  <2> HIDE DEF d, s, some
  <2> QED BY <1>3, <1>7, <1>8
<1>10. Srv(s) /\ s.dirty \in Nat
  BY <1>2 DEF Looked, Srv
<1> HIDE DEF s
<1>11. /\ Srv(a) /\ a.expires = s.expires /\ a.dirty = s.dirty /\ a.db[k] = String(v)
       /\ \A x \in Key : x # k => a.db[x] = s.db[x]
  BY <1>10, PutIs
<1> HIDE DEF a
<1>12. Srv(b) /\ b.expires = a.expires \ {k} /\ b.dirty = a.dirty /\ b.db = a.db
  BY <1>11, RemoveExpireIs
<1> HIDE DEF b
<1>13. /\ Srv(c) /\ c.expires = b.expires /\ c.dirty = b.dirty /\ c.db[l] = String(v)
       /\ \A x \in Key : x # l => c.db[x] = b.db[x]
  BY <1>12, PutIs
<1> HIDE DEF c
<1>14. Srv(d) /\ d.expires = c.expires \ {l} /\ d.dirty = c.dirty /\ d.db = c.db
  BY <1>13, RemoveExpireIs
<1> HIDE DEF d
<1>15. Srv(e) /\ e.expires = d.expires /\ e.dirty = d.dirty + 2 /\ e.db = d.db
  BY <1>14, DirtyIs
<1> HIDE DEF e
<1>16. /\ e.dirty > 0 /\ e.db[k] = String(v) /\ e.db[l] = String(v) /\ k \notin e.expires /\ l \notin e.expires
       /\ \A x \in Key : x # k /\ x # l => e.db[x] = s.db[x] /\ (x \in e.expires <=> x \in s.expires)
  BY <1>10, <1>11, <1>12, <1>13, <1>14, <1>15
<1>17. Wrote(e, s, {k, l})
  BY <1>15, <1>16, StringValue DEF Wrote
<1> QED BY <1>2, <1>9, <1>16, <1>17 DEF Msetted, s

\* MSET and MSETNX keep the invariant.
LEMMA MsetKeeps ==
  ASSUME KInv, exact, msetCommands
  PROVE  KInv'
<1> PICK k \in Key, l \in Key, v \in Elem, nx \in BOOLEAN : Call(LAMBDA s : msetGenericCommand(s, <<<<k, v>>, <<l, v>>>>, nx))
  BY DEF msetCommands
<1> DEFINE m2 == msetGenericCommand(master, <<<<k, v>>, <<l, v>>>>, nx)
           s2 == msetGenericCommand(slave, <<<<k, v>>, <<l, v>>>>, nx)
           m1 == MsetS(master, k, l, nx)
           s1 == MsetS(slave, k, l, nx)
           K == IF nx THEN {k, l} ELSE {}
           L == {k, l}
<1>1. /\ master' = [m2 EXCEPT !.dirty = 0] /\ slave' = IF m2.dirty > 0 THEN [s2 EXCEPT !.dirty = 0] ELSE slave
      /\ outlived' \subseteq Outlived
      /\ exact' \in BOOLEAN
  BY DEF Call, Call2, Propagated, KInv
<1>2. Msetted(master, m1, m2, k, l, v, nx) /\ Msetted(slave, s1, s2, k, l, v, nx)
  BY MsetIs DEF KInv
<1>3. K \subseteq Key /\ (nx => k \in K /\ l \in K) /\ k \in L /\ l \in L
  OBVIOUS
<1> HIDE DEF m1, s1, m2, s2
<1>4. Looked(m1, master, K) /\ Looked(s1, slave, K)
  BY <1>2 DEF Msetted
<1> HIDE DEF K, L
<1>5. \A x \in K : Data(m1.db[x]) = Data(s1.db[x])
  BY ONLY KInv, exact, <1>3, <1>4, LookedAlike
<1>6. nx => (m1.db[k] = None <=> s1.db[k] = None) /\ (m1.db[l] = None <=> s1.db[l] = None)
  BY <1>3, <1>5, DataAlike
<1>7. CASE nx /\ (m1.db[k] # None \/ m1.db[l] # None)
  <2>1. m2 = m1 /\ s2 = s1
    BY <1>2, <1>6, <1>7 DEF Msetted
  <2> QED BY <1>1, <1>3, <1>4, <2>1, Stops
<1>8. CASE ~(nx /\ (m1.db[k] # None \/ m1.db[l] # None))
  <2>1. /\ Wrote(m2, m1, L) /\ m2.dirty > 0 /\ m2.db[k] = String(v) /\ m2.db[l] = String(v)
        /\ k \notin m2.expires /\ l \notin m2.expires
    BY <1>2, <1>8 DEF Msetted, L
  <2>2. /\ Wrote(s2, s1, L) /\ s2.db[k] = String(v) /\ s2.db[l] = String(v)
        /\ k \notin s2.expires /\ l \notin s2.expires
    BY <1>2, <1>6, <1>8 DEF Msetted, L
  <2>3. \A x \in Key : x \in L => Data(m2.db[x]) = Data(s2.db[x]) /\ (x \in m2.expires <=> x \in s2.expires)
    BY <2>1, <2>2 DEF L
  <2>4. \A x \in outlived' : x \in L => x \notin m2.expires
    BY <2>1 DEF L
  <2> QED BY <1>1, <1>3, <1>4, <2>1, <2>2, <2>3, <2>4, Writes
<1> QED BY <1>7, <1>8

\* An aggregate is put, or the key is deleted.
LEMMA PutOrDeleteIs ==
  ASSUME NEW s, Srv(s), NEW k \in Key, k \notin s.expires, NEW v, NEW t, t = PutOrDelete(s, k, v)
  PROVE  /\ Srv(t) /\ t.expires = s.expires /\ t.dirty = s.dirty /\ t.db[k] = Left(v)
         /\ \A x \in Key : x # k => t.db[x] = s.db[x]
<1>1. CASE Size(v) = 0
  <2>1. t = deleteKey(s, k) /\ Left(v) = None
    BY <1>1 DEF PutOrDelete, Left
  <2>2. s.expires \ {k} = s.expires
    OBVIOUS
  <2> DEFINE u == deleteKey(s, k)
  <2>3. /\ Srv(u) /\ u.expires = s.expires \ {k} /\ u.dirty = s.dirty /\ u.db[k] = None
        /\ \A x \in Key : x # k => u.db[x] = s.db[x]
    BY DeleteIs
  <2>4. t = u
    BY <2>1
  <2> HIDE DEF u
  <2> QED BY <2>1, <2>2, <2>3, <2>4
<1>2. CASE Size(v) # 0
  <2>1. t = Put(s, k, v) /\ Left(v) = v
    BY <1>2 DEF PutOrDelete, Left
  <2> DEFINE u == Put(s, k, v)
  <2>2. /\ Srv(u) /\ u.expires = s.expires /\ u.dirty = s.dirty /\ u.db[k] = v
        /\ \A x \in Key : x # k => u.db[x] = s.db[x]
    BY PutIs
  <2>3. t = u
    BY <2>1
  <2> HIDE DEF u
  <2> QED BY <2>1, <2>2, <2>3
<1> QED BY <1>1, <1>2

\* r is s0 after RPOPLPUSH from k to l; s and t are what the lookups leave.
RpopFrom(v, same) == Left(List(Front(IF same THEN <<Last(v[2])>> \o v[2] ELSE v[2])))
RpopTo(v, w, same) ==
  IF same THEN RpopFrom(v, same) ELSE List(<<Last(v[2])>> \o (IF w = None THEN << >> ELSE w[2]))
Rpopped(s0, s, t, r, k, l) ==
  /\ Looked(s, s0, {k}) /\ Looked(t, s0, {k, l}) /\ s.db[k] = t.db[k]
  /\ t.db[k][1] # "list" \/ t.db[k][2] = << >> => r = s
  /\ t.db[k][1] = "list" /\ t.db[k][2] # << >> /\ t.db[l] # None /\ t.db[l][1] # "list" => r = t
  /\ t.db[k][1] = "list" /\ t.db[k][2] # << >> /\ (t.db[l] = None \/ t.db[l][1] = "list") =>
       /\ Wrote(r, t, {k, l}) /\ r.dirty > 0
       /\ r.db[k] = RpopFrom(t.db[k], k = l) /\ r.db[l] = RpopTo(t.db[k], t.db[l], k = l)
       /\ k \notin r.expires /\ l \notin r.expires

\* RPOPLPUSH does that.
LEMMA RpopIs ==
  ASSUME NEW s0, Good(s0), NEW k \in Key, NEW l \in Key
  PROVE  Rpopped(s0, lookupKeyWrite(s0, k), lookupKeyWrite(lookupKeyWrite(s0, k), l), rpoplpushcommand(s0, k, l), k, l)
<1> DEFINE s == lookupKeyWrite(s0, k)
           t == lookupKeyWrite(s, l)
           r == rpoplpushcommand(s0, k, l)
           v == t.db[k]
           w == t.db[l]
           pushed == <<Last(v[2])>> \o (IF w = None THEN << >> ELSE w[2])
           u == Put(t, l, List(pushed))
           d == PutOrDelete(u, k, List(Front(u.db[k][2])))
           e == Dirty(d, 1)
<1>1. Srv(s0)
  BY DEF Good
<1>2. Looked(s, s0, {k}) /\ Looked(t, s0, {k, l})
  BY <1>1, LookedTwo
<1>3. s.db[k] = v
  BY <1>2 DEF Looked
<1>4. r = IF v[1] # "list" \/ v[2] = << >> THEN s ELSE IF w # None /\ w[1] # "list" THEN t ELSE e
  BY <1>3 DEF rpoplpushcommand, Is, Type, Val, Missing
<1> HIDE DEF s, t, r
<1>5. Srv(t) /\ t.dirty \in Nat /\ k \notin t.expires /\ l \notin t.expires /\ ValueOK(v) /\ ValueOK(w)
  <2>1. v = Seen(s0, k) /\ w = Seen(s0, l)
    BY <1>2 DEF Looked
  <2> QED BY <1>2, <2>1, SeenOK DEF Looked, Srv
<1>6. CASE v[1] = "list" /\ v[2] # << >> /\ (w = None \/ w[1] = "list")
  <2>1. ListOK(v[2]) /\ ListOK(IF w = None THEN << >> ELSE w[2])
    <3>1. ListOK(<< >>)
      BY DEF ListOK
    <3> QED BY <1>5, <1>6, <3>1, Kinds
  <2>2. ListOK(pushed) /\ pushed # << >>
    <3> DEFINE wl == IF w = None THEN << >> ELSE w[2]
    <3> HIDE DEF wl
    <3>1. ListOK(wl)
      BY <2>1 DEF wl
    <3>2. ListOK(<<Last(v[2])>> \o wl) /\ <<Last(v[2])>> \o wl # << >>
      BY <3>1, ListGrows
    <3> QED BY <3>2 DEF wl
  <2>3. k = l => pushed = <<Last(v[2])>> \o v[2]
    BY <1>6 DEF None
  <2> HIDE DEF pushed
  <2>4. /\ Srv(u) /\ u.expires = t.expires /\ u.dirty = t.dirty /\ u.db[l] = List(pushed)
        /\ \A x \in Key : x # l => u.db[x] = t.db[x]
    BY <1>5, PutIs
  <2>5. List(pushed)[2] = pushed /\ ValueOK(List(pushed)) /\ NotEmpty(List(pushed)) /\ List(pushed) # None
    BY <2>2, ListValue DEF NotEmpty, List, None
  <2>6. u.db[k][2] = IF k = l THEN pushed ELSE v[2]
    BY <2>4, <2>5
  <2> HIDE DEF u
  <2> DEFINE f == Front(u.db[k][2])
  <2>7. ListOK(f)
    BY <1>6, <2>1, <2>2, <2>6, ListShrinks
  <2> HIDE DEF f
  <2>8. /\ Srv(d) /\ d.expires = u.expires /\ d.dirty = u.dirty /\ d.db[k] = Left(List(f)) /\ \A x \in Key : x # k => d.db[x] = u.db[x]
    <3> DEFINE p == List(f)
    <3>1. d = PutOrDelete(u, k, p)
      BY DEF f
    <3> HIDE DEF d, p
    <3>2. /\ Srv(d) /\ d.expires = u.expires /\ d.dirty = u.dirty /\ d.db[k] = Left(p) /\ \A x \in Key : x # k => d.db[x] = u.db[x]
      BY <1>5, <2>4, <3>1, PutOrDeleteIs
    <3> QED BY <3>2 DEF p
  <2> HIDE DEF d
  <2>9. Srv(e) /\ e.expires = d.expires /\ e.dirty = d.dirty + 1 /\ e.db = d.db
    BY <2>8, DirtyIs
  <2> HIDE DEF e
  <2>10. /\ e.dirty > 0 /\ e.db[k] = Left(List(f)) /\ e.db[l] = IF k = l THEN Left(List(f)) ELSE List(pushed)
         /\ k \notin e.expires /\ l \notin e.expires
         /\ \A x \in Key : x # k /\ x # l => e.db[x] = t.db[x] /\ (x \in e.expires <=> x \in t.expires)
    BY <1>5, <2>4, <2>8, <2>9
  <2>11. ValueOK(Left(List(f))) /\ NotEmpty(Left(List(f)))
    BY <2>7, ListValue
  <2>12. Wrote(e, t, {k, l})
    BY <2>5, <2>9, <2>10, <2>11 DEF Wrote
  <2>13. Left(List(f)) = RpopFrom(v, k = l)
    BY <2>3, <2>6 DEF RpopFrom, f
  <2>14. (IF k = l THEN Left(List(f)) ELSE List(pushed)) = RpopTo(v, w, k = l)
    BY <2>13 DEF RpopTo, pushed
  <2>15. r = e
    BY <1>4, <1>6
  <2>16. Rpopped(s0, s, t, r, k, l)
    BY <1>2, <1>3, <1>6, <2>10, <2>12, <2>13, <2>14, <2>15 DEF Rpopped
  <2> QED BY <2>16 DEF s, t, r
<1>7. CASE ~(v[1] = "list" /\ v[2] # << >> /\ (w = None \/ w[1] = "list"))
  <2> HIDE DEF e
  <2>1. Rpopped(s0, s, t, r, k, l)
    BY <1>2, <1>3, <1>4, <1>7 DEF Rpopped
  <2> QED BY <2>1 DEF s, t, r
<1> QED BY <1>6, <1>7

\* RPOPLPUSH keeps the invariant.
LEMMA RpoplpushKeeps ==
  ASSUME KInv, exact, rpoplpush
  PROVE  KInv'
<1> PICK k \in Key, l \in Key : Call(LAMBDA s : rpoplpushcommand(s, k, l))
  BY DEF rpoplpush
<1> DEFINE m3 == rpoplpushcommand(master, k, l)
           s3 == rpoplpushcommand(slave, k, l)
           m1 == lookupKeyWrite(master, k)
           s1 == lookupKeyWrite(slave, k)
           m2 == lookupKeyWrite(m1, l)
           s2 == lookupKeyWrite(s1, l)
           K == {k}
           L == {k, l}
<1>1. /\ master' = [m3 EXCEPT !.dirty = 0] /\ slave' = IF m3.dirty > 0 THEN [s3 EXCEPT !.dirty = 0] ELSE slave
      /\ outlived' \subseteq Outlived
      /\ exact' \in BOOLEAN
  BY DEF Call, Call2, Propagated, KInv
<1>2. Rpopped(master, m1, m2, m3, k, l) /\ Rpopped(slave, s1, s2, s3, k, l)
  BY RpopIs DEF KInv
<1>3. K \subseteq Key /\ L \subseteq Key /\ k \in L /\ l \in L
  OBVIOUS
<1> HIDE DEF m1, s1, m2, s2, m3, s3
<1>4. /\ Looked(m1, master, K) /\ Looked(s1, slave, K) /\ Looked(m2, master, L) /\ Looked(s2, slave, L)
  BY <1>2 DEF Rpopped
<1> HIDE DEF K, L
<1>5. Data(m2.db[k]) = Data(s2.db[k]) /\ Data(m2.db[l]) = Data(s2.db[l])
  <2>1. \A x \in L : Data(m2.db[x]) = Data(s2.db[x])
    BY <1>3, <1>4, LookedAlike
  <2> QED BY <1>3, <2>1
<1>6. /\ m2.db[k][1] = "list" <=> s2.db[k][1] = "list"
      /\ m2.db[k][1] = "list" => m2.db[k] = s2.db[k]
      /\ m2.db[l] = None <=> s2.db[l] = None
      /\ m2.db[l][1] = "list" <=> s2.db[l][1] = "list"
      /\ m2.db[l] = None \/ m2.db[l][1] = "list" => m2.db[l] = s2.db[l]
  BY <1>5 DEF Data, None
<1>7. CASE m2.db[k][1] # "list" \/ m2.db[k][2] = << >>
  <2>1. m3 = m1 /\ s3 = s1
    BY <1>2, <1>6, <1>7 DEF Rpopped
  <2> QED BY <1>1, <1>3, <1>4, <2>1, Stops
<1>8. CASE m2.db[k][1] = "list" /\ m2.db[k][2] # << >> /\ m2.db[l] # None /\ m2.db[l][1] # "list"
  <2>1. m3 = m2 /\ s3 = s2
    BY <1>2, <1>6, <1>8 DEF Rpopped
  <2> QED BY <1>1, <1>3, <1>4, <2>1, Stops
<1>9. CASE m2.db[k][1] = "list" /\ m2.db[k][2] # << >> /\ (m2.db[l] = None \/ m2.db[l][1] = "list")
  <2>1. m2.db[k] = s2.db[k] /\ m2.db[l] = s2.db[l]
    BY <1>6, <1>9
  <2>2. /\ Wrote(m3, m2, L) /\ m3.dirty > 0
        /\ m3.db[k] = RpopFrom(m2.db[k], k = l) /\ m3.db[l] = RpopTo(m2.db[k], m2.db[l], k = l)
        /\ k \notin m3.expires /\ l \notin m3.expires
    BY <1>2, <1>9 DEF Rpopped, L
  <2>3. /\ Wrote(s3, s2, L)
        /\ s3.db[k] = RpopFrom(s2.db[k], k = l) /\ s3.db[l] = RpopTo(s2.db[k], s2.db[l], k = l)
        /\ k \notin s3.expires /\ l \notin s3.expires
    BY <1>2, <1>9, <2>1 DEF Rpopped, L
  <2>4. m3.db[k] = s3.db[k] /\ m3.db[l] = s3.db[l]
    BY <2>1, <2>2, <2>3
  <2>5. \A x \in Key : x \in L => Data(m3.db[x]) = Data(s3.db[x]) /\ (x \in m3.expires <=> x \in s3.expires)
    BY <2>2, <2>3, <2>4 DEF L
  <2>6. \A x \in outlived' : x \in L => x \notin m3.expires
    BY <2>2 DEF L
  <2> QED BY <1>1, <1>3, <1>4, <2>2, <2>3, <2>5, <2>6, Writes
<1> QED BY <1>7, <1>8, <1>9

\* r is s0 after SMOVE of e from k to l; t is what the lookups leave.
SmoveFrom(v, e) == Left(Set(v[2] \ {e}))
SmoveTo(v, w, e, same) == Set((IF same THEN v[2] \ {e} ELSE IF w = None THEN {} ELSE w[2]) \cup {e})
SmoveStops(v, w, e) == v[1] # "set" \/ (w # None /\ w[1] # "set") \/ e \notin v[2]
Smoved(s0, t, r, k, l, e) ==
  /\ Looked(t, s0, {k, l})
  /\ SmoveStops(t.db[k], t.db[l], e) => r = t
  /\ ~SmoveStops(t.db[k], t.db[l], e) =>
       /\ Wrote(r, t, {k, l}) /\ r.dirty > 0 /\ r.db[l] = SmoveTo(t.db[k], t.db[l], e, k = l)
       /\ k # l => r.db[k] = SmoveFrom(t.db[k], e)
       /\ k \notin r.expires /\ l \notin r.expires

\* SMOVE does that.
LEMMA SmoveIs ==
  ASSUME NEW s0, Good(s0), NEW k \in Key, NEW l \in Key, NEW e
  PROVE  Smoved(s0, lookupKeyWrite(lookupKeyWrite(s0, k), l), smoveCommand(s0, k, l, e), k, l, e)
<1> DEFINE t == lookupKeyWrite(lookupKeyWrite(s0, k), l)
           r == smoveCommand(s0, k, l, e)
           v == t.db[k]
           w == t.db[l]
           p == Set(v[2] \ {e})
           u == IF k = l THEN Put(t, k, p) ELSE PutOrDelete(t, k, p)
           q == Set((IF u.db[l] = None THEN {} ELSE u.db[l][2]) \cup {e})
           c == Put(u, l, q)
           d == Dirty(c, 1)
<1>1. Srv(s0)
  BY DEF Good
<1>2. Looked(t, s0, {k, l})
  BY <1>1, LookedTwo
<1>3. r = IF SmoveStops(v, w, e) THEN t ELSE d
  BY DEF smoveCommand, Is, Type, Val, Missing, SmoveStops
<1> HIDE DEF t, r
<1>4. Srv(t) /\ t.dirty \in Nat /\ k \notin t.expires /\ l \notin t.expires /\ ValueOK(v) /\ ValueOK(w)
  <2>1. v = Seen(s0, k) /\ w = Seen(s0, l)
    BY <1>2 DEF Looked
  <2> QED BY <1>2, <2>1, SeenOK DEF Looked, Srv
<1>5. CASE ~SmoveStops(v, w, e)
  <2>1. IsFiniteSet(v[2]) /\ IsFiniteSet(IF w = None THEN {} ELSE w[2])
    BY <1>4, <1>5, Kinds, FS_EmptySet DEF SmoveStops
  <2>2. IsFiniteSet(v[2] \ {e})
    BY <2>1, FS_Subset
  <2>3. /\ ValueOK(Left(p)) /\ NotEmpty(Left(p)) /\ p[2] = v[2] \ {e} /\ p # None
    BY <2>2, SetValue DEF Set, None
  <2> HIDE DEF p
  <2>4. /\ Srv(u) /\ u.expires = t.expires /\ u.dirty = t.dirty /\ u.db[k] = IF k = l THEN p ELSE Left(p)
        /\ \A x \in Key : x # k => u.db[x] = t.db[x]
    <3>1. CASE k = l
      <4> DEFINE a == Put(t, k, p)
      <4>1. /\ Srv(a) /\ a.expires = t.expires /\ a.dirty = t.dirty /\ a.db[k] = p
            /\ \A x \in Key : x # k => a.db[x] = t.db[x]
        BY <1>4, PutIs
      <4>2. u = a
        BY <3>1
      <4> HIDE DEF a, u
      <4> QED BY <3>1, <4>1, <4>2
    <3>2. CASE k # l
      <4>1. u = PutOrDelete(t, k, p)
        BY <3>2
      <4> HIDE DEF u
      <4>2. /\ Srv(u) /\ u.expires = t.expires /\ u.dirty = t.dirty /\ u.db[k] = Left(p)
            /\ \A x \in Key : x # k => u.db[x] = t.db[x]
        BY <1>4, <4>1, PutOrDeleteIs
      <4> QED BY <3>2, <4>2
    <3> QED BY <3>1, <3>2
  <2> HIDE DEF u
  <2> DEFINE S == (IF u.db[l] = None THEN {} ELSE u.db[l][2]) \cup {e}
  <2>5. S = (IF k = l THEN v[2] \ {e} ELSE IF w = None THEN {} ELSE w[2]) \cup {e}
    <3>1. CASE k = l
      BY <2>3, <2>4, <3>1
    <3>2. CASE k # l
      BY <2>4, <3>2
    <3> QED BY <3>1, <3>2
  <2>6. q = SmoveTo(v, w, e, k = l)
    BY <2>5 DEF SmoveTo
  <2>7. IsFiniteSet(S) /\ S # {}
    BY <2>1, <2>2, <2>5, FS_AddElement
  <2>8. q = Set(S)
    OBVIOUS
  <2> HIDE DEF S, q
  <2>9. ValueOK(q) /\ NotEmpty(q)
    BY <2>7, <2>8, SetValue
  <2>10. /\ Srv(c) /\ c.expires = u.expires /\ c.dirty = u.dirty /\ c.db[l] = q
         /\ \A x \in Key : x # l => c.db[x] = u.db[x]
    BY <2>4, PutIs
  <2> HIDE DEF c
  <2>11. Srv(d) /\ d.expires = c.expires /\ d.dirty = c.dirty + 1 /\ d.db = c.db
    BY <2>10, DirtyIs
  <2> HIDE DEF d
  <2>12. /\ d.dirty > 0 /\ d.db[l] = q /\ (k # l => d.db[k] = Left(p))
         /\ k \notin d.expires /\ l \notin d.expires
         /\ \A x \in Key : x # k /\ x # l => d.db[x] = t.db[x] /\ (x \in d.expires <=> x \in t.expires)
    BY <1>4, <2>4, <2>10, <2>11
  <2>13. Wrote(d, t, {k, l})
    BY <2>3, <2>9, <2>11, <2>12 DEF Wrote
  <2>14. r = d /\ Left(p) = SmoveFrom(v, e)
    BY <1>3, <1>5 DEF SmoveFrom, p
  <2>15. Smoved(s0, t, r, k, l, e)
    BY <1>2, <1>5, <2>6, <2>12, <2>13, <2>14 DEF Smoved
  <2> QED BY <2>15 DEF t, r
<1>6. CASE SmoveStops(v, w, e)
  <2> HIDE DEF d
  <2>1. Smoved(s0, t, r, k, l, e)
    BY <1>2, <1>3, <1>6 DEF Smoved
  <2> QED BY <2>1 DEF t, r
<1> QED BY <1>5, <1>6

\* SMOVE keeps the invariant.
LEMMA SmoveKeeps ==
  ASSUME KInv, exact, smove
  PROVE  KInv'
<1> PICK k \in Key, l \in Key, e \in Elem : Call(LAMBDA s : smoveCommand(s, k, l, e))
  BY DEF smove
<1> DEFINE m2 == smoveCommand(master, k, l, e)
           s2 == smoveCommand(slave, k, l, e)
           m1 == lookupKeyWrite(lookupKeyWrite(master, k), l)
           s1 == lookupKeyWrite(lookupKeyWrite(slave, k), l)
           L == {k, l}
<1>1. /\ master' = [m2 EXCEPT !.dirty = 0] /\ slave' = IF m2.dirty > 0 THEN [s2 EXCEPT !.dirty = 0] ELSE slave
      /\ outlived' \subseteq Outlived
      /\ exact' \in BOOLEAN
  BY DEF Call, Call2, Propagated, KInv
<1>2. Smoved(master, m1, m2, k, l, e) /\ Smoved(slave, s1, s2, k, l, e)
  BY SmoveIs DEF KInv
<1>3. L \subseteq Key /\ k \in L /\ l \in L
  OBVIOUS
<1> HIDE DEF m1, s1, m2, s2
<1>4. /\ Looked(m1, master, L) /\ Looked(s1, slave, L)
  BY <1>2 DEF Smoved
<1> HIDE DEF L
<1>5. Data(m1.db[k]) = Data(s1.db[k]) /\ Data(m1.db[l]) = Data(s1.db[l])
  <2>1. \A x \in L : Data(m1.db[x]) = Data(s1.db[x])
    BY <1>3, <1>4, LookedAlike
  <2> QED BY <1>3, <2>1
<1>6. /\ SmoveStops(m1.db[k], m1.db[l], e) <=> SmoveStops(s1.db[k], s1.db[l], e)
      /\ ~SmoveStops(m1.db[k], m1.db[l], e) => m1.db[k] = s1.db[k] /\ m1.db[l] = s1.db[l]
  <2>1. /\ m1.db[k][1] = "set" <=> s1.db[k][1] = "set"
        /\ m1.db[k][1] = "set" => m1.db[k] = s1.db[k]
        /\ m1.db[l] = None <=> s1.db[l] = None
        /\ m1.db[l][1] = "set" <=> s1.db[l][1] = "set"
        /\ m1.db[l] = None \/ m1.db[l][1] = "set" => m1.db[l] = s1.db[l]
    BY <1>5 DEF Data, None
  <2> QED BY <2>1 DEF SmoveStops
<1>7. CASE SmoveStops(m1.db[k], m1.db[l], e)
  <2>1. m2 = m1 /\ s2 = s1
    BY <1>2, <1>6, <1>7 DEF Smoved
  <2> QED BY <1>1, <1>3, <1>4, <2>1, Stops
<1>8. CASE ~SmoveStops(m1.db[k], m1.db[l], e)
  <2>1. m1.db[k] = s1.db[k] /\ m1.db[l] = s1.db[l]
    BY <1>6, <1>8
  <2>2. /\ Wrote(m2, m1, L) /\ m2.dirty > 0
        /\ m2.db[l] = SmoveTo(m1.db[k], m1.db[l], e, k = l) /\ (k # l => m2.db[k] = SmoveFrom(m1.db[k], e))
        /\ k \notin m2.expires /\ l \notin m2.expires
    BY <1>2, <1>8 DEF Smoved, L
  <2>3. /\ Wrote(s2, s1, L)
        /\ s2.db[l] = SmoveTo(s1.db[k], s1.db[l], e, k = l) /\ (k # l => s2.db[k] = SmoveFrom(s1.db[k], e))
        /\ k \notin s2.expires /\ l \notin s2.expires
    BY <1>2, <1>6, <1>8 DEF Smoved, L
  <2>4. m2.db[k] = s2.db[k] /\ m2.db[l] = s2.db[l]
    <3>1. m2.db[l] = s2.db[l]
      BY <2>1, <2>2, <2>3
    <3>2. k # l => m2.db[k] = s2.db[k]
      BY <2>1, <2>2, <2>3
    <3> QED BY <3>1, <3>2
  <2>5. \A x \in Key : x \in L => Data(m2.db[x]) = Data(s2.db[x]) /\ (x \in m2.expires <=> x \in s2.expires)
    BY <2>2, <2>3, <2>4 DEF L
  <2>6. \A x \in outlived' : x \in L => x \notin m2.expires
    BY <2>2 DEF L
  <2> QED BY <1>1, <1>3, <1>4, <2>2, <2>3, <2>5, <2>6, Writes
<1> QED BY <1>7, <1>8

-----------------------------------------------------------------------------
(* SINTERSTORE, SUNIONSTORE, SDIFFSTORE, ZUNIONSTORE and ZINTERSTORE *)

\* The command writes the same on both sides, or nothing on the master.
LEMMA Ends ==
  ASSUME KInv, exact, NEW K, K \subseteq Key, NEW m1, NEW s1, Looked(m1, master, K), Looked(s1, slave, K),
         NEW D, NEW m2, NEW s2, Wrote(m2, m1, D), Wrote(s2, s1, D), m2.dirty \in Nat,
         m2.dirty > 0 =>
           \A x \in Key : x \in D => Data(m2.db[x]) = Data(s2.db[x]) /\ (x \in m2.expires <=> x \in s2.expires),
         m2.dirty = 0 => m1.dirty = 0 /\ \A x \in Key : m2.db[x] = m1.db[x] /\ (x \in m2.expires <=> x \in m1.expires),
         \A x \in outlived' : x \in D => x \notin m2.expires,
         master' = [m2 EXCEPT !.dirty = 0],
         slave' = IF m2.dirty > 0 THEN [s2 EXCEPT !.dirty = 0] ELSE slave,
         outlived' \subseteq Outlived,
         exact' \in BOOLEAN
  PROVE  KInv'
<1>1. CASE m2.dirty > 0
  BY <1>1, Writes
<1>2. CASE m2.dirty = 0
  <2>1. /\ Good(m1) /\ Good(s1) /\ Full(m1) /\ Full(s1)
        /\ m1.dirty = 0 => m1.expires = master.expires /\ \A x \in Key : m1.db[x] = master.db[x]
    BY LookedAlike
  <2>2. Good(m2) /\ Good(s2) /\ Full(m2) /\ Full(s2)
    BY <2>1, WroteGood
  <2>3. Full(slave) /\ \A x \in Key : AgreeAt(master, slave, x)
    BY DEF KInv
  <2>4. \A x \in Key : m2.db[x] = master.db[x] /\ (x \in m2.expires <=> x \in master.expires)
    BY <1>2, <2>1
  <2>5. \A x \in Key : AgreeAt(m2, slave, x)
    BY <2>3, <2>4 DEF AgreeAt
  <2>6. Followed(m2, s2, slave)
    BY <1>2, <2>5 DEF Followed
  <2>7. \A x \in outlived' : Stays(master, m2, x)
    BY <2>4 DEF Stays, KInv, Good, Srv
  <2> QED BY <1>2, <2>2, <2>3, <2>6, <2>7, Called
<1> QED BY <1>1, <1>2

\* What is at the key of the result is deleted, if there is something.
Cleared(r, s, dst) == r = IF s.db[dst] = None THEN s ELSE Dirty(deleteKey(s, dst), 1)

\* Then nothing is there, and it was so before when the dataset is not dirty.
LEMMA ClearedIs ==
  ASSUME NEW s, Good(s), NEW dst \in Key, NEW r, Cleared(r, s, dst)
  PROVE  /\ Wrote(r, s, {dst}) /\ r.dirty \in Nat /\ r.db[dst] = None /\ dst \notin r.expires
         /\ r.dirty = 0 => r = s
<1>1. Srv(s) /\ s.dirty \in Nat
  BY DEF Good, Srv
<1>2. CASE s.db[dst] = None
  <2>1. r = s /\ dst \notin s.expires
    BY <1>2 DEF Cleared, Good
  <2> QED BY <1>1, <1>2, <2>1, NoneValue DEF Wrote
<1>3. CASE s.db[dst] # None
  <2> DEFINE d == deleteKey(s, dst)
  <2>1. /\ Srv(d) /\ d.expires = s.expires \ {dst} /\ d.dirty = s.dirty /\ d.db[dst] = None
        /\ \A x \in Key : x # dst => d.db[x] = s.db[x]
    BY <1>1, DeleteIs
  <2>2. r = Dirty(d, 1)
    BY <1>3 DEF Cleared
  <2> HIDE DEF d
  <2>3. Srv(r) /\ r.expires = d.expires /\ r.dirty = d.dirty + 1 /\ r.db = d.db
    BY <2>1, <2>2, DirtyIs
  <2>4. r.dirty \in Nat /\ r.dirty # 0
    BY <1>1, <2>1, <2>3
  <2>5. /\ r.db[dst] = None /\ dst \notin r.expires
        /\ \A x \in Key : x # dst => r.db[x] = s.db[x] /\ (x \in r.expires <=> x \in s.expires)
    BY <2>1, <2>3
  <2> QED BY <2>3, <2>4, <2>5, NoneValue DEF Wrote
<1> QED BY <1>2, <1>3

\* A store command with no result keeps the invariant.
LEMMA ClearedEnds ==
  ASSUME KInv, exact, NEW K, K \subseteq Key, NEW m1, NEW s1, Looked(m1, master, K), Looked(s1, slave, K),
         NEW dst \in Key, NEW m2, NEW s2, Cleared(m2, m1, dst), Cleared(s2, s1, dst),
         master' = [m2 EXCEPT !.dirty = 0],
         slave' = IF m2.dirty > 0 THEN [s2 EXCEPT !.dirty = 0] ELSE slave,
         outlived' \subseteq Outlived,
         exact' \in BOOLEAN
  PROVE  KInv'
<1> DEFINE D == {dst}
<1>1. Good(m1) /\ Good(s1)
  BY LookedAlike
<1>2. /\ Wrote(m2, m1, D) /\ m2.dirty \in Nat /\ m2.db[dst] = None /\ dst \notin m2.expires
      /\ m2.dirty = 0 => m2 = m1
  BY <1>1, ClearedIs
<1>3. Wrote(s2, s1, D) /\ s2.db[dst] = None /\ dst \notin s2.expires
  BY <1>1, ClearedIs
<1>4. \A x \in Key : x \in D => Data(m2.db[x]) = Data(s2.db[x]) /\ (x \in m2.expires <=> x \in s2.expires)
  BY <1>2, <1>3
<1>5. \A x \in outlived' : x \in D => x \notin m2.expires
  BY <1>2
<1> HIDE DEF D
<1> QED BY <1>2, <1>3, <1>4, <1>5, Ends

\* A result is stored.
Stored(r, s, dst, v, n) == r = Dirty(StoreResult(s, dst, v), n)

\* Then the result is there, with no time to live.
LEMMA StoredIs ==
  ASSUME NEW s, Srv(s), NEW dst \in Key, NEW v, ValueOK(Left(v)), NotEmpty(Left(v)), NEW n \in Nat,
         NEW r, Stored(r, s, dst, v, n)
  PROVE  /\ Wrote(r, s, {dst}) /\ r.dirty \in Nat /\ r.dirty = s.dirty + n /\ r.db[dst] = Left(v) /\ dst \notin r.expires
         /\ \A x \in Key : x # dst => r.db[x] = s.db[x] /\ (x \in r.expires <=> x \in s.expires)
<1> DEFINE t == deleteKey(s, dst)
           u == StoreResult(s, dst, v)
<1>1. s.dirty \in Nat
  BY DEF Srv
<1>2. /\ Srv(t) /\ t.expires = s.expires \ {dst} /\ t.dirty = s.dirty /\ t.db[dst] = None
      /\ \A x \in Key : x # dst => t.db[x] = s.db[x]
  BY DeleteIs
<1>3. u = IF Size(v) = 0 THEN t ELSE Put(t, dst, v)
  BY DEF StoreResult
<1> HIDE DEF t, u
<1>4. /\ Srv(u) /\ u.expires = t.expires /\ u.dirty = t.dirty /\ u.db[dst] = Left(v)
      /\ \A x \in Key : x # dst => u.db[x] = t.db[x]
  <2>1. CASE Size(v) = 0
    <3>1. u = t /\ Left(v) = None
      BY <1>3, <2>1 DEF Left
    <3> QED BY <1>2, <3>1
  <2>2. CASE Size(v) # 0
    <3> DEFINE p == Put(t, dst, v)
    <3>1. u = p /\ Left(v) = v
      BY <1>3, <2>2 DEF Left
    <3>2. /\ Srv(p) /\ p.expires = t.expires /\ p.dirty = t.dirty /\ p.db[dst] = v
          /\ \A x \in Key : x # dst => p.db[x] = t.db[x]
      BY <1>2, PutIs
    <3> HIDE DEF p
    <3> QED BY <3>1, <3>2
  <2> QED BY <2>1, <2>2
<1>5. Srv(r) /\ r.expires = u.expires /\ r.dirty = u.dirty + n /\ r.db = u.db
  BY <1>4, DirtyIs DEF u, Stored
<1>6. /\ r.dirty \in Nat /\ r.dirty = s.dirty + n /\ r.db[dst] = Left(v) /\ dst \notin r.expires
      /\ \A x \in Key : x # dst => r.db[x] = s.db[x] /\ (x \in r.expires <=> x \in s.expires)
  BY <1>1, <1>2, <1>4, <1>5
<1> QED BY <1>5, <1>6 DEF Wrote

\* A store command with a result keeps the invariant.
LEMMA StoredEnds ==
  ASSUME KInv, exact, NEW K, K \subseteq Key, NEW m1, NEW s1, Looked(m1, master, K), Looked(s1, slave, K),
         NEW dst \in Key, NEW v, ValueOK(Left(v)), NotEmpty(Left(v)), NEW n \in Nat, NEW n2 \in Nat,
         n = 0 => m1.db[dst] = None /\ Left(v) = None,
         NEW m2, Stored(m2, m1, dst, v, n), NEW s2, Stored(s2, s1, dst, v, n2),
         master' = [m2 EXCEPT !.dirty = 0],
         slave' = IF m2.dirty > 0 THEN [s2 EXCEPT !.dirty = 0] ELSE slave,
         outlived' \subseteq Outlived,
         exact' \in BOOLEAN
  PROVE  KInv'
<1> DEFINE D == {dst}
<1>1. Good(m1) /\ Good(s1) /\ m1.dirty \in Nat
  BY LookedAlike
<1>6. Srv(m1) /\ Srv(s1)
  BY <1>1 DEF Good
<1>2. /\ Wrote(m2, m1, D) /\ m2.dirty \in Nat /\ m2.dirty = m1.dirty + n /\ m2.db[dst] = Left(v) /\ dst \notin m2.expires
      /\ \A x \in Key : x # dst => m2.db[x] = m1.db[x] /\ (x \in m2.expires <=> x \in m1.expires)
  BY ONLY <1>6, dst \in Key, ValueOK(Left(v)), NotEmpty(Left(v)), n \in Nat, Stored(m2, m1, dst, v, n), StoredIs
<1>3. /\ Wrote(s2, s1, D) /\ s2.dirty \in Nat /\ s2.dirty = s1.dirty + n2 /\ s2.db[dst] = Left(v) /\ dst \notin s2.expires
      /\ \A x \in Key : x # dst => s2.db[x] = s1.db[x] /\ (x \in s2.expires <=> x \in s1.expires)
  BY ONLY <1>6, dst \in Key, ValueOK(Left(v)), NotEmpty(Left(v)), n2 \in Nat, Stored(s2, s1, dst, v, n2), StoredIs
<1>4. \A x \in Key : x \in D => Data(m2.db[x]) = Data(s2.db[x]) /\ (x \in m2.expires <=> x \in s2.expires)
  BY <1>2, <1>3
<1>5. ASSUME m2.dirty = 0
      PROVE  m1.dirty = 0 /\ \A x \in Key : m2.db[x] = m1.db[x] /\ (x \in m2.expires <=> x \in m1.expires)
  <2>1. m1.dirty = 0 /\ n = 0
    BY <1>1, <1>2, <1>5
  <2>2. dst \notin m1.expires /\ m1.db[dst] = m2.db[dst]
    BY <1>1, <1>2, <2>1 DEF Good
  <2> QED BY <1>2, <2>1, <2>2
<1>7. \A x \in outlived' : x \in D => x \notin m2.expires
  BY <1>2
<1> HIDE DEF D
<1> QED BY <1>2, <1>3, <1>4, <1>5, <1>7, Ends

\* The lookups of two keys, one by one.
LEMMA LookIs ==
  ASSUME NEW s0, NEW k, NEW l, NEW ks, ks = <<k, l>>
  PROVE  /\ lookupAllWrite(s0, SubSeq(ks, 1, 1)) = lookupKeyWrite(s0, k)
         /\ lookupAllWrite(s0, SubSeq(ks, 1, 2)) = lookupKeyWrite(lookupKeyWrite(s0, k), l)
         /\ DOMAIN ks = {1, 2} /\ Len(ks) = 2 /\ ks[1] = k /\ ks[2] = l
<1>1. DOMAIN ks = {1, 2} /\ Len(ks) = 2 /\ ks[1] = k /\ ks[2] = l
  OBVIOUS
<1>6. ks \in Seq({k, l}) /\ <<k>> \in Seq({k, l}) /\ Len(<<k>>) = 1 /\ <<k>>[1] = k
  OBVIOUS
<1>2. SubSeq(ks, 1, 1) = <<k>>
  <2> DEFINE q == SubSeq(ks, 1, 1)
             p == <<k>>
  <2>1. q \in Seq({k, l}) /\ Len(q) = 1 /\ q[1] = ks[1]
    BY <1>1, <1>6
  <2>2. p \in Seq({k, l}) /\ Len(p) = 1 /\ p[1] = k
    BY <1>6
  <2> HIDE DEF q, p
  <2>3. q = p
    BY <1>1, <2>1, <2>2, SeqEqual
  <2> QED BY <2>3 DEF q, p
<1>3. SubSeq(ks, 1, 2) = <<k, l>>
  <2> DEFINE q == SubSeq(ks, 1, 2)
  <2>1. q \in Seq({k, l}) /\ Len(q) = 2 /\ q[1] = ks[1] /\ q[2] = ks[2]
    BY <1>1, <1>6
  <2> HIDE DEF q
  <2>2. \A i \in 1 .. Len(q) : q[i] = ks[i]
    BY <2>1
  <2>3. q = ks
    BY <1>1, <1>6, <2>1, <2>2, SeqEqual
  <2> QED BY <2>3 DEF q
<1>4. lookupAllWrite(s0, SubSeq(ks, 1, 1)) = lookupKeyWrite(s0, k)
  <2> DEFINE q == SubSeq(ks, 1, 1)
  <2> HIDE DEF q
  <2>1. q = <<k>>
    BY <1>2 DEF q
  <2>2. lookupAllWrite(s0, q) = lookupKeyWrite(s0, k)
    BY <2>1, LookOne
  <2> QED BY <2>2 DEF q
<1>5. lookupAllWrite(s0, SubSeq(ks, 1, 2)) = lookupKeyWrite(lookupKeyWrite(s0, k), l)
  <2> DEFINE q == SubSeq(ks, 1, 2)
  <2> HIDE DEF q
  <2>1. q = <<k, l>>
    BY <1>3 DEF q
  <2>2. lookupAllWrite(s0, q) = lookupKeyWrite(lookupKeyWrite(s0, k), l)
    BY <2>1, LookTwo
  <2> QED BY <2>2 DEF q
<1> QED BY <1>1, <1>4, <1>5

\* The least of a set of 1 and 2.
LEMMA MinOne ==
  ASSUME NEW S, S \subseteq {1, 2}, 1 \in S
  PROVE  Min(S) = 1
<1>1. 1 \in S /\ \A y \in S : 1 <= y
  OBVIOUS
<1>2. \A x \in S : (\A y \in S : x <= y) => x = 1
  OBVIOUS
<1> QED BY ONLY <1>1, <1>2 DEF Min

\* The least of a set of 2 alone.
LEMMA MinIsTwo ==
  ASSUME NEW S, S = {2}
  PROVE  Min(S) = 2
<1>1. 2 \in S /\ \A y \in S : 2 <= y
  OBVIOUS
<1>2. \A x \in S : (\A y \in S : x <= y) => x = 2
  OBVIOUS
<1> QED BY ONLY <1>1, <1>2 DEF Min

\* r is s0 after SINTERSTORE; s and t are what the lookups leave.
InterOf(v, w) == Set({e \in v[2] : e \in v[2] /\ e \in w[2]})
Sintered(s0, s, t, r, k, l, dst) ==
  /\ Looked(s, s0, {k}) /\ Looked(t, s0, {k, l}) /\ s.db[k] = t.db[k]
  /\ s.db[k][1] # "set" /\ s.db[k] = None => Cleared(r, s, dst)
  /\ s.db[k][1] # "set" /\ s.db[k] # None => r = s
  /\ s.db[k][1] = "set" /\ t.db[l][1] # "set" /\ t.db[l] = None => Cleared(r, t, dst)
  /\ s.db[k][1] = "set" /\ t.db[l][1] # "set" /\ t.db[l] # None => r = t
  /\ s.db[k][1] = "set" /\ t.db[l][1] = "set" => Stored(r, t, dst, InterOf(t.db[k], t.db[l]), 1)

\* SINTERSTORE does that.
LEMMA SinterIs ==
  ASSUME NEW s0, Good(s0), NEW k \in Key, NEW l \in Key, NEW dst \in Key
  PROVE  Sintered(s0, lookupKeyWrite(s0, k), lookupKeyWrite(lookupKeyWrite(s0, k), l),
                  sinterGenericCommand(s0, <<k, l>>, dst), k, l, dst)
<1> DEFINE ks == <<k, l>>
           after(n) == lookupAllWrite(s0, SubSeq(ks, 1, n))
           bad == {n \in DOMAIN ks : ~Is(after(n), ks[n], "set")}
           s == lookupKeyWrite(s0, k)
           t == lookupKeyWrite(s, l)
           r == sinterGenericCommand(s0, ks, dst)
<1>1. after(1) = s /\ after(2) = t /\ DOMAIN ks = {1, 2} /\ Len(ks) = 2 /\ ks[1] = k /\ ks[2] = l
  BY LookIs
<1>2. Looked(s, s0, {k}) /\ Looked(t, s0, {k, l}) /\ s.db[k] = t.db[k]
  <2>1. Looked(s, s0, {k}) /\ Looked(t, s0, {k, l})
    BY LookedTwo DEF Good
  <2> HIDE DEF s, t
  <2> QED BY <2>1 DEF Looked
<1>3. bad = {} => r = Dirty(StoreResult(after(Len(ks)), dst,
        Set({e \in Val(after(Len(ks)), ks[1]) : \A n \in DOMAIN ks : e \in Val(after(Len(ks)), ks[n])})), 1)
  BY DEF sinterGenericCommand
<1>4. bad # {} => r = IF Missing(after(Min(bad)), ks[Min(bad)]) /\ ~Missing(after(Min(bad)), dst)
                      THEN Dirty(deleteKey(after(Min(bad)), dst), 1) ELSE after(Min(bad))
  BY DEF sinterGenericCommand
<1>5. bad \subseteq {1, 2} /\ (1 \in bad <=> s.db[k][1] # "set") /\ (2 \in bad <=> t.db[l][1] # "set")
  <2> HIDE DEF after, s, t, ks
  <2> QED BY <1>1 DEF Is, Type
<1> HIDE DEF after, bad, s, t, r, ks
<1>6. CASE 1 \in bad
  <2>1. Min(bad) = 1
    BY <1>5, <1>6, MinOne
  <2>2. r = IF s.db[k] = None /\ s.db[dst] # None THEN Dirty(deleteKey(s, dst), 1) ELSE s
    BY <1>1, <1>4, <1>6, <2>1 DEF Missing
  <2>3. Sintered(s0, s, t, r, k, l, dst)
    BY <1>2, <1>5, <1>6, <2>2 DEF Sintered, Cleared
  <2> QED BY <2>3 DEF s, t, r, ks
<1>7. CASE 1 \notin bad /\ 2 \in bad
  <2>1. bad = {2}
    BY <1>5, <1>7
  <2>2. Min(bad) = 2
    BY <2>1, MinIsTwo
  <2>3. r = IF t.db[l] = None /\ t.db[dst] # None THEN Dirty(deleteKey(t, dst), 1) ELSE t
    BY <1>1, <1>4, <1>7, <2>2 DEF Missing
  <2>4. Sintered(s0, s, t, r, k, l, dst)
    BY <1>2, <1>5, <1>7, <2>3 DEF Sintered, Cleared
  <2> QED BY <2>4 DEF s, t, r, ks
<1>8. CASE bad = {}
  <2>1. r = Dirty(StoreResult(t, dst, Set({e \in Val(t, k) : \A n \in DOMAIN ks : e \in Val(t, ks[n])})), 1)
    BY <1>1, <1>3, <1>8
  <2>2. {e \in Val(t, k) : \A n \in DOMAIN ks : e \in Val(t, ks[n])} = {e \in t.db[k][2] : e \in t.db[k][2] /\ e \in t.db[l][2]}
    BY <1>1 DEF Val
  <2>3. Stored(r, t, dst, InterOf(t.db[k], t.db[l]), 1)
    BY <2>1, <2>2 DEF Stored, InterOf
  <2>4. Sintered(s0, s, t, r, k, l, dst)
    BY <1>2, <1>5, <1>8, <2>3 DEF Sintered
  <2> QED BY <2>4 DEF s, t, r, ks
<1> QED BY <1>5, <1>6, <1>7, <1>8

\* r is s0 after SUNIONSTORE or SDIFFSTORE.
UnionDiff(v, w, op) == Set(IF op = "union" THEN v[2] \cup w[2] ELSE v[2] \ w[2])
Other(v, type) == v # None /\ v[1] # type
Sunioned(s0, s, t, r, k, l, dst, op) ==
  /\ Looked(s, s0, {k}) /\ Looked(t, s0, {k, l}) /\ s.db[k] = t.db[k]
  /\ Other(s.db[k], "set") => r = s
  /\ ~Other(s.db[k], "set") /\ Other(t.db[l], "set") => r = t
  /\ ~Other(s.db[k], "set") /\ ~Other(t.db[l], "set") => Stored(r, t, dst, UnionDiff(t.db[k], t.db[l], op), 1)

\* SUNIONSTORE and SDIFFSTORE do that.
LEMMA SunionIs ==
  ASSUME NEW s0, Good(s0), NEW k \in Key, NEW l \in Key, NEW dst \in Key, NEW op
  PROVE  Sunioned(s0, lookupKeyWrite(s0, k), lookupKeyWrite(lookupKeyWrite(s0, k), l),
                  sunionDiffGenericCommand(s0, <<k, l>>, dst, op), k, l, dst, op)
<1> DEFINE ks == <<k, l>>
           after(n) == lookupAllWrite(s0, SubSeq(ks, 1, n))
           bad == {n \in DOMAIN ks : ~Missing(after(n), ks[n]) /\ ~Is(after(n), ks[n], "set")}
           s == lookupKeyWrite(s0, k)
           t == lookupKeyWrite(s, l)
           r == sunionDiffGenericCommand(s0, ks, dst, op)
           rest(x) == UNION {Val(x, ks[n]) : n \in 2 .. Len(ks)}
<1>1. after(1) = s /\ after(2) = t /\ DOMAIN ks = {1, 2} /\ Len(ks) = 2 /\ ks[1] = k /\ ks[2] = l
  BY LookIs
<1>2. Looked(s, s0, {k}) /\ Looked(t, s0, {k, l}) /\ s.db[k] = t.db[k]
  <2>1. Looked(s, s0, {k}) /\ Looked(t, s0, {k, l})
    BY LookedTwo DEF Good
  <2> HIDE DEF s, t
  <2> QED BY <2>1 DEF Looked
<1> DEFINE looked == after(IF bad = {} THEN Len(ks) ELSE Min(bad))
<1>10. r = IF bad # {} THEN looked
          ELSE Dirty(StoreResult(looked, dst, Set(IF op = "union" THEN Val(looked, ks[1]) \cup rest(looked) ELSE Val(looked, ks[1]) \ rest(looked))), 1)
  BY DEF sunionDiffGenericCommand
<1>3. bad = {} => r = Dirty(StoreResult(after(Len(ks)), dst,
        Set(IF op = "union" THEN Val(after(Len(ks)), ks[1]) \cup rest(after(Len(ks)))
            ELSE Val(after(Len(ks)), ks[1]) \ rest(after(Len(ks))))), 1)
  <2>1. bad = {} => looked = after(Len(ks))
    OBVIOUS
  <2> HIDE DEF looked, after, bad, ks, rest, r
  <2> QED BY <1>10, <2>1
<1>4. bad # {} => r = after(Min(bad))
  <2>1. bad # {} => looked = after(Min(bad))
    OBVIOUS
  <2> HIDE DEF looked, after, bad, ks, rest, r
  <2> QED BY <1>10, <2>1
<1> HIDE DEF looked
<1>5. bad \subseteq {1, 2} /\ (1 \in bad <=> Other(s.db[k], "set")) /\ (2 \in bad <=> Other(t.db[l], "set"))
  <2> HIDE DEF after, s, t, ks
  <2> QED BY <1>1 DEF Is, Type, Missing, Other
<1>9. rest(t) = t.db[l][2]
  <2> HIDE DEF t, ks
  <2>1. 2 .. Len(ks) = {2}
    BY <1>1
  <2>2. {Val(t, ks[n]) : n \in 2 .. Len(ks)} = {Val(t, l)}
    BY <1>1, <2>1
  <2> QED BY <2>2 DEF Val
<1> HIDE DEF after, bad, s, t, r, ks, rest
<1>6. CASE 1 \in bad
  <2>1. Min(bad) = 1
    BY <1>5, <1>6, MinOne
  <2>2. r = s
    BY <1>1, <1>4, <1>6, <2>1
  <2>3. Sunioned(s0, s, t, r, k, l, dst, op)
    BY <1>2, <1>5, <1>6, <2>2 DEF Sunioned
  <2> QED BY <2>3 DEF s, t, r, ks
<1>7. CASE 1 \notin bad /\ 2 \in bad
  <2>1. bad = {2}
    BY <1>5, <1>7
  <2>2. Min(bad) = 2
    BY <2>1, MinIsTwo
  <2>3. r = t
    BY <1>1, <1>4, <1>7, <2>2
  <2>4. Sunioned(s0, s, t, r, k, l, dst, op)
    BY <1>2, <1>5, <1>7, <2>3 DEF Sunioned
  <2> QED BY <2>4 DEF s, t, r, ks
<1>8. CASE bad = {}
  <2>1. r = Dirty(StoreResult(t, dst, Set(IF op = "union" THEN Val(t, k) \cup rest(t) ELSE Val(t, k) \ rest(t))), 1)
    BY <1>1, <1>3, <1>8
  <2>2. Stored(r, t, dst, UnionDiff(t.db[k], t.db[l], op), 1)
    BY <1>9, <2>1 DEF Stored, UnionDiff, Val
  <2>3. Sunioned(s0, s, t, r, k, l, dst, op)
    BY <1>2, <1>5, <1>8, <2>2 DEF Sunioned
  <2> QED BY <2>3 DEF s, t, r, ks
<1> QED BY <1>5, <1>6, <1>7, <1>8

\* SINTERSTORE keeps the invariant.
LEMMA SinterKeeps ==
  ASSUME KInv, exact, NEW k \in Key, NEW l \in Key, NEW dst \in Key,
         NEW m3, m3 = sinterGenericCommand(master, <<k, l>>, dst),
         NEW s3, s3 = sinterGenericCommand(slave, <<k, l>>, dst),
         master' = [m3 EXCEPT !.dirty = 0], slave' = IF m3.dirty > 0 THEN [s3 EXCEPT !.dirty = 0] ELSE slave,
         outlived' \subseteq Outlived,
         exact' = exact
  PROVE  KInv'
<1> DEFINE m1 == lookupKeyWrite(master, k)
           s1 == lookupKeyWrite(slave, k)
           m2 == lookupKeyWrite(m1, l)
           s2 == lookupKeyWrite(s1, l)
           K == {k}
           L == {k, l}
<1>1. /\ master' = [m3 EXCEPT !.dirty = 0] /\ slave' = IF m3.dirty > 0 THEN [s3 EXCEPT !.dirty = 0] ELSE slave
      /\ outlived' \subseteq Outlived
      /\ exact' \in BOOLEAN
  BY DEF KInv
<1>2. Sintered(master, m1, m2, m3, k, l, dst) /\ Sintered(slave, s1, s2, s3, k, l, dst)
  BY SinterIs DEF KInv
<1>3. K \subseteq Key /\ L \subseteq Key /\ k \in K /\ k \in L /\ l \in L
  OBVIOUS
<1> HIDE DEF m1, s1, m2, s2
<1>4. /\ Looked(m1, master, K) /\ Looked(s1, slave, K) /\ Looked(m2, master, L) /\ Looked(s2, slave, L)
      /\ m1.db[k] = m2.db[k] /\ s1.db[k] = s2.db[k]
  BY <1>2 DEF Sintered
<1> HIDE DEF K, L
<1>5. Data(m2.db[k]) = Data(s2.db[k]) /\ Data(m2.db[l]) = Data(s2.db[l]) /\ Good(m2)
  <2>1. (\A x \in L : Data(m2.db[x]) = Data(s2.db[x])) /\ Good(m2)
    BY ONLY KInv, exact, <1>3, <1>4, LookedAlike
  <2> QED BY <1>3, <2>1
<1>6. /\ m1.db[k] = None <=> s1.db[k] = None
      /\ m1.db[k][1] = "set" <=> s1.db[k][1] = "set"
      /\ m1.db[k][1] = "set" => m2.db[k] = s2.db[k]
      /\ m2.db[l] = None <=> s2.db[l] = None
      /\ m2.db[l][1] = "set" <=> s2.db[l][1] = "set"
      /\ m2.db[l][1] = "set" => m2.db[l] = s2.db[l]
  BY <1>4, <1>5 DEF Data, None
<1>7. CASE m1.db[k][1] # "set"
  <2>1. CASE m1.db[k] = None
    <3>1. Cleared(m3, m1, dst) /\ Cleared(s3, s1, dst)
      BY <1>2, <1>6, <1>7, <2>1 DEF Sintered
    <3> QED BY <1>1, <1>3, <1>4, <3>1, ClearedEnds
  <2>2. CASE m1.db[k] # None
    <3>1. m3 = m1 /\ s3 = s1
      BY <1>2, <1>6, <1>7, <2>2 DEF Sintered
    <3> QED BY <1>1, <1>3, <1>4, <3>1, Stops
  <2> QED BY <2>1, <2>2
<1>8. CASE m1.db[k][1] = "set" /\ m2.db[l][1] # "set"
  <2>1. CASE m2.db[l] = None
    <3>1. Cleared(m3, m2, dst) /\ Cleared(s3, s2, dst)
      BY <1>2, <1>6, <1>8, <2>1 DEF Sintered
    <3> QED BY <1>1, <1>3, <1>4, <3>1, ClearedEnds
  <2>2. CASE m2.db[l] # None
    <3>1. m3 = m2 /\ s3 = s2
      BY <1>2, <1>6, <1>8, <2>2 DEF Sintered
    <3> QED BY <1>1, <1>3, <1>4, <3>1, Stops
  <2> QED BY <2>1, <2>2
<1>9. CASE m1.db[k][1] = "set" /\ m2.db[l][1] = "set"
  <2> DEFINE S == {e \in m2.db[k][2] : e \in m2.db[k][2] /\ e \in m2.db[l][2]}
             v == InterOf(m2.db[k], m2.db[l])
  <2>1. IsFiniteSet(S)
    <3>1. ValueOK(m2.db[k]) /\ m2.db[k][1] = "set"
      BY <1>4, <1>5, <1>9 DEF Good
    <3>2. IsFiniteSet(m2.db[k][2])
      BY <3>1, Kinds
    <3> QED BY <3>2, FS_Subset
  <2>2. v = Set(S)
    BY DEF InterOf
  <2>3. Stored(m3, m2, dst, v, 1) /\ Stored(s3, s2, dst, v, 1)
    BY <1>2, <1>6, <1>9 DEF Sintered
  <2> HIDE DEF S, v
  <2>4. ValueOK(Left(v)) /\ NotEmpty(Left(v))
    BY <2>1, <2>2, SetValue
  <2> QED BY <1>1, <1>3, <1>4, <2>3, <2>4, StoredEnds
<1> QED BY <1>7, <1>8, <1>9

\* What is at a key that is missing, or holds a set or a sorted set.
LEMMA SourceIs ==
  ASSUME NEW v, ValueOK(v), NEW type \in {"set", "zset"}, ~Other(v, type)
  PROVE  /\ IsFiniteSet(v[2])
         /\ type = "zset" => \A p, q \in v[2] : p = <<p[1], p[2]>> /\ (p[1] = q[1] => p = q)
<1>1. CASE v = None
  <2>1. v[2] = {}
    BY <1>1 DEF None
  <2> QED BY <2>1, FS_EmptySet
<1>2. CASE v # None
  <2>1. v[1] = type
    BY <1>2 DEF Other
  <2> QED BY <2>1, Kinds
<1> QED BY <1>1, <1>2

\* The same on both sides.
LEMMA OtherAlike ==
  ASSUME NEW v, NEW w, Data(v) = Data(w), NEW type \in {"set", "zset"}
  PROVE  (Other(v, type) <=> Other(w, type)) /\ (~Other(v, type) => v = w)
BY DEF Data, None, Other

\* SUNIONSTORE and SDIFFSTORE keep the invariant.
LEMMA SunionKeeps ==
  ASSUME KInv, exact, NEW k \in Key, NEW l \in Key, NEW dst \in Key, NEW op,
         NEW m3, m3 = sunionDiffGenericCommand(master, <<k, l>>, dst, op),
         NEW s3, s3 = sunionDiffGenericCommand(slave, <<k, l>>, dst, op),
         master' = [m3 EXCEPT !.dirty = 0], slave' = IF m3.dirty > 0 THEN [s3 EXCEPT !.dirty = 0] ELSE slave,
         outlived' \subseteq Outlived,
         exact' = exact
  PROVE  KInv'
<1> DEFINE m1 == lookupKeyWrite(master, k)
           s1 == lookupKeyWrite(slave, k)
           m2 == lookupKeyWrite(m1, l)
           s2 == lookupKeyWrite(s1, l)
           K == {k}
           L == {k, l}
<1>1. /\ master' = [m3 EXCEPT !.dirty = 0] /\ slave' = IF m3.dirty > 0 THEN [s3 EXCEPT !.dirty = 0] ELSE slave
      /\ outlived' \subseteq Outlived
      /\ exact' \in BOOLEAN
  BY DEF KInv
<1>2. Sunioned(master, m1, m2, m3, k, l, dst, op) /\ Sunioned(slave, s1, s2, s3, k, l, dst, op)
  BY SunionIs DEF KInv
<1>3. K \subseteq Key /\ L \subseteq Key /\ k \in K /\ k \in L /\ l \in L
  OBVIOUS
<1> HIDE DEF m1, s1, m2, s2
<1>4. /\ Looked(m1, master, K) /\ Looked(s1, slave, K) /\ Looked(m2, master, L) /\ Looked(s2, slave, L)
      /\ m1.db[k] = m2.db[k] /\ s1.db[k] = s2.db[k]
  BY <1>2 DEF Sunioned
<1> HIDE DEF K, L
<1>5. Data(m2.db[k]) = Data(s2.db[k]) /\ Data(m2.db[l]) = Data(s2.db[l]) /\ Good(m2)
  <2>1. (\A x \in L : Data(m2.db[x]) = Data(s2.db[x])) /\ Good(m2)
    BY ONLY KInv, exact, <1>3, <1>4, LookedAlike
  <2> QED BY <1>3, <2>1
<1>6. /\ Other(m1.db[k], "set") <=> Other(s1.db[k], "set")
      /\ ~Other(m1.db[k], "set") => m2.db[k] = s2.db[k]
      /\ Other(m2.db[l], "set") <=> Other(s2.db[l], "set")
      /\ ~Other(m2.db[l], "set") => m2.db[l] = s2.db[l]
  BY <1>4, <1>5, OtherAlike
<1>7. CASE Other(m1.db[k], "set")
  <2>1. m3 = m1 /\ s3 = s1
    BY <1>2, <1>6, <1>7 DEF Sunioned
  <2> QED BY <1>1, <1>3, <1>4, <2>1, Stops
<1>8. CASE ~Other(m1.db[k], "set") /\ Other(m2.db[l], "set")
  <2>1. m3 = m2 /\ s3 = s2
    BY <1>2, <1>6, <1>8 DEF Sunioned
  <2> QED BY <1>1, <1>3, <1>4, <2>1, Stops
<1>9. CASE ~Other(m1.db[k], "set") /\ ~Other(m2.db[l], "set")
  <2> DEFINE a == m2.db[k][2]
             b == m2.db[l][2]
             S == IF op = "union" THEN a \cup b ELSE a \ b
             v == UnionDiff(m2.db[k], m2.db[l], op)
  <2>1. IsFiniteSet(S)
    <3>1. ValueOK(m2.db[k]) /\ ValueOK(m2.db[l]) /\ ~Other(m2.db[k], "set") /\ ~Other(m2.db[l], "set")
      BY <1>4, <1>5, <1>9 DEF Good
    <3>2. IsFiniteSet(a) /\ IsFiniteSet(b)
      BY <3>1, SourceIs
    <3> HIDE DEF a, b
    <3>3. IsFiniteSet(a \cup b) /\ IsFiniteSet(a \ b)
      BY <3>2, FS_Union, FS_Subset
    <3> QED BY <3>3
  <2>2. v = Set(S)
    BY DEF UnionDiff
  <2>3. Stored(m3, m2, dst, v, 1) /\ Stored(s3, s2, dst, v, 1)
    BY <1>2, <1>6, <1>9 DEF Sunioned
  <2> HIDE DEF S, v
  <2>4. ValueOK(Left(v)) /\ NotEmpty(Left(v))
    BY <2>1, <2>2, SetValue
  <2> QED BY <1>1, <1>3, <1>4, <2>3, <2>4, StoredEnds
<1> QED BY <1>7, <1>8, <1>9

\* ZUNIONSTORE and ZINTERSTORE: src is what is at the two sources.
ZSrc(v, w) == [n \in {1, 2} |-> IF n = 1 THEN v[2] ELSE w[2]]
ZIn(src, op) ==
  LET all == UNION {{p[1] : p \in src[n]} : n \in {1, 2}}
  IN  IF op = "union" THEN all ELSE {e \in all : Len(zunionSources(src, e)) = 2}
ZPairs(src, aggregate, op) == {<<e, zunionScore(src, <<1, 1>>, aggregate, e)>> : e \in ZIn(src, op)}
ZDirty(there, src, op) == (IF there = None THEN 0 ELSE 1) + (IF ZIn(src, op) = {} THEN 0 ELSE 1)
Zunioned(s0, s, t, r, k, l, dst, aggregate, op) ==
  /\ Looked(s, s0, {k}) /\ Looked(t, s0, {k, l}) /\ s.db[k] = t.db[k]
  /\ Other(s.db[k], "zset") => r = s
  /\ ~Other(s.db[k], "zset") /\ Other(t.db[l], "zset") => r = t
  /\ ~Other(s.db[k], "zset") /\ ~Other(t.db[l], "zset") =>
       Stored(r, t, dst, ZSet(ZPairs(ZSrc(t.db[k], t.db[l]), aggregate, op)), ZDirty(t.db[dst], ZSrc(t.db[k], t.db[l]), op))

\* ZUNIONSTORE and ZINTERSTORE do that.
LEMMA ZunionIs ==
  ASSUME NEW s0, Good(s0), NEW k \in Key, NEW l \in Key, NEW dst \in Key, NEW aggregate, NEW op
  PROVE  Zunioned(s0, lookupKeyWrite(s0, k), lookupKeyWrite(lookupKeyWrite(s0, k), l),
                  zunionInterGenericCommand(s0, dst, <<k, l>>, <<1, 1>>, aggregate, op), k, l, dst, aggregate, op)
<1> DEFINE ks == <<k, l>>
           after(n) == lookupAllWrite(s0, SubSeq(ks, 1, n))
           bad == {n \in DOMAIN ks : ~Missing(after(n), ks[n]) /\ ~Is(after(n), ks[n], "zset")}
           s == lookupKeyWrite(s0, k)
           t == lookupKeyWrite(s, l)
           r == zunionInterGenericCommand(s0, dst, ks, <<1, 1>>, aggregate, op)
           from(x) == [n \in DOMAIN ks |-> Val(x, ks[n])]
           some(src) == UNION {{p[1] : p \in src[n]} : n \in DOMAIN ks}
           in(src) == IF op = "union" THEN some(src) ELSE {e \in some(src) : Len(zunionSources(src, e)) = Len(ks)}
           result(src) == ZSet({<<e, zunionScore(src, <<1, 1>>, aggregate, e)>> : e \in in(src)})
<1>1. after(1) = s /\ after(2) = t /\ DOMAIN ks = {1, 2} /\ Len(ks) = 2 /\ ks[1] = k /\ ks[2] = l
  BY LookIs
<1>2. Looked(s, s0, {k}) /\ Looked(t, s0, {k, l}) /\ s.db[k] = t.db[k]
  <2>1. Looked(s, s0, {k}) /\ Looked(t, s0, {k, l})
    BY LookedTwo DEF Good
  <2> HIDE DEF s, t
  <2> QED BY <2>1 DEF Looked
<1>12. LET u == after(IF bad = {} THEN Len(ks) ELSE Min(bad))
       IN  r = IF bad # {} THEN u
               ELSE Dirty(StoreResult(u, dst, result(from(u))), (IF Missing(u, dst) THEN 0 ELSE 1) + (IF in(from(u)) = {} THEN 0 ELSE 1))
  BY ZenonT(30) DEF zunionInterGenericCommand
<1> HIDE DEF after, bad, r, from, in, result
<1>3. bad = {} => r = Dirty(StoreResult(after(Len(ks)), dst, result(from(after(Len(ks))))),
                      (IF Missing(after(Len(ks)), dst) THEN 0 ELSE 1) + (IF in(from(after(Len(ks)))) = {} THEN 0 ELSE 1))
  BY <1>12
<1>4. bad # {} => r = after(Min(bad))
  BY <1>12
<1>5. bad \subseteq {1, 2} /\ (1 \in bad <=> Other(s.db[k], "zset")) /\ (2 \in bad <=> Other(t.db[l], "zset"))
  <2> HIDE DEF s, t, ks
  <2> QED BY <1>1 DEF Is, Type, Missing, Other, bad
<1>9. from(t) = ZSrc(t.db[k], t.db[l])
  <2> HIDE DEF t, ks
  <2> QED BY <1>1 DEF Val, ZSrc, from
<1>10. \A src : in(src) = ZIn(src, op)
  <2> HIDE DEF ks
  <2> QED BY <1>1 DEF ZIn, in
<1>11. \A src : result(src) = ZSet(ZPairs(src, aggregate, op))
  <2> QED BY <1>10 DEF ZPairs, result
<1> HIDE DEF after, bad, s, t, r, ks, from, in, result
<1>6. CASE 1 \in bad
  <2>1. Min(bad) = 1
    BY <1>5, <1>6, MinOne
  <2>2. r = s
    BY <1>1, <1>4, <1>6, <2>1
  <2>3. Zunioned(s0, s, t, r, k, l, dst, aggregate, op)
    BY <1>2, <1>5, <1>6, <2>2 DEF Zunioned
  <2> QED BY <2>3 DEF s, t, r, ks
<1>7. CASE 1 \notin bad /\ 2 \in bad
  <2>1. bad = {2}
    BY <1>5, <1>7
  <2>2. Min(bad) = 2
    BY <2>1, MinIsTwo
  <2>3. r = t
    BY <1>1, <1>4, <1>7, <2>2
  <2>4. Zunioned(s0, s, t, r, k, l, dst, aggregate, op)
    BY <1>2, <1>5, <1>7, <2>3 DEF Zunioned
  <2> QED BY <2>4 DEF s, t, r, ks
<1>8. CASE bad = {}
  <2>1. r = Dirty(StoreResult(t, dst, result(from(t))), (IF Missing(t, dst) THEN 0 ELSE 1) + (IF in(from(t)) = {} THEN 0 ELSE 1))
    BY <1>1, <1>3, <1>8
  <2>2. Stored(r, t, dst, ZSet(ZPairs(ZSrc(t.db[k], t.db[l]), aggregate, op)), ZDirty(t.db[dst], ZSrc(t.db[k], t.db[l]), op))
    BY <1>9, <1>10, <1>11, <2>1 DEF Stored, ZDirty, Missing
  <2>3. Zunioned(s0, s, t, r, k, l, dst, aggregate, op)
    BY <1>2, <1>5, <1>8, <2>2 DEF Zunioned
  <2> QED BY <2>3 DEF s, t, r, ks
<1> QED BY <1>5, <1>6, <1>7, <1>8

\* The elements of the sources are finitely many, and each has one score in the result.
LEMMA ZPairsOK ==
  ASSUME NEW src, IsFiniteSet(src[1]), IsFiniteSet(src[2]), NEW aggregate, NEW op, NEW P, P = ZPairs(src, aggregate, op)
  PROVE  /\ IsFiniteSet(P) /\ \A p, q \in P : p = <<p[1], p[2]>> /\ (p[1] = q[1] => p = q)
         /\ ZIn(src, op) = {} => P = {}
<1> DEFINE first(n) == {p[1] : p \in src[n]}
           some == UNION {first(n) : n \in {1, 2}}
           in == ZIn(src, op)
           score(e) == zunionScore(src, <<1, 1>>, aggregate, e)
<1>1. ASSUME NEW S, IsFiniteSet(S) PROVE IsFiniteSet({p[1] : p \in S})
  <2> DEFINE T == {p[1] : p \in S}
             f == [p \in S |-> p[1]]
  <2>1. f \in Surjection(S, T)
    BY DEF Surjection
  <2> HIDE DEF T, f
  <2>2. IsFiniteSet(T)
    BY <1>1, <2>1, FS_Surjection
  <2> QED BY <2>2 DEF T
<1>2. IsFiniteSet(first(1)) /\ IsFiniteSet(first(2))
  BY <1>1
<1>3. some = first(1) \cup first(2)
  <2> HIDE DEF first
  <2> QED OBVIOUS
<1>4. in \subseteq some
  BY DEF ZIn
<1> HIDE DEF first, some, in
<1>5. IsFiniteSet(in)
  BY <1>2, <1>3, <1>4, FS_Union, FS_Subset
<1>6. P = {<<e, score(e)>> : e \in in}
  BY DEF ZPairs, in
<1> HIDE DEF score
<1>7. IsFiniteSet(P)
  <2> DEFINE f == [e \in in |-> <<e, score(e)>>]
  <2>1. f \in Surjection(in, P)
    BY <1>6 DEF Surjection
  <2> HIDE DEF f
  <2> QED BY <1>5, <2>1, FS_Surjection
<1>8. \A p, q \in P : p = <<p[1], p[2]>> /\ (p[1] = q[1] => p = q)
  BY <1>6
<1>9. in = {} => P = {}
  BY <1>6
<1> QED BY <1>7, <1>8, <1>9 DEF in

\* ZUNIONSTORE and ZINTERSTORE keep the invariant.
LEMMA ZunionKeeps ==
  ASSUME KInv, exact, NEW k \in Key, NEW l \in Key, NEW dst \in Key, NEW aggregate, NEW op,
         NEW m3, m3 = zunionInterGenericCommand(master, dst, <<k, l>>, <<1, 1>>, aggregate, op),
         NEW s3, s3 = zunionInterGenericCommand(slave, dst, <<k, l>>, <<1, 1>>, aggregate, op),
         master' = [m3 EXCEPT !.dirty = 0], slave' = IF m3.dirty > 0 THEN [s3 EXCEPT !.dirty = 0] ELSE slave,
         outlived' \subseteq Outlived,
         exact' = exact
  PROVE  KInv'
<1> DEFINE m1 == lookupKeyWrite(master, k)
           s1 == lookupKeyWrite(slave, k)
           m2 == lookupKeyWrite(m1, l)
           s2 == lookupKeyWrite(s1, l)
           K == {k}
           L == {k, l}
<1>1. /\ master' = [m3 EXCEPT !.dirty = 0] /\ slave' = IF m3.dirty > 0 THEN [s3 EXCEPT !.dirty = 0] ELSE slave
      /\ outlived' \subseteq Outlived
      /\ exact' \in BOOLEAN
  BY DEF KInv
<1>2. Zunioned(master, m1, m2, m3, k, l, dst, aggregate, op) /\ Zunioned(slave, s1, s2, s3, k, l, dst, aggregate, op)
  BY ZunionIs DEF KInv
<1>3. K \subseteq Key /\ L \subseteq Key /\ k \in K /\ k \in L /\ l \in L
  OBVIOUS
<1> HIDE DEF m1, s1, m2, s2
<1>4. /\ Looked(m1, master, K) /\ Looked(s1, slave, K) /\ Looked(m2, master, L) /\ Looked(s2, slave, L)
      /\ m1.db[k] = m2.db[k] /\ s1.db[k] = s2.db[k]
  BY <1>2 DEF Zunioned
<1> HIDE DEF K, L
<1>5. Data(m2.db[k]) = Data(s2.db[k]) /\ Data(m2.db[l]) = Data(s2.db[l]) /\ Good(m2)
  <2>1. (\A x \in L : Data(m2.db[x]) = Data(s2.db[x])) /\ Good(m2)
    BY ONLY KInv, exact, <1>3, <1>4, LookedAlike
  <2> QED BY <1>3, <2>1
<1>6. /\ Other(m1.db[k], "zset") <=> Other(s1.db[k], "zset")
      /\ ~Other(m1.db[k], "zset") => m2.db[k] = s2.db[k]
      /\ Other(m2.db[l], "zset") <=> Other(s2.db[l], "zset")
      /\ ~Other(m2.db[l], "zset") => m2.db[l] = s2.db[l]
  BY <1>4, <1>5, OtherAlike
<1>7. CASE Other(m1.db[k], "zset")
  <2>1. m3 = m1 /\ s3 = s1
    BY <1>2, <1>6, <1>7 DEF Zunioned
  <2> QED BY <1>1, <1>3, <1>4, <2>1, Stops
<1>8. CASE ~Other(m1.db[k], "zset") /\ Other(m2.db[l], "zset")
  <2>1. m3 = m2 /\ s3 = s2
    BY <1>2, <1>6, <1>8 DEF Zunioned
  <2> QED BY <1>1, <1>3, <1>4, <2>1, Stops
<1>9. CASE ~Other(m1.db[k], "zset") /\ ~Other(m2.db[l], "zset")
  <2> DEFINE src == ZSrc(m2.db[k], m2.db[l])
             P == ZPairs(src, aggregate, op)
             v == ZSet(P)
             n == ZDirty(m2.db[dst], src, op)
             n2 == ZDirty(s2.db[dst], src, op)
  <2>1. IsFiniteSet(src[1]) /\ IsFiniteSet(src[2])
    <3>1. ValueOK(m2.db[k]) /\ ValueOK(m2.db[l]) /\ ~Other(m2.db[k], "zset") /\ ~Other(m2.db[l], "zset")
      BY <1>4, <1>5, <1>9 DEF Good
    <3>2. IsFiniteSet(m2.db[k][2]) /\ IsFiniteSet(m2.db[l][2])
      BY <3>1, SourceIs
    <3> QED BY <3>2 DEF ZSrc
  <2>2. Stored(m3, m2, dst, v, n) /\ Stored(s3, s2, dst, v, n2)
    BY <1>2, <1>6, <1>9 DEF Zunioned
  <2>3. n \in Nat /\ n2 \in Nat /\ (n = 0 => m2.db[dst] = None /\ ZIn(src, op) = {})
    BY DEF ZDirty
  <2> HIDE DEF src, P, n, n2
  <2>4. /\ IsFiniteSet(P) /\ \A p, q \in P : p = <<p[1], p[2]>> /\ (p[1] = q[1] => p = q)
        /\ ZIn(src, op) = {} => P = {}
    <3>1. P = ZPairs(src, aggregate, op)
      BY DEF P
    <3> QED BY <2>1, <3>1, ZPairsOK
  <2>5. ValueOK(Left(v)) /\ NotEmpty(Left(v)) /\ (P = {} => Left(v) = None)
    BY <2>4, ZSetValue
  <2> HIDE DEF v
  <2>6. n = 0 => m2.db[dst] = None /\ Left(v) = None
    BY <2>3, <2>4, <2>5
  <2> QED BY <1>1, <1>3, <1>4, <2>2, <2>3, <2>5, <2>6, StoredEnds
<1> QED BY <1>7, <1>8, <1>9

\* All of them.
LEMMA StoreKeeps ==
  ASSUME KInv, exact, storeCommands
  PROVE  KInv'
<1> PICK k \in Key, l \in Key, dst \in Key :
      \/ Call(LAMBDA s : sinterGenericCommand(s, <<k, l>>, dst))
      \/ \E op \in {"union", "diff"} : Call(LAMBDA s : sunionDiffGenericCommand(s, <<k, l>>, dst, op))
      \/ \E op \in {"union", "inter"}, aggregate \in {"sum", "min"} :
           Call(LAMBDA s : zunionInterGenericCommand(s, dst, <<k, l>>, <<1, 1>>, aggregate, op))
  BY DEF storeCommands
<1>1. CASE Call(LAMBDA s : sinterGenericCommand(s, <<k, l>>, dst))
  <2> DEFINE m3 == sinterGenericCommand(master, <<k, l>>, dst)
             s3 == sinterGenericCommand(slave, <<k, l>>, dst)
  <2>1. /\ master' = [m3 EXCEPT !.dirty = 0] /\ slave' = IF m3.dirty > 0 THEN [s3 EXCEPT !.dirty = 0] ELSE slave
        /\ outlived' \subseteq Outlived
        /\ exact' = exact
    BY <1>1 DEF Call, Call2, Propagated
  <2>2. m3 = sinterGenericCommand(master, <<k, l>>, dst) /\ s3 = sinterGenericCommand(slave, <<k, l>>, dst)
    OBVIOUS
  <2> HIDE DEF m3, s3
  <2> QED BY <2>1, <2>2, SinterKeeps
<1>2. CASE \E op \in {"union", "diff"} : Call(LAMBDA s : sunionDiffGenericCommand(s, <<k, l>>, dst, op))
  <2> PICK op \in {"union", "diff"} : Call(LAMBDA s : sunionDiffGenericCommand(s, <<k, l>>, dst, op))
    BY <1>2
  <2> DEFINE m3 == sunionDiffGenericCommand(master, <<k, l>>, dst, op)
             s3 == sunionDiffGenericCommand(slave, <<k, l>>, dst, op)
  <2>1. /\ master' = [m3 EXCEPT !.dirty = 0] /\ slave' = IF m3.dirty > 0 THEN [s3 EXCEPT !.dirty = 0] ELSE slave
        /\ outlived' \subseteq Outlived
        /\ exact' = exact
    BY DEF Call, Call2, Propagated
  <2>2. m3 = sunionDiffGenericCommand(master, <<k, l>>, dst, op) /\ s3 = sunionDiffGenericCommand(slave, <<k, l>>, dst, op)
    OBVIOUS
  <2> HIDE DEF m3, s3
  <2> QED BY <2>1, <2>2, SunionKeeps
<1>3. CASE \E op \in {"union", "inter"}, aggregate \in {"sum", "min"} :
           Call(LAMBDA s : zunionInterGenericCommand(s, dst, <<k, l>>, <<1, 1>>, aggregate, op))
  <2> PICK op \in {"union", "inter"}, aggregate \in {"sum", "min"} :
        Call(LAMBDA s : zunionInterGenericCommand(s, dst, <<k, l>>, <<1, 1>>, aggregate, op))
    BY <1>3
  <2> DEFINE m3 == zunionInterGenericCommand(master, dst, <<k, l>>, <<1, 1>>, aggregate, op)
             s3 == zunionInterGenericCommand(slave, dst, <<k, l>>, <<1, 1>>, aggregate, op)
  <2>1. /\ master' = [m3 EXCEPT !.dirty = 0] /\ slave' = IF m3.dirty > 0 THEN [s3 EXCEPT !.dirty = 0] ELSE slave
        /\ outlived' \subseteq Outlived
        /\ exact' = exact
    BY DEF Call, Call2, Propagated
  <2>2. /\ m3 = zunionInterGenericCommand(master, dst, <<k, l>>, <<1, 1>>, aggregate, op)
        /\ s3 = zunionInterGenericCommand(slave, dst, <<k, l>>, <<1, 1>>, aggregate, op)
    OBVIOUS
  <2> HIDE DEF m3, s3
  <2> QED BY <2>1, <2>2, ZunionKeeps
<1> QED BY <1>1, <1>2, <1>3

-----------------------------------------------------------------------------
(* DEL, FLUSHDB and FLUSHALL *)

\* r is s without the keys of D, dirty if there was one.
Deleted(r, s, D) ==
  /\ Srv(r)
  /\ \A x \in Key : x \in D => r.db[x] = None /\ x \notin r.expires
  /\ \A x \in Key : x \notin D => r.db[x] = s.db[x] /\ (x \in r.expires <=> x \in s.expires)
  /\ r.dirty = 0 => \A x \in Key : r.db[x] = s.db[x] /\ (x \in r.expires <=> x \in s.expires)

\* A command that deletes the keys of D on both sides keeps the invariant.
LEMMA DeletedEnds ==
  ASSUME KInv, exact, NEW D, NEW m2, NEW s2, Deleted(m2, master, D), Deleted(s2, slave, D),
         master' = [m2 EXCEPT !.dirty = 0],
         slave' = IF m2.dirty > 0 THEN [s2 EXCEPT !.dirty = 0] ELSE slave,
         outlived' \subseteq Outlived,
         exact' \in BOOLEAN
  PROVE  KInv'
<1>1. Srv(master) /\ Srv(slave) /\ master.dirty = 0
  BY DEF KInv, Good
<1>2. Looked(master, master, {}) /\ Looked(slave, slave, {})
  BY <1>1, LookedNone
<1>3. Wrote(m2, master, D) /\ Wrote(s2, slave, D) /\ m2.dirty \in Nat
  BY NoneValue DEF Deleted, Wrote, Srv
<1>4. \A x \in Key : x \in D => Data(m2.db[x]) = Data(s2.db[x]) /\ (x \in m2.expires <=> x \in s2.expires)
  BY DEF Deleted
<1>5. m2.dirty = 0 => \A x \in Key : m2.db[x] = master.db[x] /\ (x \in m2.expires <=> x \in master.expires)
  BY DEF Deleted
<1> DEFINE K == {}
<1>6. K \subseteq Key /\ Looked(master, master, K) /\ Looked(slave, slave, K)
  BY <1>2
<1>7. \A x \in outlived' : x \in D => x \notin m2.expires
  <2> TAKE x \in outlived'
  <2> HAVE x \in D
  <2>1. CASE x \in Key
    BY <2>1 DEF Deleted
  <2>2. CASE x \notin Key
    BY <1>3, <2>2 DEF Wrote, Srv
  <2> QED BY <2>1, <2>2
<1> HIDE DEF K
<1> QED BY <1>1, <1>3, <1>4, <1>5, <1>6, <1>7, Ends

\* DEL of two keys.
LEMMA DelIs ==
  ASSUME NEW s, Good(s), NEW k \in Key, NEW l \in Key, NEW r, r = delCommand(s, <<k, l>>)
  PROVE  Deleted(r, s, {k, l})
<1> DEFINE t == DelOne(s, k)
           u == DelOne(t, l)
<1>1. r = u
  BY DelTwo
<1>2. Cleared(t, s, k)
  BY DEF Cleared, DelOne, Missing
<1>3. Cleared(u, t, l)
  <2> HIDE DEF t
  <2> QED BY DEF Cleared, DelOne, Missing
<1> HIDE DEF t, u
<1>4. Wrote(t, s, {k}) /\ t.dirty \in Nat /\ t.db[k] = None /\ k \notin t.expires /\ (t.dirty = 0 => t = s)
  BY <1>2, ClearedIs
<1>5. Good(t)
  BY <1>4, WroteGood
<1>6. Wrote(u, t, {l}) /\ u.dirty \in Nat /\ u.db[l] = None /\ l \notin u.expires /\ (u.dirty = 0 => u = t)
  BY <1>3, <1>5, ClearedIs
<1>7. Srv(u)
  BY <1>6 DEF Wrote
<1>8. u.db[k] = None /\ k \notin u.expires
  <2>1. CASE k = l
    BY <1>6, <2>1
  <2>2. CASE k # l
    BY <1>4, <1>6, <2>2 DEF Wrote
  <2> QED BY <2>1, <2>2
<1>9. \A x \in Key : x \notin {k, l} => u.db[x] = s.db[x] /\ (x \in u.expires <=> x \in s.expires)
  BY <1>4, <1>6 DEF Wrote
<1>10. u.dirty = 0 => \A x \in Key : u.db[x] = s.db[x] /\ (x \in u.expires <=> x \in s.expires)
  BY <1>4, <1>6
<1>11. \A x \in Key : x \in {k, l} => u.db[x] = None /\ x \notin u.expires
  BY <1>6, <1>8
<1> DEFINE D == {k, l}
<1>12. /\ \A x \in Key : x \in D => u.db[x] = None /\ x \notin u.expires
       /\ \A x \in Key : x \notin D => u.db[x] = s.db[x] /\ (x \in u.expires <=> x \in s.expires)
  BY <1>9, <1>11
<1> HIDE DEF D
<1>13. Deleted(u, s, D)
  BY <1>7, <1>10, <1>12 DEF Deleted
<1> QED BY <1>1, <1>13 DEF D

\* DEL keeps the invariant.
LEMMA DelKeeps ==
  ASSUME KInv, exact, del
  PROVE  KInv'
<1> PICK k \in Key, l \in Key : Call(LAMBDA s : delCommand(s, <<k, l>>))
  BY DEF del
<1> DEFINE m2 == delCommand(master, <<k, l>>)
           s2 == delCommand(slave, <<k, l>>)
           D == {k, l}
<1>1. /\ master' = [m2 EXCEPT !.dirty = 0] /\ slave' = IF m2.dirty > 0 THEN [s2 EXCEPT !.dirty = 0] ELSE slave
      /\ outlived' \subseteq Outlived
      /\ exact' \in BOOLEAN
  BY DEF Call, Call2, Propagated, KInv
<1>2. Deleted(m2, master, D) /\ Deleted(s2, slave, D)
  BY DelIs DEF KInv
<1> HIDE DEF m2, s2, D
<1> QED BY <1>1, <1>2, DeletedEnds

\* FLUSHDB of the keys of D.
LEMMA FlushIs ==
  ASSUME NEW s, Good(s), NEW d
  PROVE  Deleted(flushdbCommand(s, d), s, InDb(d))
<1> DEFINE D == InDb(d)
           there == {k \in D : ~Missing(s, k)}
           r == flushdbCommand(s, d)
           n == Cardinality(there)
<1>1. D \subseteq Key /\ there \subseteq Key
  BY DEF InDb
<1>2. r = [db |-> [k \in Key |-> IF k \in D THEN None ELSE s.db[k]], expires |-> s.expires \ D, dirty |-> s.dirty + n]
  BY DEF flushdbCommand
<1>3. IsFiniteSet(there) /\ n \in Nat /\ (n = 0 <=> there = {})
  <2>1. IsFiniteSet(there)
    BY <1>1, KeyspaceFiniteAssumption, FS_Subset
  <2> HIDE DEF there
  <2> QED BY <2>1, FS_CardinalityType, FS_EmptySet
<1>4. there = {} => \A k \in D : s.db[k] = None
  BY DEF Missing
<1>5. s.dirty \in Nat /\ s.expires \subseteq Key
  BY DEF Good, Srv
<1> HIDE DEF there, n, r, D
<1>6. /\ r.db = [k \in Key |-> IF k \in D THEN None ELSE s.db[k]] /\ r.expires = s.expires \ D /\ r.dirty = s.dirty + n
      /\ r = [db |-> r.db, expires |-> r.expires, dirty |-> r.dirty]
  BY <1>2
<1>7. Srv(r)
  <2>1. r.db = [k \in Key |-> r.db[k]]
    BY <1>6
  <2>2. r.dirty \in Nat /\ r.expires \subseteq Key
    BY <1>3, <1>5, <1>6
  <2> QED BY <1>6, <2>1, <2>2 DEF Srv
<1>8. \A x \in Key : x \in D => r.db[x] = None /\ x \notin r.expires
  BY <1>6
<1>9. \A x \in Key : x \notin D => r.db[x] = s.db[x] /\ (x \in r.expires <=> x \in s.expires)
  BY <1>6
<1>10. ASSUME r.dirty = 0 PROVE \A x \in Key : r.db[x] = s.db[x] /\ (x \in r.expires <=> x \in s.expires)
  <2>1. n = 0
    BY <1>3, <1>5, <1>6, <1>10
  <2>2. \A x \in D : s.db[x] = None
    BY <1>3, <1>4, <2>1
  <2>3. \A x \in D : x \notin s.expires
    BY <2>2 DEF Good
  <2> QED BY <1>8, <1>9, <2>2, <2>3
<1> QED BY <1>7, <1>8, <1>9, <1>10 DEF Deleted, r, D

\* FLUSHDB keeps the invariant.
LEMMA FlushdbKeeps ==
  ASSUME KInv, exact, flushdb
  PROVE  KInv'
<1> PICK d \in Databases : Call(LAMBDA s : flushdbCommand(s, d))
  BY DEF flushdb
<1> DEFINE m2 == flushdbCommand(master, d)
           s2 == flushdbCommand(slave, d)
           D == InDb(d)
<1>1. /\ master' = [m2 EXCEPT !.dirty = 0] /\ slave' = IF m2.dirty > 0 THEN [s2 EXCEPT !.dirty = 0] ELSE slave
      /\ outlived' \subseteq Outlived
      /\ exact' \in BOOLEAN
  BY DEF Call, Call2, Propagated, KInv
<1>2. Deleted(m2, master, D) /\ Deleted(s2, slave, D)
  BY FlushIs DEF KInv
<1> HIDE DEF m2, s2, D
<1> QED BY <1>1, <1>2, DeletedEnds

\* The empty server.
LEMMA EmptyIs ==
  ASSUME NEW s, s = [EmptyServer EXCEPT !.dirty = s.dirty], s.dirty \in Nat
  PROVE  Good(s) /\ Full(s) /\ \A k \in Key : s.db[k] = None /\ k \notin s.expires
<1>1. s = [db |-> [k \in Key |-> None], expires |-> {}, dirty |-> s.dirty]
  BY DEF EmptyServer
<1>2. s.db = [k \in Key |-> None] /\ s.expires = {}
  BY <1>1
<1>3. \A k \in Key : s.db[k] = None /\ k \notin s.expires
  BY <1>2
<1>4. s.db = [k \in Key |-> s.db[k]]
  BY <1>2
<1>5. Srv(s)
  BY <1>1, <1>2, <1>4 DEF Srv
<1> QED BY <1>2, <1>3, <1>5, NoneValue DEF Good, Full

\* FLUSHALL empties a server, and leaves it dirty.
LEMMA FlushallIs ==
  ASSUME NEW s, s.db = [k \in Key |-> s.db[k]], s.dirty \in Nat, NEW saved \in BOOLEAN
  PROVE  LET r == flushallCommand(s, saved)
         IN  Good(r) /\ Full(r) /\ r.dirty \in Nat /\ \A k \in Key : r.db[k] = None /\ k \notin r.expires
<1> DEFINE removed == Cardinality({k \in Key : ~Missing(s, k)})
           n == (IF saved THEN 0 ELSE s.dirty + removed) + 1
           r == [EmptyServer EXCEPT !.dirty = n]
<1>1. n \in Nat
  <2>1. IsFiniteSet({k \in Key : ~Missing(s, k)})
    BY KeyspaceFiniteAssumption, FS_Subset
  <2>2. removed \in Nat
    BY <2>1, FS_CardinalityType
  <2> QED BY <2>2
<1>2. flushallCommand(s, saved) = r
  BY DEF flushallCommand
<1> HIDE DEF n
<1>3. r.dirty = n /\ r = [EmptyServer EXCEPT !.dirty = r.dirty]
  BY DEF EmptyServer
<1> HIDE DEF r
<1>4. Good(r) /\ Full(r) /\ \A k \in Key : r.db[k] = None /\ k \notin r.expires
  BY <1>1, <1>3, EmptyIs
<1> QED BY <1>1, <1>2, <1>3, <1>4

\* FLUSHALL keeps the invariant, from any state: the two are equal again if the slave is sent it.
LEMMA FlushallKeeps ==
  ASSUME KInv, flushall
  PROVE  KInv'
<1>1. PICK before \in 0 .. MaxChanges, saved \in BOOLEAN :
        LET flushed == flushallCommand([master EXCEPT !.dirty = before], saved)
            sent == flushed.dirty # before
        IN  /\ master' = [flushed EXCEPT !.dirty = 0]
            /\ slave' = IF sent THEN [flushallCommand(slave, saved) EXCEPT !.dirty = 0] ELSE slave
            /\ exact' = sent /\ outlived' = {}
  BY DEF flushall
<1> DEFINE s == [master EXCEPT !.dirty = before]
           m2 == flushallCommand(s, saved)
           s2 == flushallCommand(slave, saved)
           sent == m2.dirty # before
<1>2. /\ master' = [m2 EXCEPT !.dirty = 0] /\ slave' = IF sent THEN [s2 EXCEPT !.dirty = 0] ELSE slave
      /\ exact' = sent /\ outlived' = {}
  BY <1>1
<1>3. s.db = [k \in Key |-> s.db[k]] /\ s.dirty \in Nat
  <2>1. Srv(master) /\ before \in Nat
    BY KeyspaceLimitAssumption DEF KInv, Good
  <2>2. s = [db |-> master.db, expires |-> master.expires, dirty |-> before]
    BY <2>1 DEF Srv
  <2> QED BY <2>1, <2>2 DEF Srv
<1>4. Good(m2) /\ Full(m2) /\ \A k \in Key : m2.db[k] = None /\ k \notin m2.expires
  BY <1>3, FlushallIs
<1>5. Good(s2) /\ Full(s2) /\ \A k \in Key : s2.db[k] = None /\ k \notin s2.expires
  BY FlushallIs DEF KInv, Good, Srv
<1> HIDE DEF s, m2, s2
<1>6. /\ Good(master') /\ Full(master') /\ master'.dirty = 0
      /\ \A k \in Key : master'.db[k] = None /\ k \notin master'.expires
  BY <1>2, <1>4, CleanKeeps
<1>7. OldTimesGo' /\ exact' \in BOOLEAN
  BY <1>2 DEF OldTimesGo
<1>8. CASE sent
  <2>1. /\ Good(slave') /\ Full(slave') /\ slave'.dirty = 0
        /\ \A k \in Key : slave'.db[k] = None /\ k \notin slave'.expires
    BY <1>2, <1>5, <1>8, CleanKeeps
  <2>2. \A k \in Key : AgreeAt(master', slave', k)
    BY <1>6, <2>1 DEF AgreeAt
  <2> QED BY <1>6, <1>7, <2>1, <2>2 DEF KInv
<1>9. CASE ~sent
  <2>1. Good(slave') /\ slave'.dirty = 0 /\ ~exact'
    BY <1>2, <1>9 DEF KInv
  <2> QED BY <1>6, <1>7, <2>1 DEF KInv
<1> QED BY <1>8, <1>9

-----------------------------------------------------------------------------
(* EXPIRE, and keys found past their time *)

\* r is s after EXPIRE of k.
Expired(r, s, k, past) ==
  /\ Srv(r) /\ r.dirty \in Nat
  /\ \A x \in Key : x # k => r.db[x] = s.db[x] /\ (x \in r.expires <=> x \in s.expires)
  /\ s.db[k] = None => r = s
  /\ s.db[k] # None /\ past => r.db[k] = None /\ k \notin r.expires /\ r.dirty > 0
  /\ s.db[k] # None /\ ~past /\ k \in s.expires => r = s
  /\ s.db[k] # None /\ ~past /\ k \notin s.expires => r.db = s.db /\ k \in r.expires /\ r.dirty > 0

\* EXPIRE and EXPIREAT do that.
LEMMA ExpireIs ==
  ASSUME NEW s, Good(s), NEW k \in Key, NEW past \in BOOLEAN, NEW r, r = expireGenericCommand(s, k, past)
  PROVE  Expired(r, s, k, past)
<1> DEFINE d == deleteKey(s, k)
           e == Dirty(d, 1)
           f == setExpire(s, k)
           g == Dirty(f, 1)
<1>1. r = IF s.db[k] = None THEN s ELSE IF past THEN e ELSE IF k \in s.expires THEN s ELSE g
  BY DEF expireGenericCommand, Missing
<1>2. Srv(s) /\ s.dirty \in Nat
  BY DEF Good, Srv
<1>3. /\ Srv(d) /\ d.expires = s.expires \ {k} /\ d.dirty = s.dirty /\ d.db[k] = None
      /\ \A x \in Key : x # k => d.db[x] = s.db[x]
  BY <1>2, DeleteIs
<1>4. Srv(f) /\ f.expires = s.expires \cup {k} /\ f.dirty = s.dirty /\ f.db = s.db
  BY <1>2, SetExpireIs
<1> HIDE DEF d, f
<1>5. Srv(e) /\ e.expires = d.expires /\ e.dirty = d.dirty + 1 /\ e.db = d.db
  BY <1>3, DirtyIs
<1>6. Srv(g) /\ g.expires = f.expires /\ g.dirty = f.dirty + 1 /\ g.db = f.db
  BY <1>4, DirtyIs
<1> HIDE DEF e, g
<1>7. CASE r = s /\ (s.db[k] = None \/ (~past /\ k \in s.expires))
  <2>1. Expired(s, s, k, past)
    BY <1>2, <1>7 DEF Expired
  <2> QED BY <1>7, <2>1
<1>8. CASE s.db[k] # None /\ past /\ r = e
  <2>1. /\ Srv(e) /\ e.dirty \in Nat /\ e.dirty > 0 /\ e.db[k] = None /\ k \notin e.expires
        /\ \A x \in Key : x # k => e.db[x] = s.db[x] /\ (x \in e.expires <=> x \in s.expires)
    BY <1>2, <1>3, <1>5
  <2>2. Expired(e, s, k, past)
    BY <1>8, <2>1 DEF Expired
  <2> QED BY <1>8, <2>2
<1>9. CASE s.db[k] # None /\ ~past /\ k \notin s.expires /\ r = g
  <2>1. /\ Srv(g) /\ g.dirty \in Nat /\ g.dirty > 0 /\ g.db = s.db /\ k \in g.expires
        /\ \A x \in Key : x # k => g.db[x] = s.db[x] /\ (x \in g.expires <=> x \in s.expires)
    BY <1>2, <1>4, <1>6
  <2>2. Expired(g, s, k, past)
    BY <1>9, <2>1 DEF Expired
  <2> QED BY <1>9, <2>2
<1> QED BY <1>1, <1>7, <1>8, <1>9

\* What is right stays so.
LEMMA ExpiredGood ==
  ASSUME NEW s, Good(s), Full(s), NEW k \in Key, NEW past \in BOOLEAN, NEW r, Expired(r, s, k, past)
  PROVE  Good(r) /\ Full(r)
<1>1. ValueOK(r.db[k]) /\ NotEmpty(r.db[k]) /\ (k \in r.expires => r.db[k] # None)
  <2>1. CASE r = s
    BY <2>1 DEF Good, Full
  <2>2. CASE r.db[k] = None /\ k \notin r.expires
    BY <2>2, NoneValue
  <2>3. CASE r.db = s.db /\ s.db[k] # None
    BY <2>3 DEF Good, Full
  <2> QED BY <2>1, <2>2, <2>3 DEF Expired
<1>2. Wrote(r, s, {k})
  BY <1>1 DEF Wrote, Expired
<1> QED BY <1>2, WroteGood

\* EXPIRE and EXPIREAT keep the invariant.
LEMMA ExpireKeeps ==
  ASSUME KInv, exact, expireCommands
  PROVE  KInv'
<1> PICK k \in Key, past \in BOOLEAN, past2 \in BOOLEAN :
      Call2(expireGenericCommand(master, k, past), LAMBDA s : expireGenericCommand(s, k, past2)) /\ UNCHANGED exact
  BY DEF expireCommands
<1> DEFINE m2 == expireGenericCommand(master, k, past)
           s2 == expireGenericCommand(slave, k, past2)
<1>1. /\ master' = [m2 EXCEPT !.dirty = 0] /\ slave' = IF m2.dirty > 0 THEN [s2 EXCEPT !.dirty = 0] ELSE slave
      /\ outlived' \subseteq Outlived
      /\ exact' \in BOOLEAN
  BY DEF Call2, Propagated, KInv
<1>2. /\ Good(master) /\ Full(master) /\ Good(slave) /\ Full(slave) /\ master.dirty = 0
      /\ \A x \in Key : AgreeAt(master, slave, x)
  BY DEF KInv
<1>3. Expired(m2, master, k, past) /\ Expired(s2, slave, k, past2)
  BY <1>2, ExpireIs
<1> HIDE DEF m2, s2
<1>4. Good(m2) /\ Full(m2) /\ Good(s2) /\ Full(s2)
  BY <1>2, <1>3, ExpiredGood
<1>5. Followed(m2, s2, slave)
  <2> SUFFICES ASSUME NEW x \in Key PROVE AgreeAt(m2, IF m2.dirty > 0 THEN s2 ELSE slave, x)
    BY DEF Followed
  <2>1. CASE ~(m2.dirty > 0)
    <3>1. m2 = master
      BY <1>3, <2>1 DEF Expired
    <3> QED BY <1>2, <2>1, <3>1
  <2>2. CASE m2.dirty > 0 /\ x # k
    <3>1. /\ m2.db[x] = master.db[x] /\ (x \in m2.expires <=> x \in master.expires)
          /\ s2.db[x] = slave.db[x] /\ (x \in s2.expires <=> x \in slave.expires)
      BY <1>3, <2>2 DEF Expired
    <3>2. AgreeAt(master, slave, x)
      BY <1>2
    <3> QED BY <2>2, <3>1, <3>2 DEF AgreeAt
  <2>3. CASE m2.dirty > 0 /\ x = k
    <3>1. master.db[k] # None /\ AgreeAt(master, slave, k)
      BY <1>2, <1>3, <2>3 DEF Expired
    <3>2. CASE past
      <4>1. m2.db[k] = None /\ k \notin m2.expires
        BY <1>3, <3>1, <3>2 DEF Expired
      <4>2. s2.db[k] = None \/ k \in s2.expires
        BY <1>3 DEF Expired
      <4>3. s2.db[k] = None => k \notin s2.expires
        BY <1>4 DEF Good
      <4> QED BY <2>3, <4>1, <4>2, <4>3 DEF AgreeAt
    <3>3. CASE ~past
      <4>1. m2.db = master.db /\ k \in m2.expires /\ k \notin master.expires
        BY <1>2, <1>3, <2>3, <3>1, <3>3 DEF Expired
      <4>2. CASE s2.db[k] = None
        BY <2>3, <4>1, <4>2 DEF AgreeAt
      <4>3. CASE s2.db[k] # None
        <5>1. Data(master.db[k]) = Data(slave.db[k]) /\ k \notin slave.expires
          BY <3>1, <4>1 DEF AgreeAt
        <5>2. slave.db[k] # None
          BY <3>1, <5>1, DataAlike
        <5>3. s2.db = slave.db /\ k \in s2.expires
          BY <1>3, <4>3, <5>1, <5>2 DEF Expired
        <5> QED BY <2>3, <4>1, <5>1, <5>3 DEF AgreeAt
      <4> QED BY <4>2, <4>3
    <3> QED BY <3>2, <3>3
  <2> QED BY <2>1, <2>2, <2>3
<1>6. \A x \in outlived' : Stays(master, m2, x)
  BY <1>2, <1>3 DEF Stays, Expired, Good, Srv
<1> QED BY <1>1, <1>2, <1>4, <1>5, <1>6, Called

\* A server without a key that it found past its time.
LEMMA LapseIs ==
  ASSUME NEW s, Good(s), NEW k \in s.expires, NEW r, r = lookupKeyRead(s, k, TRUE)
  PROVE  /\ Good(r) /\ (Full(s) => Full(r)) /\ r.dirty = s.dirty /\ r.db[k] = None /\ k \notin r.expires
         /\ \A x \in Key : x # k => r.db[x] = s.db[x] /\ (x \in r.expires <=> x \in s.expires)
<1> DEFINE d == deleteKey(s, k)
<1>1. r = d /\ k \in Key /\ Srv(s)
  BY DEF lookupKeyRead, expireIfNeeded, Good, Srv
<1>2. /\ Srv(d) /\ d.expires = s.expires \ {k} /\ d.dirty = s.dirty /\ d.db[k] = None
      /\ \A x \in Key : x # k => d.db[x] = s.db[x]
  BY <1>1, DeleteIs
<1> HIDE DEF d
<1>3. Wrote(r, s, {k})
  BY <1>1, <1>2, NoneValue DEF Wrote
<1> QED BY <1>1, <1>2, <1>3, WroteGood

\* A server that deletes a key past its time keeps the invariant.
LEMMA LapseKeeps ==
  ASSUME KInv, exact, expire
  PROVE  KInv'
<1>1. /\ Good(master) /\ Full(master) /\ Good(slave) /\ Full(slave) /\ master.dirty = 0 /\ slave.dirty = 0
      /\ \A x \in Key : AgreeAt(master, slave, x)
  BY DEF KInv
<1>2. PICK k \in Key : \/ k \in master.expires /\ master' = lookupKeyRead(master, k, TRUE) /\ UNCHANGED slave
                       \/ k \in slave.expires /\ slave' = lookupKeyRead(slave, k, TRUE) /\ UNCHANGED master
  BY DEF expire
<1>3. exact' = exact /\ exact' \in BOOLEAN /\ OldTimesGo'
  BY DEF expire, KInv, OldTimesGo
<1>5. CASE k \in master.expires /\ master' = lookupKeyRead(master, k, TRUE) /\ UNCHANGED slave
  <2> DEFINE m2 == lookupKeyRead(master, k, TRUE)
  <2>1. /\ Good(m2) /\ Full(m2) /\ m2.dirty = 0 /\ m2.db[k] = None /\ k \notin m2.expires
        /\ \A x \in Key : x # k => m2.db[x] = master.db[x] /\ (x \in m2.expires <=> x \in master.expires)
    BY <1>1, <1>5, LapseIs
  <2>2. master' = m2 /\ slave' = slave
    BY <1>5
  <2> HIDE DEF m2
  <2>3. \A x \in Key : AgreeAt(m2, slave, x)
    <3> TAKE x \in Key
    <3>1. AgreeAt(master, slave, x)
      BY <1>1
    <3>2. CASE x = k
      <4>1. slave.db[k] = None => k \notin slave.expires
        BY <1>1 DEF Good
      <4>2. master.db[k] # None
        BY <1>1, <1>5 DEF Good
      <4>3. k \in slave.expires \/ slave.db[k] = None
        BY <1>5, <3>1, <3>2, <4>2 DEF AgreeAt
      <4> QED BY <2>1, <3>2, <4>1, <4>3 DEF AgreeAt
    <3>3. CASE x # k
      BY <2>1, <3>1, <3>3 DEF AgreeAt
    <3> QED BY <3>2, <3>3
  <2> QED BY <1>1, <1>3, <2>1, <2>2, <2>3 DEF KInv
<1>6. CASE k \in slave.expires /\ slave' = lookupKeyRead(slave, k, TRUE) /\ UNCHANGED master
  <2> DEFINE s2 == lookupKeyRead(slave, k, TRUE)
  <2>1. /\ Good(s2) /\ Full(s2) /\ s2.dirty = 0 /\ s2.db[k] = None /\ k \notin s2.expires
        /\ \A x \in Key : x # k => s2.db[x] = slave.db[x] /\ (x \in s2.expires <=> x \in slave.expires)
    BY <1>1, <1>6, LapseIs
  <2>2. slave' = s2 /\ master' = master
    BY <1>6
  <2> HIDE DEF s2
  <2>3. \A x \in Key : AgreeAt(master, s2, x)
    <3> TAKE x \in Key
    <3>1. AgreeAt(master, slave, x)
      BY <1>1
    <3>2. CASE x = k
      <4>1. master.db[k] = None => k \notin master.expires
        BY <1>1 DEF Good
      <4>2. slave.db[k] # None
        BY <1>1, <1>6 DEF Good
      <4>3. k \in master.expires \/ master.db[k] = None
        BY <1>6, <3>1, <3>2, <4>2 DEF AgreeAt
      <4> QED BY <2>1, <3>2, <4>1, <4>3 DEF AgreeAt
    <3>3. CASE x # k
      BY <2>1, <3>1, <3>3 DEF AgreeAt
    <3> QED BY <3>2, <3>3
  <2> QED BY <1>1, <1>3, <2>1, <2>2, <2>3 DEF KInv
<1> QED BY <1>2, <1>5, <1>6

-----------------------------------------------------------------------------
(* GETSET and SORT, which look a key up as if they only read it *)

\* A key is past its time or not.
LEMMA LateIs ==
  ASSUME NEW s, NEW k, NEW late \in Late(s, k)
  PROVE  late \in BOOLEAN
<1>1. late = FALSE \/ late = (k \in s.expires)
  BY Zenon DEF Late
<1>2. CASE late = FALSE
  BY <1>2
<1>3. CASE late = (k \in s.expires)
  <2>1. (k \in s.expires) \in BOOLEAN
    OBVIOUS
  <2> QED BY ONLY <1>3, <2>1, Zenon
<1> QED BY <1>1, <1>2, <1>3

\* A key is looked up for reading; nothing changes when it is not volatile.
LEMMA ReadIs ==
  ASSUME NEW s, Good(s), NEW k \in Key, NEW late \in BOOLEAN, NEW r, r = lookupKeyRead(s, k, late)
  PROVE  /\ Good(r) /\ (Full(s) => Full(r)) /\ (k \notin s.expires => r = s)
         /\ \A x \in Key : Stays(s, r, x)
<1>1. CASE late /\ k \in s.expires
  <2>1. r = lookupKeyRead(s, k, TRUE)
    BY <1>1 DEF lookupKeyRead, expireIfNeeded
  <2>2. /\ Good(r) /\ (Full(s) => Full(r)) /\ k \notin r.expires
        /\ \A x \in Key : x # k => r.db[x] = s.db[x]
    BY <1>1, <2>1, LapseIs
  <2>3. \A x \in Key : Stays(s, r, x)
    BY ONLY <2>2 DEF Stays
  <2> QED BY ONLY <1>1, <2>2, <2>3
<1>2. CASE ~(late /\ k \in s.expires)
  <2>1. r = s
    BY <1>2 DEF lookupKeyRead, expireIfNeeded
  <2> QED BY <2>1 DEF Stays
<1> QED BY <1>1, <1>2

\* GETSET: what has been read, and the rest.
GetsetV(v, w) == IF v # None /\ v[1] # "string" THEN v ELSE String(w)
GetsetN(v) == IF v # None /\ v[1] # "string" THEN 0 ELSE 1

\* GETSET of a key that is not volatile is a command that writes one key.
LEMMA GetsetIs ==
  ASSUME NEW s0, Good(s0), NEW k \in Key, NEW w, NEW late \in BOOLEAN, NEW r, r = getsetCommand(s0, k, w, late)
  PROVE  /\ Good(r) /\ \A x \in Key : Stays(s0, r, x)
         /\ k \notin s0.expires => /\ One(r, s0, k, GetsetV(s0.db[k], w), GetsetN(s0.db[k]))
                                   /\ Plain(s0.db[k], GetsetV(s0.db[k], w), GetsetN(s0.db[k]))
<1> DEFINE s == lookupKeyRead(s0, k, late)
           p == Put(s, k, String(w))
           d == Dirty(p, 1)
           t == removeExpire(d, k)
           v == s.db[k]
<1>1. r = IF v # None /\ v[1] # "string" THEN s ELSE t
  BY DEF getsetCommand, Missing, Is, Type
<1>2. Good(s) /\ (k \notin s0.expires => s = s0) /\ \A x \in Key : Stays(s0, s, x)
  BY ReadIs
<1>3. Srv(s) /\ s.dirty \in Nat /\ s.expires \subseteq Key /\ ValueOK(v)
  BY <1>2 DEF Good, Srv
<1> HIDE DEF s
<1>4. /\ Srv(p) /\ p.expires = s.expires /\ p.dirty = s.dirty /\ p.db[k] = String(w)
      /\ \A x \in Key : x # k => p.db[x] = s.db[x]
  BY <1>3, PutIs
<1> HIDE DEF p
<1>5. Srv(d) /\ d.expires = p.expires /\ d.dirty = p.dirty + 1 /\ d.db = p.db
  BY <1>4, DirtyIs
<1> HIDE DEF d
<1>6. Srv(t) /\ t.expires = d.expires \ {k} /\ t.dirty = d.dirty /\ t.db = d.db
  BY <1>5, RemoveExpireIs
<1> HIDE DEF t
<1>7. /\ t.db[k] = String(w) /\ t.dirty = s.dirty + 1 /\ t.expires = s.expires \ {k}
      /\ \A x \in Key : x # k => t.db[x] = s.db[x]
  BY <1>4, <1>5, <1>6
<1>8. Good(t)
  <2>1. Wrote(t, s, {k})
    BY <1>6, <1>7, StringValue DEF Wrote
  <2> QED BY <1>2, <2>1, WroteGood
<1>9. ASSUME k \notin s0.expires
      PROVE  One(r, s0, k, GetsetV(v, w), GetsetN(v)) /\ Plain(v, GetsetV(v, w), GetsetN(v)) /\ v = s0.db[k]
  <2>1. s = s0 /\ k \notin s.expires
    BY <1>2, <1>9
  <2>2. CASE v # None /\ v[1] # "string"
    <3>1. r = s /\ GetsetV(v, w) = v /\ GetsetN(v) = 0
      BY <1>1, <2>2 DEF GetsetV, GetsetN
    <3>2. One(s, s, k, v, 0)
      BY <1>3, <2>1 DEF One
    <3>3. Plain(v, v, 0)
      BY <1>3, SameIsPlain
    <3> QED BY <2>1, <3>1, <3>2, <3>3
  <2>3. CASE ~(v # None /\ v[1] # "string")
    <3>1. r = t /\ GetsetV(v, w) = String(w) /\ GetsetN(v) = 1
      BY <1>1, <2>3 DEF GetsetV, GetsetN
    <3>2. One(t, s, k, String(w), 1)
      BY <1>3, <1>6, <1>7, <2>1 DEF One
    <3>3. Plain(v, String(w), 1)
      BY <2>3, StringValue DEF Plain, Change, None
    <3> QED BY <2>1, <3>1, <3>2, <3>3
  <2> QED BY <2>2, <2>3
<1>10. Good(r)
  BY <1>1, <1>2, <1>8
<1>12. \A x \in Key : Stays(s0, r, x)
  <2>1. \A x \in Key : Stays(s0, t, x)
    BY <1>2, <1>7 DEF Stays
  <2> QED BY <1>1, <1>2, <2>1
<1>11. k \notin s0.expires => /\ One(r, s0, k, GetsetV(s0.db[k], w), GetsetN(s0.db[k]))
                              /\ Plain(s0.db[k], GetsetV(s0.db[k], w), GetsetN(s0.db[k]))
  <2> HIDE DEF v
  <2> QED BY <1>9
<1> QED BY <1>10, <1>11, <1>12

\* GETSET keeps the invariant.
LEMMA GetsetKeeps ==
  ASSUME KInv, exact, getset
  PROVE  KInv'
<1> PICK k \in Key, w \in Elem : \E late \in Late(master, k), late2 \in Late(slave, k) :
      /\ Call2(getsetCommand(master, k, w, late), LAMBDA s : getsetCommand(s, k, w, late2))
      /\ exact' = (exact /\ ~Volatile(k))
  BY DEF getset
<1> PICK late \in Late(master, k), late2 \in Late(slave, k) :
      /\ Call2(getsetCommand(master, k, w, late), LAMBDA s : getsetCommand(s, k, w, late2))
      /\ exact' = (exact /\ ~Volatile(k))
  OBVIOUS
<1> DEFINE m2 == getsetCommand(master, k, w, late)
           s2 == getsetCommand(slave, k, w, late2)
<1>1. /\ master' = [m2 EXCEPT !.dirty = 0] /\ slave' = IF m2.dirty > 0 THEN [s2 EXCEPT !.dirty = 0] ELSE slave
      /\ outlived' \subseteq Outlived
      /\ exact' \in BOOLEAN
  BY DEF Call2, Propagated
<1>2. late \in BOOLEAN /\ late2 \in BOOLEAN
  BY LateIs
<1>3. Good(master) /\ Good(slave)
  BY DEF KInv
<1>4. /\ Good(m2) /\ \A x \in Key : Stays(master, m2, x)
      /\ k \notin master.expires => /\ One(m2, master, k, GetsetV(master.db[k], w), GetsetN(master.db[k]))
                                    /\ Plain(master.db[k], GetsetV(master.db[k], w), GetsetN(master.db[k]))
  BY <1>2, <1>3, GetsetIs
<1>5. /\ Good(s2)
      /\ k \notin slave.expires => /\ One(s2, slave, k, GetsetV(slave.db[k], w), GetsetN(slave.db[k]))
                                   /\ Plain(slave.db[k], GetsetV(slave.db[k], w), GetsetN(slave.db[k]))
  BY <1>2, <1>3, GetsetIs
<1> HIDE DEF m2, s2
<1>6. CASE ~Volatile(k)
  <2>1. k \notin master.expires /\ k \notin slave.expires
    BY <1>6 DEF Volatile
  <2>2. Seen(master, k) = master.db[k] /\ Seen(slave, k) = slave.db[k]
    BY <2>1 DEF Seen
  <2> QED BY <1>1, <1>4, <1>5, <2>1, <2>2, PlainKeeps
<1>7. CASE Volatile(k)
  <2>1. ~exact'
    BY <1>7
  <2>2. \A x \in outlived' : x \in Key
    BY <1>1, <1>3 DEF Outlived, Good, Srv
  <2> QED BY <1>1, <1>4, <1>5, <2>1, <2>2, Called
<1> QED BY <1>6, <1>7

-----------------------------------------------------------------------------
(* SORT ... STORE *)

\* A vector of the elements of a list, a set or a sorted set.
LEMMA VectorIs ==
  ASSUME NEW s, Good(s), NEW k \in Key, Type(s, k) \in {"list", "set", "zset"}
  PROVE  ListOK(SortVector(s, k))
<1> DEFINE v == s.db[k]
           S == IF v[1] = "set" THEN v[2] ELSE {p[1] : p \in v[2]}
<1>1. ValueOK(v) /\ v[1] \in {"list", "set", "zset"}
  BY DEF Good, Type
<1>2. SortVector(s, k) = IF v[1] = "list" THEN v[2] ELSE SetToSeq(S)
  BY DEF SortVector, Is, Type, Val
<1>3. CASE v[1] = "list"
  BY <1>1, <1>2, <1>3, Kinds
<1>4. CASE v[1] # "list"
  <2>1. IsFiniteSet(v[2])
    BY <1>1, <1>4, Kinds
  <2> DEFINE T == {p[1] : p \in v[2]}
             f == [p \in v[2] |-> p[1]]
  <2>2. IsFiniteSet(T)
    <3>1. f \in Surjection(v[2], T)
      BY DEF Surjection
    <3> HIDE DEF v, f, T
    <3> QED BY <2>1, <3>1, FS_Surjection
  <2>3. IsFiniteSet(S)
    BY <2>1, <2>2
  <2> HIDE DEF S
  <2>4. Cardinality(S) \in Nat /\ ExistsBijection(1 .. Cardinality(S), S)
    BY <2>3, FS_CardinalityType
  <2>5. \E g \in [1 .. Cardinality(S) -> S] : IsInjective(g)
    BY <2>4 DEF ExistsBijection, Bijection, Injection
  <2>6. SetToSeq(S) \in [1 .. Cardinality(S) -> S]
    <3> DEFINE G == [1 .. Cardinality(S) -> S]
    <3>1. SetToSeq(S) = CHOOSE g \in G : IsInjective(g)
      BY DEF SetToSeq
    <3>2. \E g \in G : IsInjective(g)
      BY <2>5
    <3> HIDE DEF G
    <3>3. SetToSeq(S) \in G
      BY <3>1, <3>2
    <3> QED BY <3>3 DEF G
  <2>7. SetToSeq(S) \in Seq(S)
    BY <2>4, <2>6
  <2> QED BY <1>2, <1>4, <2>7, OwnSeq
<1> QED BY <1>3, <1>4

\* It is sorted, and cut where LIMIT says.
SortedPart(l, start) == SortRange(SortedVector(l), start, -1)

\* It is a list.
LEMMA SortedIs ==
  ASSUME NEW l, ListOK(l), NEW start \in Nat
  PROVE  ListOK(SortedPart(l, start)) /\ Len(SortedPart(l, start)) \in Nat
<1> DEFINE w == SortedVector(l)
           n == Len(w)
<1>1. Len(l) \in Nat
  BY OwnSeq DEF ListOK
<1>2. w = [i \in 1 .. Len(l) |-> w[i]]
  BY DEF SortedVector
<1> HIDE DEF w
<1>3. ListOK(w) /\ n = Len(l)
  BY <1>1, <1>2, FunctionSeq
<1>4. SortedPart(l, start) = IF Max({start, 0}) >= n THEN << >> ELSE SubSeq(w, Max({start, 0}) + 1, Min({n - 1, n - 1}) + 1)
  BY DEF SortedPart, SortRange, w
<1> HIDE DEF n
<1>5. n \in Nat /\ n = Len(w)
  BY <1>1, <1>3 DEF n
<1>6. Max({start, 0}) = start
  BY MaxTwo
<1>7. Min({n - 1, n - 1}) = n - 1
  <2>1. n - 1 \in Int
    BY <1>5
  <2> QED BY <2>1, MinTwo
<1>8. SortedPart(l, start) = IF start >= n THEN << >> ELSE SubSeq(w, start + 1, n)
  BY <1>4, <1>5, <1>6, <1>7
<1>9. CASE start >= n
  <2>1. SortedPart(l, start) = << >>
    BY <1>8, <1>9
  <2>2. ListOK(<< >>) /\ Len(<< >>) = 0
    BY DEF ListOK
  <2> QED BY <2>1, <2>2
<1>10. CASE start < n
  <2>1. SortedPart(l, start) = SubSeq(w, start + 1, n)
    BY <1>5, <1>8, <1>10
  <2> DEFINE a == start + 1
  <2>2. a \in Int /\ a >= 1 /\ n \in Int /\ n <= Len(w)
    BY <1>5
  <2> HIDE DEF a
  <2>3. ListOK(SubSeq(w, a, n)) /\ Len(SubSeq(w, a, n)) \in Nat
    BY <1>3, <2>2, ListPart
  <2> QED BY <2>1, <2>3 DEF a
<1> QED BY <1>5, <1>9, <1>10

\* r is s after SORT of what is at k into dst.
SortTypes == {"list", "set", "zset"}
Result(s, k, start) == SortedPart(SortVector(s, k), start)
SortDone(r, s, k, dst, start) ==
  /\ s.db[k][1] \notin SortTypes => r = s
  /\ s.db[k][1] \in SortTypes =>
       /\ r.db[dst] = List(Result(s, k, start)) /\ r.dirty \in Nat /\ r.dirty > 0 /\ r.expires = s.expires
       /\ Result(s, k, start) # << >> => Wrote(r, s, {dst})

\* SORT ... STORE does that.
LEMMA SortIs ==
  ASSUME NEW s0, Good(s0), NEW k \in Key, NEW dst \in Key, NEW start \in Nat, NEW late \in BOOLEAN,
         NEW r, r = sortCommand(s0, k, start, -1, dst, late)
  PROVE  /\ Good(r) /\ (k \notin s0.expires => SortDone(r, s0, k, dst, start))
         /\ \A x \in Key : Stays(s0, r, x) \/ r.db[x][1] = "list"
<1> DEFINE s == lookupKeyRead(s0, k, late)
           result == Result(s, k, start)
           v == List(result)
           n == 1 + Len(result)
           p == Put(s, dst, v)
           t == Dirty(p, n)
<1>1. r = IF Type(s, k) \notin {"list", "set", "zset"} THEN s ELSE t
  BY DEF sortCommand, Result, SortedPart
<1>2. Good(s) /\ (k \notin s0.expires => s = s0) /\ \A x \in Key : Stays(s0, s, x)
  BY ReadIs
<1> HIDE DEF s
<1>3. CASE Type(s, k) \notin {"list", "set", "zset"}
  <2>1. r = s
    BY <1>1, <1>3
  <2>2. SortDone(s, s, k, dst, start)
    BY <1>3 DEF SortDone, SortTypes, Type
  <2> QED BY <1>2, <2>1, <2>2
<1>4. CASE Type(s, k) \in {"list", "set", "zset"}
  <2>1. ListOK(result) /\ Len(result) \in Nat
    <3>1. ListOK(SortVector(s, k))
      BY <1>2, <1>4, VectorIs
    <3> QED BY <3>1, SortedIs DEF Result
  <2> HIDE DEF result
  <2>2. ValueOK(v) /\ v # None /\ (result # << >> => NotEmpty(v))
    BY <2>1, ListValue DEF NotEmpty, List, None
  <2> HIDE DEF v
  <2>3. Srv(s) /\ s.dirty \in Nat /\ n \in Nat \ {0}
    BY <1>2, <2>1 DEF Good, Srv
  <2> HIDE DEF n
  <2>4. /\ Srv(p) /\ p.expires = s.expires /\ p.dirty = s.dirty /\ p.db[dst] = v
        /\ \A x \in Key : x # dst => p.db[x] = s.db[x]
    BY <2>3, PutIs
  <2> HIDE DEF p
  <2>5. Srv(t) /\ t.expires = p.expires /\ t.dirty = p.dirty + n /\ t.db = p.db
    BY <2>3, <2>4, DirtyIs
  <2> HIDE DEF t
  <2>6. /\ Srv(t) /\ t.expires = s.expires /\ t.db[dst] = v /\ t.dirty \in Nat /\ t.dirty > 0
        /\ \A x \in Key : x # dst => t.db[x] = s.db[x]
    BY <2>3, <2>4, <2>5
  <2>7. Good(t)
    <3>1. \A x \in Key : ValueOK(t.db[x])
      BY <1>2, <2>2, <2>6 DEF Good
    <3>2. \A x \in t.expires : t.db[x] # None
      BY <1>2, <2>2, <2>6 DEF Good, Srv
    <3> QED BY <2>6, <3>1, <3>2 DEF Good
  <2>8. result # << >> => Wrote(t, s, {dst})
    BY <2>2, <2>6 DEF Wrote
  <2>9. SortDone(t, s, k, dst, start)
    BY <1>4, <2>6, <2>8 DEF SortDone, SortTypes, Type, v, result
  <2>10. \A x \in Key : Stays(s0, t, x) \/ t.db[x][1] = "list"
    BY <1>2, <2>6 DEF Stays, List, v
  <2> QED BY <1>1, <1>2, <1>4, <2>7, <2>9, <2>10
<1> QED BY <1>3, <1>4

\* SORT ... STORE keeps the invariant.
LEMMA SortKeeps ==
  ASSUME KInv, exact, sort
  PROVE  KInv'
<1> PICK k \in Key, dst \in Key, start \in {0, 2} : \E late \in Late(master, k), late2 \in Late(slave, k) :
      /\ Call2(sortCommand(master, k, start, -1, dst, late), LAMBDA s : sortCommand(s, k, start, -1, dst, late2))
      /\ exact' = (exact /\ ~Volatile(k) /\ ~Volatile(dst) /\ ~Tied(master, k)
                         /\ (Is(master', dst, "list") => Val(master', dst) # << >>))
  BY DEF sort
<1> PICK late \in Late(master, k), late2 \in Late(slave, k) :
      /\ Call2(sortCommand(master, k, start, -1, dst, late), LAMBDA s : sortCommand(s, k, start, -1, dst, late2))
      /\ exact' = (exact /\ ~Volatile(k) /\ ~Volatile(dst) /\ ~Tied(master, k)
                         /\ (Is(master', dst, "list") => Val(master', dst) # << >>))
  OBVIOUS
<1> DEFINE m2 == sortCommand(master, k, start, -1, dst, late)
           s2 == sortCommand(slave, k, start, -1, dst, late2)
<1>1. /\ master' = [m2 EXCEPT !.dirty = 0] /\ slave' = IF m2.dirty > 0 THEN [s2 EXCEPT !.dirty = 0] ELSE slave
      /\ outlived' \subseteq Outlived
      /\ exact' \in BOOLEAN
  BY DEF Call2, Propagated
<1>2. late \in BOOLEAN /\ late2 \in BOOLEAN /\ start \in Nat
  BY LateIs
<1>3. /\ Good(master) /\ Good(slave) /\ Full(master) /\ Full(slave) /\ master.dirty = 0
      /\ \A x \in Key : AgreeAt(master, slave, x)
  BY DEF KInv
<1>4. /\ Good(m2) /\ (k \notin master.expires => SortDone(m2, master, k, dst, start))
      /\ \A x \in Key : Stays(master, m2, x) \/ m2.db[x][1] = "list"
  BY <1>2, <1>3, SortIs
<1>5. Good(s2) /\ (k \notin slave.expires => SortDone(s2, slave, k, dst, start))
  BY <1>2, <1>3, SortIs
<1> HIDE DEF m2, s2
<1>6. CASE ~exact'
  <2>1. \A x \in outlived' : x \in Key
    BY <1>1, <1>3 DEF Outlived, Good, Srv
  <2> QED BY <1>1, <1>4, <1>5, <1>6, <2>1, Called
<1>7. CASE exact'
  <2>1. /\ k \notin master.expires /\ k \notin slave.expires /\ dst \notin master.expires /\ dst \notin slave.expires
        /\ (Is(master', dst, "list") => Val(master', dst) # << >>)
    BY <1>7 DEF Volatile
  <2>2. SortDone(m2, master, k, dst, start) /\ SortDone(s2, slave, k, dst, start)
    BY <1>4, <1>5, <2>1
  <2>3. Data(master.db[k]) = Data(slave.db[k])
    BY <1>3, <2>1 DEF AgreeAt
  <2>4. /\ master.db[k][1] \in SortTypes <=> slave.db[k][1] \in SortTypes
        /\ master.db[k][1] \in SortTypes => master.db[k] = slave.db[k]
    BY <2>3 DEF Data, SortTypes
  <2> DEFINE K == {}
             D == {dst}
  <2>5. K \subseteq Key /\ Looked(master, master, K) /\ Looked(slave, slave, K)
    BY <1>3, LookedNone DEF Good
  <2>6. dst \in D
    OBVIOUS
  <2> HIDE DEF K
  <2>7. CASE master.db[k][1] \notin SortTypes
    <3>1. m2 = master /\ s2 = slave
      BY <2>2, <2>4, <2>7 DEF SortDone
    <3> QED BY <1>1, <2>5, <3>1, Stops
  <2>8. CASE master.db[k][1] \in SortTypes
    <3>1. Result(master, k, start) = Result(slave, k, start)
      BY <2>4, <2>8 DEF Result, SortVector, Is, Type, Val
    <3>2. /\ m2.db[dst] = List(Result(master, k, start)) /\ m2.dirty \in Nat /\ m2.dirty > 0 /\ m2.expires = master.expires
          /\ s2.db[dst] = List(Result(master, k, start)) /\ s2.expires = slave.expires
      BY <2>2, <2>4, <2>8, <3>1 DEF SortDone
    <3>3. Result(master, k, start) # << >>
      <4>1. master'.db = m2.db
        BY <1>1, <1>4, CleanKeeps
      <4>2. Is(master', dst, "list") /\ Val(master', dst) = Result(master, k, start)
        BY <3>2, <4>1 DEF Is, Type, Val, List
      <4> QED BY <2>1, <4>2
    <3>4. Wrote(m2, master, D) /\ Wrote(s2, slave, D)
      BY <2>2, <2>4, <2>8, <3>1, <3>3 DEF SortDone
    <3>5. \A x \in Key : x \in D => Data(m2.db[x]) = Data(s2.db[x]) /\ (x \in m2.expires <=> x \in s2.expires)
      BY <2>1, <3>2
    <3>6. \A x \in outlived' : x \in D => x \notin m2.expires
      BY <2>1, <3>2
    <3> HIDE DEF D
    <3> QED BY <1>1, <2>5, <3>2, <3>4, <3>5, <3>6, Writes
  <2> QED BY <2>7, <2>8
<1> QED BY <1>6, <1>7

-----------------------------------------------------------------------------
(* The theorems *)

\* The two empty servers satisfy the invariant.
LEMMA KInvInit ==
  ASSUME KInit
  PROVE  KInv
<1>1. EmptyServer.dirty = 0
  BY DEF EmptyServer
<1>2. EmptyServer = [EmptyServer EXCEPT !.dirty = EmptyServer.dirty]
  BY DEF EmptyServer
<1>3. Good(EmptyServer) /\ Full(EmptyServer) /\ \A k \in Key : EmptyServer.db[k] = None /\ k \notin EmptyServer.expires
  BY <1>1, <1>2, EmptyIs
<1>4. master = EmptyServer /\ slave = EmptyServer /\ exact = TRUE /\ OldTimesGo
  BY DEF KInit, OldTimesGo
<1>5. \A k \in Key : AgreeAt(master, slave, k)
  BY <1>3, <1>4 DEF AgreeAt
<1> QED BY <1>1, <1>3, <1>4, <1>5 DEF KInv

\* Every command keeps the invariant.
LEMMA KInvNext ==
  ASSUME KInv, [KNext]_kvars
  PROVE  KInv'
<1>1. CASE flushall
  BY <1>1, FlushallKeeps
<1>2. CASE exact /\ (setCommands \/ getset \/ msetCommands \/ incrCommands \/ append)
  BY <1>2, SetKeeps, GetsetKeeps, MsetKeeps, IncrKeeps, AppendKeeps
<1>3. CASE exact /\ (del \/ renameCommands \/ move \/ flushdb \/ expireCommands \/ expire)
  BY <1>3, DelKeeps, RenameKeeps, MoveKeeps, FlushdbKeeps, ExpireKeeps, LapseKeeps
<1>4. CASE exact /\ (pushCommands \/ popCommands \/ lset \/ ltrim \/ lrem \/ rpoplpush)
  BY <1>4, PushKeeps, PopKeeps, LsetKeeps, LtrimKeeps, LremKeeps, RpoplpushKeeps
<1>5. CASE exact /\ (sadd \/ srem \/ smove \/ spop \/ storeCommands)
  BY <1>5, SaddKeeps, SremKeeps, SmoveKeeps, SpopKeeps, StoreKeeps
<1>6. CASE exact /\ (zadd \/ zremCommands \/ hashCommands \/ sort)
  BY <1>6, ZaddKeeps, ZremKeeps, HashKeeps, SortKeeps
<1>7. CASE UNCHANGED kvars
  <2>1. master' = master /\ slave' = slave /\ exact' = exact /\ outlived' = outlived
    BY <1>7 DEF kvars
  <2> QED BY <2>1 DEF KInv, OldTimesGo, Is, Type
<1> QED BY <1>1, <1>2, <1>3, <1>4, <1>5, <1>6, <1>7 DEF KNext

\* The invariant holds after any commands: each server is well formed, and the two agree at
\* every key unless one of them has found it past its time.
THEOREM KAlways == KSpec => []KInv
<1>1. KInit => KInv
  BY KInvInit
<1>2. KInv /\ [KNext]_kvars => KInv'
  BY KInvNext
<1> QED BY <1>1, <1>2, PTL DEF KSpec

\* The invariant gives SameDataset.
LEMMA DatasetSame ==
  ASSUME KInv
  PROVE  SameDataset
BY DEF KInv, SameDataset, Agree, AgreeAt, Missing

\* No aggregate is empty, and no zipmap too large.
LEMMA ValueSound ==
  ASSUME NEW v, ValueOK(v)
  PROVE  /\ v # None /\ (NotEmpty(v) \/ v[1] # "list") /\ v[1] # "string" => Size(v) > 0
         /\ v[1] = "hash" /\ v[2].enc = "zipmap" => Cardinality(v[2].map) <= hash_max_zipmap_entries /\ ShortMap(v[2].map)
<1>1. ASSUME NEW S, IsFiniteSet(S), S # {} PROVE Cardinality(S) > 0
  <2>1. Cardinality(S) \in Nat /\ (Cardinality(S) = 0 <=> S = {})
    BY <1>1, FS_CardinalityType, FS_EmptySet
  <2> QED BY <1>1, <2>1
<1>2. v # None => v[1] \in {"string", "list", "set", "zset", "hash"}
  BY Kinds
<1>3. ASSUME v[1] = "list", NotEmpty(v) PROVE Size(v) > 0
  <2>1. ListOK(v[2]) /\ v[2] # << >>
    BY <1>3, Kinds DEF NotEmpty
  <2>2. Len(v[2]) \in Nat \ {0}
    BY <2>1, ListShrinks
  <2> QED BY <1>3, <2>2 DEF Size
<1>4. ASSUME v[1] \in {"set", "zset"} PROVE Size(v) > 0
  <2>1. IsFiniteSet(v[2]) /\ v[2] # {}
    BY <1>4, Kinds
  <2>2. Cardinality(v[2]) > 0
    BY <1>1, <2>1
  <2> QED BY <1>4, <2>2 DEF Size
<1>5. ASSUME v[1] = "hash"
      PROVE  Size(v) > 0 /\ (v[2].enc = "zipmap" => Cardinality(v[2].map) <= hash_max_zipmap_entries /\ ShortMap(v[2].map))
  <2>1. /\ IsFiniteSet(v[2].map) /\ v[2].map # {}
        /\ v[2].enc = "zipmap" => Cardinality(v[2].map) <= hash_max_zipmap_entries /\ ShortMap(v[2].map)
    BY <1>5 DEF ValueOK, None, List, Set, ZSet
  <2>2. Cardinality(v[2].map) > 0
    BY <1>1, <2>1
  <2>3. Size(v) = Cardinality(v[2].map)
    BY <1>5 DEF Size
  <2> QED BY <2>1, <2>2, <2>3
<1> QED BY <1>2, <1>3, <1>4, <1>5

\* LTRIM and LRANGE.
LEMMA TrimSound ==
  ASSUME NEW s0, Good(s0), NEW k \in Key, NEW start \in Int, NEW end \in Int, Is(s0, k, "list"),
         NEW s, s = [s0 EXCEPT !.expires = {}]
  PROVE  LET r == lrangeCommand(Val(s0, k), start, end)
         IN  ltrimCommand(s, k, start, end).db[k] = IF r = << >> THEN None ELSE List(r)
<1> DEFINE v == s0.db[k]
           l == v[2]
<1>1. s = [db |-> s0.db, expires |-> {}, dirty |-> s0.dirty] /\ Srv(s0)
  BY DEF Good, Srv
<1>2. s.db = s0.db /\ s.expires = {} /\ s.dirty = s0.dirty
  BY <1>1
<1>3. Good(s)
  <2>1. Srv(s)
    BY <1>1, <1>2 DEF Srv
  <2> QED BY <1>2, <2>1 DEF Good
<1>4. Seen(s, k) = v
  BY <1>2 DEF Seen
<1>5. v[1] = "list" /\ ListOK(l)
  <2>1. ValueOK(v) /\ v[1] = "list"
    BY DEF Good, Is, Type
  <2> QED BY <2>1, Kinds
<1> HIDE DEF v
<1>6. ltrimCommand(s, k, start, end).db[k] = LtrimV(v, start, end)
  <2>1. One(ltrimCommand(s, k, start, end), s, k, LtrimV(v, start, end), LtrimN(v))
    BY <1>3, <1>4, LtrimOne
  <2> QED BY <2>1 DEF One
<1>7. ListOK(LtrimL(l, start, end)) /\ LtrimL(l, start, end) = lrangeCommand(l, start, end)
  BY <1>5, LtrimIs
<1>8. LtrimV(v, start, end) = Left(List(lrangeCommand(l, start, end)))
  BY <1>5, <1>7 DEF LtrimV
<1>9. Left(List(lrangeCommand(l, start, end))) = IF lrangeCommand(l, start, end) = << >> THEN None ELSE List(lrangeCommand(l, start, end))
  BY <1>7, ListValue
<1> QED BY <1>6, <1>8, <1>9 DEF Val, v

\* The invariant gives KeyspaceSound.
LEMMA DatasetsSound ==
  ASSUME KInv
  PROVE  KeyspaceSound
<1>1. /\ Good(master) /\ Good(slave)
      /\ exact => Full(master) /\ Full(slave)
  BY DEF KInv
<1>2. NoEmptyAggregates
  <2> SUFFICES ASSUME NEW s \in {master, slave}, NEW k \in Key,
                      ~Missing(s, k) /\ (exact \/ ~Is(s, k, "list")) /\ ~Is(s, k, "string")
               PROVE  Size(s.db[k]) > 0
    BY DEF NoEmptyAggregates
  <2>1. ValueOK(s.db[k]) /\ (exact => NotEmpty(s.db[k]))
    BY <1>1 DEF Good, Full
  <2> QED BY <2>1, ValueSound DEF Missing, Is, Type
<1>3. ExpiresExist
  BY <1>1 DEF ExpiresExist, Good, Missing
<1>4. ZipmapSmall
  <2> SUFFICES ASSUME NEW s \in {master, slave}, NEW k \in Key, Is(s, k, "hash") /\ Val(s, k).enc = "zipmap"
               PROVE  Cardinality(Val(s, k).map) <= hash_max_zipmap_entries /\ ShortMap(Val(s, k).map)
    BY DEF ZipmapSmall, ShortMap, Fits
  <2>1. ValueOK(s.db[k])
    BY <1>1 DEF Good
  <2> QED BY <2>1, ValueSound DEF Val, Is, Type
<1>5. TrimIsRange
  <2> SUFFICES ASSUME NEW k \in Key, NEW start \in -3 .. 3, NEW end \in -3 .. 3, Is(master, k, "list")
               PROVE  LET t == ltrimCommand([master EXCEPT !.expires = {}], k, start, end)
                          r == lrangeCommand(Val(master, k), start, end)
                      IN  t.db[k] = IF r = << >> THEN None ELSE List(r)
    BY DEF TrimIsRange
  <2> DEFINE s == [master EXCEPT !.expires = {}]
  <2>1. s = [master EXCEPT !.expires = {}] /\ start \in Int /\ end \in Int
    OBVIOUS
  <2> HIDE DEF s
  <2>2. LET r == lrangeCommand(Val(master, k), start, end)
        IN  ltrimCommand(s, k, start, end).db[k] = IF r = << >> THEN None ELSE List(r)
    BY <1>1, <2>1, TrimSound
  <2> QED BY <2>2 DEF s
<1>6. OldTimesGo
  BY DEF KInv
<1> QED BY <1>2, <1>3, <1>4, <1>5, <1>6 DEF KeyspaceSound

\* Master and slave keep the same dataset (SameDataset), for any keys and elements: a command that
\* changed it is propagated, but for a FLUSHALL whose save leaves dirty as it was, and does not depend
\* on whether a volatile key is still there.
THEOREM DatasetAlwaysSame == KSpec => []SameDataset
<1>1. KInv => SameDataset
  BY DatasetSame
<1> QED BY <1>1, KAlways, PTL

\* After any commands no aggregate is empty, no time to live is left behind or taken over (but by
\* SORT ... STORE), zipmaps are small and LTRIM keeps what LRANGE returns (KeyspaceSound).
THEOREM KeyspaceAlwaysSound == KSpec => []KeyspaceSound
<1>1. KInv => KeyspaceSound
  BY DatasetsSound
<1> QED BY <1>1, KAlways, PTL

-----------------------------------------------------------------------------
(* The way of the slave to the dataset of its master                         *)

\* The slave's side of replication without the fairness that its liveness needs.
RepSpec == RepInit /\ [][RepNext]_repvars

\* Where syncWithMaster is, between its calls.
PlaceInSync == {"auth", "sync", "bulk", "dump", "rename", "load"}

\* The types of the master, the connection and the slave.
RepTypeOK ==
  /\ executed \in Nat /\ faults \in Int
  /\ link \in [open : BOOLEAN, asked : BOOLEAN, dump : Int, cmds : Seq(Int)]
  /\ replica \in [pc : PlaceInSync \cup {"events", "exited"}, replstate : {"connect", "connected", "none"},
                  data : Int, file : Int, temp : Int, short : BOOLEAN]

\* The commands on their way are the last that the master executed, and start where the
\* background save for this slave took its dump.
StreamInv ==
  /\ link.dump \in {NoDump} \cup 0 .. executed
  /\ link.dump = NoDump => link.cmds = <<>>
  /\ Len(link.cmds) <= executed
  /\ \A i \in 1 .. Len(link.cmds) : link.cmds[i] = executed - Len(link.cmds) + i

\* Until the slave is connected it takes no command from the connection.
WaitingInv ==
  /\ replica.replstate # "connected" /\ link.dump # NoDump => link.dump + Len(link.cmds) = executed
  /\ replica.replstate = "connected" => link.dump # NoDump
  /\ replica.pc \in PlaceInSync => replica.replstate = "connect"
  /\ replica.pc = "exited" => replica.replstate = "none"

\* From the bulk count on the dump is there; it is renamed when all of it was read, and
\* loaded when it is the slave's dump file, or what was written of it.
DumpInv ==
  /\ replica.pc \in {"dump", "rename", "load"} => link.dump # NoDump
  /\ replica.pc = "rename" => replica.temp = Chunks
  /\ replica.pc = "load" => replica.file \in {link.dump, Short}

RepInv == RepTypeOK /\ StreamInv /\ WaitingInv /\ DumpInv /\ ReplicaSound

-----------------------------------------------------------------------------
\* What Append and Tail do to the commands on their way.
LEMMA Streams ==
  ASSUME NEW s \in Seq(Int)
  PROVE  /\ \A n \in Int : /\ Append(s, n) \in Seq(Int) /\ Len(Append(s, n)) = Len(s) + 1
                          /\ Append(s, n)[Len(s) + 1] = n
                          /\ \A i \in 1 .. Len(s) : Append(s, n)[i] = s[i]
         /\ s # <<>> => /\ Head(s) = s[1] /\ Len(s) >= 1
                        /\ Tail(s) \in Seq(Int) /\ Len(Tail(s)) = Len(s) - 1
                        /\ \A i \in 1 .. Len(s) - 1 : Tail(s)[i] = s[i + 1]
  OBVIOUS

\* The master's numbers, as records and EXCEPT see them.
LEMMA Links ==
  ASSUME link \in [open : BOOLEAN, asked : BOOLEAN, dump : Int, cmds : Seq(Int)]
  PROVE  \A c \in Seq(Int) : \A l : l = [link EXCEPT !.cmds = c] =>
           /\ l.dump = link.dump /\ l.cmds = c
           /\ l \in [open : BOOLEAN, asked : BOOLEAN, dump : Int, cmds : Seq(Int)]
  OBVIOUS

\* A slave that starts is empty and has everything before it.
LEMMA RepInitInv == RepInit => RepInv
  BY DEF RepInit, RepInv, RepTypeOK, StreamInv, WaitingInv, DumpInv, ReplicaSound,
         ConnectedIsCurrent, OnlyVersions, Closed, NoDump, PlaceInSync, At

\* A connection that is closed has no dump and no command, and suits a slave that is not
\* connected.
LEMMA ClosedInv ==
  ASSUME RepInv, executed' = executed, faults' \in Int, link' = Closed,
         replica' \in [pc : {"events", "exited"}, replstate : {"connect", "none"},
                       data : Int, file : Int, temp : Int, short : BOOLEAN],
         replica'.data \in {Short} \cup 0 .. executed, replica'.file = replica.file,
         replica'.pc = "exited" => replica'.replstate = "none" /\ replica.file = Short
  PROVE  RepInv'
<1>1. link'.dump = NoDump /\ link'.cmds = <<>> /\ Len(link'.cmds) = 0
      /\ link' \in [open : BOOLEAN, asked : BOOLEAN, dump : Int, cmds : Seq(Int)]
  BY DEF Closed, NoDump
<1>2. RepTypeOK'
  BY <1>1 DEF RepInv, RepTypeOK
<1>3. StreamInv'
  BY <1>1 DEF RepInv, RepTypeOK, StreamInv
<1>4. WaitingInv' /\ DumpInv'
  BY <1>1 DEF WaitingInv, DumpInv, PlaceInSync
<1>5. ReplicaSound'
  BY <1>1 DEF RepInv, ReplicaSound, OnlyVersions, ConnectedIsCurrent, At
<1> QED BY <1>2, <1>3, <1>4, <1>5 DEF RepInv

\* rdbLoad ends the slave only over a dump file that was written short.
LEMMA ExitedInv ==
  ASSUME RepInv, executed' = executed, faults' \in Int, link' = Closed,
         replica.file = Short, replica' = Exited(replica)
  PROVE  RepInv'
<1>1. /\ replica' \in [pc : {"events", "exited"}, replstate : {"connect", "none"},
                      data : Int, file : Int, temp : Int, short : BOOLEAN]
      /\ replica'.pc = "exited" /\ replica'.replstate = "none" /\ replica'.data = 0 /\ replica'.file = replica.file
  <2>1. /\ replica \in [pc : PlaceInSync \cup {"events", "exited"}, replstate : {"connect", "connected", "none"},
                       data : Int, file : Int, temp : Int, short : BOOLEAN]
        /\ replica' = [replica EXCEPT !.pc = "exited", !.replstate = "none", !.data = 0]
    BY DEF RepInv, RepTypeOK, Exited
  <2>2. /\ replica' = [pc |-> "exited", replstate |-> "none", data |-> 0, file |-> replica.file,
                      temp |-> replica.temp, short |-> replica.short]
        /\ replica.file \in Int /\ replica.temp \in Int /\ replica.short \in BOOLEAN
    BY ONLY <2>1
  <2> QED BY ONLY <2>2
<1>2. 0 \in {Short} \cup 0 .. executed
  BY DEF RepInv, RepTypeOK
<1> QED BY <1>1, <1>2, ClosedInv

\* The master executes a command: it goes to every connection that has its dump.
LEMMA MasterCommandStep == ASSUME RepInv, masterCommand PROVE RepInv'
<1>0. /\ RepTypeOK /\ StreamInv /\ WaitingInv /\ DumpInv /\ ConnectedIsCurrent /\ OnlyVersions
      /\ executed' = executed + 1 /\ replica' = replica /\ faults' = faults
  BY DEF RepInv, ReplicaSound, masterCommand
<1>1. CASE link.dump = NoDump
  <2>1. link' = link /\ link.cmds = <<>> /\ Len(link.cmds) = 0
    BY <1>0, <1>1 DEF masterCommand, StreamInv
  <2> QED BY ONLY <1>0, <1>1, <2>1
          DEF RepInv, RepTypeOK, StreamInv, WaitingInv, DumpInv, ReplicaSound,
              ConnectedIsCurrent, OnlyVersions, PlaceInSync, At
<1>2. CASE link.dump # NoDump
  <2>1. link' = [link EXCEPT !.cmds = Append(@, executed + 1)]
    BY <1>2 DEF masterCommand
  <2>2. link.cmds \in Seq(Int) /\ executed + 1 \in Int /\ Len(link.cmds) \in Nat
    BY <1>0 DEF RepTypeOK
  <2>3. /\ link'.dump = link.dump /\ link'.cmds = Append(link.cmds, executed + 1)
        /\ link' \in [open : BOOLEAN, asked : BOOLEAN, dump : Int, cmds : Seq(Int)]
    <3> DEFINE c == Append(link.cmds, executed + 1)
    <3>1. c \in Seq(Int)
      BY ONLY <2>2, Streams
    <3>2. link' = [link EXCEPT !.cmds = c]
      BY ONLY <2>1
    <3> HIDE DEF c
    <3>3. link'.dump = link.dump /\ link'.cmds = c /\ link' \in [open : BOOLEAN, asked : BOOLEAN, dump : Int, cmds : Seq(Int)]
      BY ONLY <1>0, <3>1, <3>2, Links DEF RepTypeOK
    <3> QED BY ONLY <3>3 DEF c
  <2>4. /\ Len(link'.cmds) = Len(link.cmds) + 1
        /\ link'.cmds[Len(link.cmds) + 1] = executed + 1
        /\ \A i \in 1 .. Len(link.cmds) : link'.cmds[i] = link.cmds[i]
    BY ONLY <2>2, <2>3, Streams
  <2>5. RepTypeOK'
    BY ONLY <1>0, <2>3 DEF RepTypeOK, PlaceInSync
  <2>6. StreamInv'
    <3>1. \A i \in 1 .. Len(link'.cmds) : i \in 1 .. Len(link.cmds) \/ i = Len(link.cmds) + 1
      BY ONLY <2>2, <2>4
    <3>2. executed \in Nat /\ Len(link.cmds) \in Nat
      BY ONLY <1>0, <2>2 DEF RepTypeOK
    <3>3. \A i \in 1 .. Len(link'.cmds) : link'.cmds[i] = executed' - Len(link'.cmds) + i
      <4> TAKE i \in 1 .. Len(link'.cmds)
      <4>0. i \in Int /\ executed' = executed + 1 /\ Len(link'.cmds) = Len(link.cmds) + 1
        BY ONLY <1>0, <2>2, <2>4
      <4>1. CASE i \in 1 .. Len(link.cmds)
        <5>1. link'.cmds[i] = executed - Len(link.cmds) + i
          BY ONLY <1>0, <2>4, <4>1 DEF StreamInv
        <5> QED BY ONLY <3>2, <4>0, <5>1
      <4>2. CASE i = Len(link.cmds) + 1
        <5>1. link'.cmds[i] = executed + 1
          BY ONLY <2>4, <4>2
        <5> DEFINE l == Len(link.cmds)
                   m == Len(link'.cmds)
                   e == executed
                   f == executed'
        <5>2. l \in Int /\ e \in Int /\ m = l + 1 /\ f = e + 1 /\ i = l + 1
          BY ONLY <3>2, <4>0, <4>2
        <5> HIDE DEF l, m, e, f
        <5>3. e + 1 = f - m + i
          BY ONLY <5>2
        <5> QED BY ONLY <5>1, <5>3 DEF l, m, e, f
      <4> QED BY ONLY <3>1, <4>1, <4>2
    <3>4. link'.dump \in {NoDump} \cup 0 .. executed' /\ Len(link'.cmds) <= executed' /\ link'.dump # NoDump
      BY ONLY <1>0, <1>2, <2>2, <2>3, <2>4, <3>2 DEF StreamInv
    <3> QED BY ONLY <3>3, <3>4 DEF StreamInv
  <2>7. WaitingInv' /\ DumpInv' /\ ReplicaSound'
    <3>1. Len(link'.cmds) = Len(link.cmds) + 1 /\ link'.dump = link.dump /\ executed' = executed + 1
      BY ONLY <1>0, <2>3, <2>4
    <3>2. /\ executed \in Nat /\ link.dump \in Int /\ replica.data \in Int /\ replica.file \in Int
          /\ Len(link.cmds) \in Nat
      BY ONLY <1>0, <2>2 DEF RepTypeOK
    <3>a. /\ link.dump + Len(link.cmds) = executed => link'.dump + Len(link'.cmds) = executed'
          /\ replica.data + Len(link.cmds) = executed => replica.data + Len(link'.cmds) = executed'
      <4> DEFINE l == Len(link.cmds)
                 m == Len(link'.cmds)
                 d == link.dump
                 q == link'.dump
                 c == replica.data
                 e == executed
                 f == executed'
      <4>1. /\ l \in Int /\ d \in Int /\ c \in Int /\ e \in Int
            /\ m = l + 1 /\ f = e + 1 /\ q = d
        BY ONLY <3>1, <3>2
      <4> HIDE DEF l, m, d, q, c, e, f
      <4>2. (d + l = e => q + m = f) /\ (c + l = e => c + m = f)
        BY ONLY <4>1
      <4> QED BY ONLY <4>2 DEF l, m, d, q, c, e, f
    <3>b. WaitingInv /\ DumpInv /\ ConnectedIsCurrent /\ replica' = replica
      BY ONLY <1>0
    <3>3. WaitingInv' /\ DumpInv'
      BY ONLY <1>2, <3>1, <3>a, <3>b DEF WaitingInv, DumpInv
    <3>4. ConnectedIsCurrent'
      BY ONLY <3>1, <3>a, <3>b DEF ConnectedIsCurrent
    <3>5. OnlyVersions'
      BY ONLY <1>0, <3>1, <3>2 DEF OnlyVersions, At
    <3> QED BY ONLY <3>3, <3>4, <3>5 DEF ReplicaSound
  <2> QED BY ONLY <2>5, <2>6, <2>7 DEF RepInv
<1> QED BY ONLY <1>1, <1>2

\* The steps of syncWithMaster that leave the connection's dump and commands alone.
LEMMA SyncKeeps ==
  ASSUME RepInv, executed' = executed, faults' \in Int,
         link' = link, replica'.replstate = replica.replstate, replica'.data = replica.data,
         replica' \in [pc : PlaceInSync, replstate : {"connect", "connected", "none"},
                       data : Int, file : Int, temp : Int, short : BOOLEAN],
         replica'.file \in {NoDump, Short} \cup 0 .. executed,
         replica.replstate = "connect",
         DumpInv'
  PROVE  RepInv'
<1>1. /\ RepTypeOK /\ StreamInv /\ WaitingInv /\ DumpInv /\ ConnectedIsCurrent /\ OnlyVersions
  BY DEF RepInv, ReplicaSound
<1>2. RepTypeOK'
  BY ONLY <1>1, RepTypeOK, executed' = executed, faults' \in Int, link' = link,
          replica' \in [pc : PlaceInSync, replstate : {"connect", "connected", "none"},
                       data : Int, file : Int, temp : Int, short : BOOLEAN]
     DEF RepTypeOK
<1>3. StreamInv'
  BY <1>1 DEF StreamInv
<1>4. WaitingInv'
  BY <1>1 DEF WaitingInv, PlaceInSync
<1>5. ReplicaSound'
  BY <1>1, <1>4 DEF ReplicaSound, ConnectedIsCurrent, OnlyVersions, DumpInv, WaitingInv, At, PlaceInSync
<1> QED BY <1>2, <1>3, <1>4, <1>5 DEF RepInv

\* So a step of the synchronization is one that names its next place, file and temp.
LEMMA SyncMoves ==
  ASSUME RepInv, executed' = executed, faults' \in Int, link' = link, replica.replstate = "connect",
         NEW p \in PlaceInSync, NEW f \in {NoDump, Short} \cup 0 .. executed, NEW t \in Int, NEW u \in BOOLEAN,
         replica' = [pc |-> p, replstate |-> replica.replstate, data |-> replica.data, file |-> f, temp |-> t,
                     short |-> u],
         DumpInv'
  PROVE  RepInv'
<1>1. replica.data \in Int /\ replica.replstate \in {"connect", "connected", "none"} /\ executed \in Int
  BY DEF RepInv, RepTypeOK
<1>2. f \in Int
  BY ONLY <1>1, f \in {NoDump, Short} \cup 0 .. executed DEF NoDump, Short
<1>3. /\ replica' \in [pc : PlaceInSync, replstate : {"connect", "connected", "none"},
                      data : Int, file : Int, temp : Int, short : BOOLEAN]
      /\ replica'.replstate = replica.replstate /\ replica'.data = replica.data /\ replica'.file = f
  BY ONLY <1>1, <1>2, p \in PlaceInSync, t \in Int, u \in BOOLEAN,
          replica' = [pc |-> p, replstate |-> replica.replstate, data |-> replica.data, file |-> f, temp |-> t,
                      short |-> u]
<1> QED BY <1>3, SyncKeeps

\* Every step keeps the invariant.
LEMMA RepNextInv == RepInv /\ [RepNext]_repvars => RepInv'
<1> SUFFICES ASSUME RepInv, [RepNext]_repvars PROVE RepInv'
  OBVIOUS
<1>0. /\ RepTypeOK /\ StreamInv /\ WaitingInv /\ DumpInv /\ ConnectedIsCurrent /\ OnlyVersions
      /\ replica \in [pc : PlaceInSync \cup {"events", "exited"}, replstate : {"connect", "connected", "none"},
                      data : Int, file : Int, temp : Int, short : BOOLEAN]
      /\ link \in [open : BOOLEAN, asked : BOOLEAN, dump : Int, cmds : Seq(Int)]
      /\ executed \in Nat /\ Len(link.cmds) \in Nat
  BY DEF RepInv, ReplicaSound, RepTypeOK
<1>i. faults \in Int
  BY ONLY <1>0 DEF RepTypeOK
<1>f. replica.file \in {NoDump, Short} \cup 0 .. executed /\ replica.short \in BOOLEAN /\ FALSE \in BOOLEAN
  BY ONLY <1>0 DEF OnlyVersions
<1>p. {"sync", "dump", "rename", "load"} \subseteq PlaceInSync
  BY DEF PlaceInSync
<1>1. CASE masterCommand
  BY <1>1, MasterCommandStep
<1>2. CASE masterSaves
  <2>1. /\ link'.dump = executed /\ link'.cmds = link.cmds /\ link.cmds = <<>> /\ Len(link.cmds) = 0
        /\ link' \in [open : BOOLEAN, asked : BOOLEAN, dump : Int, cmds : Seq(Int)]
        /\ executed' = executed /\ replica' = replica /\ faults' = faults
        /\ replica.replstate # "connected"
        /\ replica.pc \notin {"dump", "rename", "load"}
    BY <1>0, <1>2 DEF masterSaves, StreamInv, WaitingInv, DumpInv
  <2>2. RepTypeOK'
    BY ONLY <1>0, <2>1 DEF RepTypeOK
  <2>3. StreamInv' /\ WaitingInv' /\ DumpInv' /\ ReplicaSound'
    BY ONLY <1>0, <2>1 DEF StreamInv, WaitingInv, DumpInv, ReplicaSound, ConnectedIsCurrent, OnlyVersions, NoDump, At, PlaceInSync
  <2> QED BY ONLY <2>2, <2>3 DEF RepInv
<1>3. CASE connect
  <2>1. /\ link' = [Closed EXCEPT !.open = TRUE] /\ replica.replstate = "connect"
        /\ replica' = [replica EXCEPT !.pc = IF MasterAuth THEN "auth" ELSE "sync"]
        /\ executed' = executed /\ faults' = faults
    BY <1>3 DEF connect
  <2>2. /\ link'.dump = NoDump /\ link'.cmds = <<>> /\ Len(link'.cmds) = 0
        /\ link' \in [open : BOOLEAN, asked : BOOLEAN, dump : Int, cmds : Seq(Int)]
    <3>1. <<>> \in Seq(Int) /\ Len(<<>>) = 0
      OBVIOUS
    <3>2. link' = [open |-> TRUE, asked |-> FALSE, dump |-> NoDump, cmds |-> <<>>]
      BY ONLY <2>1 DEF Closed
    <3>3. link'.dump = NoDump /\ link'.cmds = <<>>
      BY ONLY <3>2
    <3>4. NoDump \in Int
      BY DEF NoDump
    <3>5. link' \in [open : BOOLEAN, asked : BOOLEAN, dump : Int, cmds : Seq(Int)]
      BY ONLY <3>1, <3>2, <3>4
    <3> QED BY ONLY <3>1, <3>3, <3>5
  <2>3. /\ replica'.pc \in {"auth", "sync"} /\ replica'.replstate = "connect"
        /\ replica'.data = replica.data /\ replica'.file = replica.file
        /\ replica' \in [pc : PlaceInSync \cup {"events", "exited"}, replstate : {"connect", "connected", "none"},
                      data : Int, file : Int, temp : Int, short : BOOLEAN]
    BY ONLY <1>0, <2>1 DEF PlaceInSync
  <2>4. RepTypeOK'
    BY ONLY <1>0, <2>1, <2>2, <2>3 DEF RepTypeOK
  <2>5. StreamInv'
    BY ONLY <1>0, <2>1, <2>2 DEF StreamInv, NoDump
  <2>6. WaitingInv' /\ DumpInv'
    BY ONLY <1>0, <2>2, <2>3 DEF WaitingInv, DumpInv, NoDump
  <2>7. ReplicaSound'
    BY ONLY <1>0, <2>1, <2>3 DEF ReplicaSound, ConnectedIsCurrent, OnlyVersions, NoDump, At, PlaceInSync
  <2> QED BY ONLY <2>4, <2>5, <2>6, <2>7 DEF RepInv
<1>4. CASE authenticate
  <2>1. replica.pc \in PlaceInSync /\ replica.replstate = "connect"
    BY ONLY <1>0, <1>4 DEF authenticate, At, WaitingInv, PlaceInSync
  <2>2. replica' = [replica EXCEPT !.pc = "sync"] /\ link' = link /\ executed' = executed /\ faults' = faults
    BY ONLY <1>4 DEF authenticate
  <2>3. replica' = [pc |-> "sync", replstate |-> replica.replstate, data |-> replica.data,
                    file |-> replica.file, temp |-> replica.temp, short |-> replica.short] /\ replica.temp \in Int
    BY ONLY <1>0, <2>2
  <2>4. DumpInv'
    BY ONLY <1>0, <2>1, <2>2, <2>3 DEF DumpInv, NoDump
  <2> QED BY ONLY RepInv, <2>1, <2>2, <2>3, <2>4, <1>f, <1>i, <1>p, SyncMoves
<1>5. CASE writeSync
  <2>1. /\ link'.dump = link.dump /\ link'.cmds = link.cmds
        /\ link' \in [open : BOOLEAN, asked : BOOLEAN, dump : Int, cmds : Seq(Int)]
        /\ executed' = executed /\ faults' = faults
        /\ replica' \in [pc : PlaceInSync \cup {"events", "exited"}, replstate : {"connect", "connected", "none"},
                      data : Int, file : Int, temp : Int, short : BOOLEAN]
        /\ replica.pc = "sync" /\ replica'.pc = "bulk" /\ replica'.replstate = replica.replstate
        /\ replica'.data = replica.data /\ replica'.file = replica.file
    BY <1>0, <1>5 DEF writeSync, At, PlaceInSync
  <2>2. RepTypeOK'
    BY ONLY <1>0, <2>1 DEF RepTypeOK
  <2>3. StreamInv' /\ WaitingInv' /\ DumpInv' /\ ReplicaSound'
    BY ONLY <1>0, <2>1 DEF StreamInv, WaitingInv, DumpInv, ReplicaSound, ConnectedIsCurrent, OnlyVersions, NoDump, At, PlaceInSync
  <2> QED BY ONLY <2>2, <2>3 DEF RepInv
<1>6. CASE readCount
  <2>1. replica.pc \in PlaceInSync /\ replica.replstate = "connect" /\ link.dump # NoDump
    BY ONLY <1>0, <1>6 DEF readCount, At, WaitingInv, PlaceInSync
  <2>2. DumpInv'
    BY <1>0, <1>6, <2>1 DEF readCount, At, DumpInv
  <2>3. replica' = [replica EXCEPT !.pc = "dump", !.temp = 0, !.short = FALSE] /\ link' = link /\ executed' = executed /\ faults' = faults
    BY ONLY <1>6 DEF readCount
  <2>4. replica' = [pc |-> "dump", replstate |-> replica.replstate, data |-> replica.data,
                    file |-> replica.file, temp |-> 0, short |-> FALSE]
    BY ONLY <1>0, <2>3
  <2> QED BY ONLY RepInv, <2>1, <2>2, <2>3, <2>4, <1>f, <1>i, <1>p, 0 \in Int, SyncMoves
<1>7. CASE readDump
  <2>1. replica.pc = "dump" /\ replica.replstate = "connect" /\ link.dump # NoDump
    BY ONLY <1>0, <1>7 DEF readDump, At, WaitingInv, DumpInv, PlaceInSync
  <2>2. link' = link /\ executed' = executed /\ faults' = faults /\ replica.temp \in Int
    BY ONLY <1>0, <1>7 DEF readDump
  <2>3. CASE AllRead(replica.temp)
    <3>1. replica' = [replica EXCEPT !.pc = "rename"] /\ replica.temp = Chunks
      BY <1>7, <2>3 DEF readDump, AllRead
    <3>2. replica' = [pc |-> "rename", replstate |-> replica.replstate, data |-> replica.data,
                      file |-> replica.file, temp |-> replica.temp, short |-> replica.short]
      BY ONLY <1>0, <3>1
    <3>3. DumpInv'
      BY ONLY <1>0, <2>1, <2>2, <3>1, <3>2 DEF DumpInv, NoDump
    <3> QED BY ONLY RepInv, <2>1, <2>2, <3>2, <3>3, <1>f, <1>i, <1>p, SyncMoves
  <2>4. CASE ~AllRead(replica.temp)
    <3>1. replica' = [replica EXCEPT !.temp = @ + 1]
      BY <1>7, <2>4 DEF readDump
    <3>2. replica' = [pc |-> "dump", replstate |-> replica.replstate, data |-> replica.data,
                      file |-> replica.file, temp |-> replica.temp + 1, short |-> replica.short]
      BY ONLY <1>0, <2>1, <3>1
    <3>3. DumpInv' /\ replica.temp + 1 \in Int
      BY ONLY <1>0, <2>1, <2>2, <3>2 DEF DumpInv, NoDump
    <3> QED BY ONLY RepInv, <2>1, <2>2, <3>2, <3>3, <1>f, <1>i, <1>p, SyncMoves
  <2> QED BY ONLY <2>3, <2>4
<1>8. CASE renameDump
  <2> DEFINE f == IF replica.short THEN Short ELSE link.dump
  <2>1. replica.pc = "rename" /\ replica.replstate = "connect" /\ link.dump # NoDump /\ replica.temp = Chunks
        /\ link.dump \in 0 .. executed
    BY ONLY <1>0, <1>8 DEF renameDump, At, WaitingInv, DumpInv, StreamInv, PlaceInSync
  <2>2. /\ replica' = [replica EXCEPT !.pc = "load", !.file = f]
        /\ link' = link /\ executed' = executed /\ faults' = faults /\ replica.temp \in Int
    <3>1. f = IF replica.short THEN Short ELSE IF replica.temp = Chunks THEN link.dump ELSE Partial
      BY ONLY <1>f, <2>1
    <3> HIDE DEF f
    <3> QED BY ONLY <1>0, <1>8, <3>1 DEF renameDump
  <2>3. f \in {NoDump, Short} \cup 0 .. executed /\ f \in {link.dump, Short}
    BY ONLY <2>1
  <2> HIDE DEF f
  <2>4. replica' = [pc |-> "load", replstate |-> replica.replstate, data |-> replica.data,
                    file |-> f, temp |-> replica.temp, short |-> replica.short]
    BY ONLY <1>0, <2>2
  <2>5. DumpInv'
    BY ONLY <1>0, <2>1, <2>2, <2>3, <2>4 DEF DumpInv, NoDump
  <2> QED BY ONLY RepInv, <2>1, <2>2, <2>3, <2>4, <2>5, <1>f, <1>i, <1>p, SyncMoves
<1>9. CASE loadDump
  <2>1. /\ replica.pc = "load" /\ replica.file \in {link.dump, Short} /\ link.dump # NoDump
        /\ link.dump \in 0 .. executed /\ link.dump + Len(link.cmds) = executed
        /\ replica' = [replica EXCEPT !.pc = "events", !.data = replica.file, !.replstate = "connected"]
        /\ executed' = executed /\ faults' = faults /\ link' = link
    BY ONLY <1>0, <1>9 DEF loadDump, At, DumpInv, StreamInv, ConnectedIsCurrent
  <2>2. /\ replica' \in [pc : PlaceInSync \cup {"events", "exited"}, replstate : {"connect", "connected", "none"},
                      data : Int, file : Int, temp : Int, short : BOOLEAN]
        /\ replica'.pc = "events" /\ replica'.data = replica.file /\ replica'.replstate = "connected"
        /\ replica'.file = replica.file
    BY ONLY <1>0, <2>1
  <2>3. RepTypeOK'
    BY ONLY <1>0, <2>1, <2>2 DEF RepTypeOK
  <2>4. StreamInv' /\ WaitingInv' /\ DumpInv'
    BY ONLY <1>0, <2>1, <2>2 DEF StreamInv, WaitingInv, DumpInv, PlaceInSync
  <2>5. ReplicaSound'
    BY ONLY <1>0, <2>1, <2>2 DEF ReplicaSound, ConnectedIsCurrent, OnlyVersions, At
  <2> QED BY ONLY <2>3, <2>4, <2>5 DEF RepInv
<1>10. CASE readQueryFromMaster
  <2>1. /\ replica.pc = "events" /\ replica.replstate = "connected" /\ link.cmds # <<>> /\ link.dump # NoDump
        /\ replica' = [replica EXCEPT !.data = Applied(@, Head(link.cmds))]
        /\ link' = [link EXCEPT !.cmds = Tail(@)]
        /\ executed' = executed /\ faults' = faults
        /\ link.cmds \in Seq(Int)
    BY ONLY <1>0, <1>10 DEF readQueryFromMaster, At, WaitingInv, PlaceInSync
  <2>2. /\ Head(link.cmds) = link.cmds[1] /\ Len(link.cmds) >= 1 /\ Tail(link.cmds) \in Seq(Int)
        /\ Len(Tail(link.cmds)) = Len(link.cmds) - 1
        /\ \A i \in 1 .. Len(link.cmds) - 1 : Tail(link.cmds)[i] = link.cmds[i + 1]
    BY ONLY <2>1, Streams
  <2> DEFINE next == IF replica.data = Short THEN Short ELSE replica.data + 1
  <2>3. Applied(replica.data, Head(link.cmds)) = next
    <3>1. CASE replica.data = Short
      BY ONLY <3>1 DEF Applied
    <3>2. CASE replica.data # Short
      <4>1. Head(link.cmds) = replica.data + 1 /\ replica.data \in Int
        BY ONLY SMTT(30), <1>0, <2>1, <2>2, <3>2 DEF StreamInv, ConnectedIsCurrent
      <4> QED BY ONLY <3>2, <4>1 DEF Applied
    <3> QED BY ONLY <3>1, <3>2
  <2>4. /\ replica'.data = next /\ replica'.file = replica.file
        /\ replica'.pc = "events" /\ replica'.replstate = "connected"
        /\ replica' \in [pc : PlaceInSync \cup {"events", "exited"}, replstate : {"connect", "connected", "none"},
                      data : Int, file : Int, temp : Int, short : BOOLEAN]
    <3>1. replica' = [replica EXCEPT !.data = next] /\ next \in Int
      <4>1. replica.data \in Int /\ Short \in Int
        BY ONLY <1>0 DEF Short
      <4> QED BY ONLY <2>1, <2>3, <4>1
    <3> HIDE DEF next
    <3>2. /\ replica'.data = next /\ replica'.file = replica.file
          /\ replica'.pc = "events" /\ replica'.replstate = "connected"
          /\ replica' \in [pc : PlaceInSync \cup {"events", "exited"}, replstate : {"connect", "connected", "none"},
                        data : Int, file : Int, temp : Int, short : BOOLEAN]
      BY ONLY <1>0, <2>1, <3>1
    <3> QED BY ONLY <3>2
  <2>5. /\ link'.dump = link.dump /\ link'.cmds = Tail(link.cmds)
        /\ link' \in [open : BOOLEAN, asked : BOOLEAN, dump : Int, cmds : Seq(Int)]
    BY ONLY <1>0, <2>1, <2>2, Links
  <2>6. RepTypeOK'
    BY ONLY <1>0, <2>1, <2>4, <2>5, RepTypeOK DEF RepTypeOK
  <2>7. StreamInv'
    <3>1. Len(link'.cmds) = Len(link.cmds) - 1 /\ \A i \in 1 .. Len(link'.cmds) : link'.cmds[i] = link.cmds[i + 1]
      BY ONLY <2>2, <2>5
    <3>2. \A i \in 1 .. Len(link'.cmds) : i + 1 \in 1 .. Len(link.cmds)
      BY ONLY <1>0, <3>1
    <3>3. \A i \in 1 .. Len(link'.cmds) : link'.cmds[i] = executed' - Len(link'.cmds) + i
      BY ONLY <1>0, <2>1, <3>1, <3>2 DEF StreamInv
    <3>4. link'.dump \in {NoDump} \cup 0 .. executed' /\ Len(link'.cmds) <= executed' /\ link'.dump # NoDump
      BY ONLY <1>0, <2>1, <2>5, <3>1 DEF StreamInv
    <3> QED BY ONLY <3>3, <3>4 DEF StreamInv
  <2>8. WaitingInv' /\ DumpInv' /\ ReplicaSound'
    <3>1. Len(link'.cmds) = Len(link.cmds) - 1
      BY ONLY <2>2, <2>5
    <3>2. replica.data # Short => replica.data + Len(link.cmds) = executed
      BY ONLY <1>0, <2>1 DEF ConnectedIsCurrent
    <3>3. replica.data \in Int /\ replica.data \in {Short} \cup 0 .. executed
      BY ONLY <1>0 DEF OnlyVersions
    <3>4. /\ replica'.data \in {Short} \cup 0 .. executed
          /\ replica'.data # Short => replica'.data + Len(link'.cmds) = executed
      <4>1. CASE replica.data = Short
        BY ONLY <2>4, <4>1
      <4>2. CASE replica.data # Short
        <5>1. /\ replica'.data = replica.data + 1 /\ executed \in Nat /\ Len(link.cmds) \in Nat
              /\ Len(link.cmds) >= 1
          BY ONLY <1>0, <2>2, <2>4, <4>2
        <5> QED BY ONLY SMTT(30), <3>1, <3>2, <3>3, <4>2, <5>1
      <4> QED BY ONLY <4>1, <4>2
    <3>5. WaitingInv' /\ DumpInv'
      BY ONLY <2>1, <2>4, <2>5 DEF WaitingInv, DumpInv, PlaceInSync
    <3>6. ReplicaSound'
      BY ONLY <1>0, <2>1, <2>4, <3>4 DEF ReplicaSound, ConnectedIsCurrent, OnlyVersions, At
    <3> QED BY ONLY <3>5, <3>6
  <2> QED BY ONLY <2>6, <2>7, <2>8 DEF RepInv
<1>11. CASE syncFails
  <2>1. replica.replstate = "connect"
    BY ONLY <1>0, <1>11 DEF syncFails, At, WaitingInv, PlaceInSync
  <2>2. replica' = [replica EXCEPT !.pc = "events", !.data = IF At("load") THEN 0 ELSE @]
    BY ONLY <1>11 DEF syncFails
  <2>3. replica.data \in {Short} \cup 0 .. executed /\ 0 \in 0 .. executed
    BY ONLY <1>0 DEF OnlyVersions
  <2>4. /\ replica' \in [pc : {"events", "exited"}, replstate : {"connect", "none"},
                       data : Int, file : Int, temp : Int, short : BOOLEAN]
        /\ replica'.data \in {Short} \cup 0 .. executed /\ replica'.file = replica.file
        /\ replica'.pc = "events"
    <3> DEFINE d == IF At("load") THEN 0 ELSE replica.data
    <3>1. d \in {Short} \cup 0 .. executed /\ d \in Int
      BY ONLY <1>0, <2>3
    <3>2. replica' = [replica EXCEPT !.pc = "events", !.data = d]
      BY ONLY <2>2
    <3> HIDE DEF d
    <3> QED BY ONLY <1>0, <2>1, <3>1, <3>2
  <2>5. link' = Closed /\ executed' = executed /\ faults' \in Int
    BY <1>0, <1>11 DEF syncFails, RepTypeOK
  <2> QED BY ONLY RepInv, <2>4, <2>5, ClosedInv
<1>12. CASE linkLost
  <2>1. /\ replica' = [replica EXCEPT !.replstate = "connect"] /\ replica.pc = "events"
        /\ link' = Closed /\ executed' = executed /\ faults' \in Int
    BY <1>12, <1>i DEF linkLost, FreedMaster, At
  <2>2. replica.data \in {Short} \cup 0 .. executed
    BY ONLY <1>0 DEF OnlyVersions
  <2>3. /\ replica' \in [pc : {"events", "exited"}, replstate : {"connect", "none"},
                       data : Int, file : Int, temp : Int, short : BOOLEAN]
        /\ replica'.data = replica.data /\ replica'.file = replica.file /\ replica'.pc = "events"
    BY ONLY <1>0, <2>1
  <2> QED BY ONLY RepInv, <2>1, <2>2, <2>3, ClosedInv
<1>13. CASE crash
  <2>1. link' = Closed /\ executed' = executed /\ faults' \in Int
    BY <1>0, <1>13 DEF crash, RepTypeOK
  <2>2. CASE replica' = Restarted(replica)
    <3> DEFINE d == IF replica.file = NoDump THEN 0 ELSE replica.file
    <3>1. d \in {Short} \cup 0 .. executed /\ d \in Int
      BY ONLY <1>0 DEF OnlyVersions
    <3>2. replica' = [replica EXCEPT !.pc = "events", !.replstate = "connect", !.data = d]
      BY ONLY <2>2 DEF Restarted
    <3> HIDE DEF d
    <3>3. /\ replica' \in [pc : {"events", "exited"}, replstate : {"connect", "none"},
                         data : Int, file : Int, temp : Int, short : BOOLEAN]
          /\ replica'.pc = "events" /\ replica'.data \in {Short} \cup 0 .. executed /\ replica'.file = replica.file
      BY ONLY <1>0, <3>1, <3>2
    <3> QED BY ONLY RepInv, <2>1, <3>3, ClosedInv
  <2>3. CASE replica.file = Short /\ replica' = Exited(replica)
    BY ONLY RepInv, <2>1, <2>3, ExitedInv
  <2> QED BY <1>13, <2>2, <2>3 DEF crash
<1>14. CASE rdbSaved
  <2>1. /\ replica.pc = "events" /\ replica' = [replica EXCEPT !.file = replica.data]
        /\ executed' = executed /\ faults' = faults /\ link' = link
    BY ONLY <1>14 DEF rdbSaved, At
  <2>2. /\ replica' \in [pc : PlaceInSync \cup {"events", "exited"}, replstate : {"connect", "connected", "none"},
                      data : Int, file : Int, temp : Int, short : BOOLEAN]
        /\ replica'.pc = "events" /\ replica'.data = replica.data /\ replica'.replstate = replica.replstate
        /\ replica'.file = replica.data
    BY ONLY <1>0, <2>1
  <2>3. RepTypeOK'
    BY ONLY <1>0, <2>1, <2>2, RepTypeOK DEF RepTypeOK
  <2>4. StreamInv' /\ WaitingInv' /\ DumpInv' /\ ReplicaSound'
    BY ONLY <1>0, <2>1, <2>2 DEF StreamInv, WaitingInv, DumpInv, ReplicaSound, ConnectedIsCurrent, OnlyVersions, At, PlaceInSync
  <2> QED BY ONLY <2>3, <2>4 DEF RepInv
<1>15. ASSUME NEW noone \in BOOLEAN, slaveofCommand(noone) PROVE RepInv'
  <2> DEFINE d == IF noone THEN "none" ELSE "connect"
  <2>1. d \in {"connect", "none"} /\ replica.data \in {Short} \cup 0 .. executed
    BY ONLY <1>0 DEF OnlyVersions
  <2>2. replica' = [replica EXCEPT !.replstate = d] /\ replica.pc = "events"
    BY ONLY <1>15 DEF slaveofCommand, At
  <2> HIDE DEF d
  <2>3. /\ replica' \in [pc : {"events", "exited"}, replstate : {"connect", "none"},
                       data : Int, file : Int, temp : Int, short : BOOLEAN]
        /\ replica'.data \in {Short} \cup 0 .. executed /\ replica'.file = replica.file
        /\ replica'.pc = "events"
    BY ONLY <1>0, <2>1, <2>2
  <2>4. link' = Closed /\ executed' = executed /\ faults' \in Int
    BY <1>0, <1>15 DEF slaveofCommand, RepTypeOK
  <2> QED BY ONLY RepInv, <2>3, <2>4, ClosedInv
<1>16. CASE writeCut
  <2>1. replica.pc = "dump" /\ replica.replstate = "connect" /\ link.dump # NoDump
    BY ONLY <1>0, <1>16 DEF writeCut, At, WaitingInv, DumpInv, PlaceInSync
  <2>2. /\ link' = link /\ executed' = executed /\ faults' \in Int /\ replica.temp \in Int
        /\ replica' = [replica EXCEPT !.temp = replica.temp + 1, !.short = TRUE]
    BY <1>0, <1>16 DEF writeCut, RepTypeOK
  <2>3. replica' = [pc |-> "dump", replstate |-> replica.replstate, data |-> replica.data,
                    file |-> replica.file, temp |-> replica.temp + 1, short |-> TRUE]
    BY ONLY <1>0, <2>1, <2>2
  <2>4. DumpInv' /\ replica.temp + 1 \in Int /\ TRUE \in BOOLEAN
    BY ONLY <1>0, <2>1, <2>2, <2>3 DEF DumpInv, NoDump
  <2> QED BY ONLY RepInv, <2>1, <2>2, <2>3, <2>4, <1>f, <1>i, <1>p, SyncMoves
<1>17. CASE loadExits
  <2>1. /\ replica.file = Short /\ replica' = Exited(replica) /\ link' = Closed
        /\ executed' = executed /\ faults' \in Int
    BY <1>0, <1>17 DEF loadExits, RepTypeOK
  <2> QED BY ONLY RepInv, <2>1, ExitedInv
<1>18. CASE UNCHANGED repvars
  <2>1. executed' = executed /\ link' = link /\ replica' = replica /\ faults' = faults
    BY <1>18 DEF repvars
  <2> QED BY ONLY <2>1, RepInv
          DEF RepInv, RepTypeOK, StreamInv, WaitingInv, DumpInv, ReplicaSound, ConnectedIsCurrent, OnlyVersions, At
<1> QED
  BY ONLY [RepNext]_repvars, <1>1, <1>2, <1>3, <1>4, <1>5, <1>6, <1>7, <1>8, <1>9, <1>10, <1>11, <1>12,
          <1>13, <1>14, <1>15, <1>16, <1>17, <1>18
     DEF RepNext, SyncStep

\* syncWithMaster, freeClient of the master, SLAVEOF and a crash between any two steps leave
\* the slave with a version of the master's dataset, and a slave that is connected lacks no
\* command but those on their way, unless a write to its dump file was cut short.
THEOREM SlaveFollowsMaster == RepSpec => []ReplicaSound
<1>1. RepInv => ReplicaSound
  BY DEF RepInv
<1> QED BY RepInitInv, RepNextInv, <1>1, PTL DEF RepSpec
=============================================================================
