-------------------------- MODULE Structures_proofs --------------------------
(***************************************************************************)
(* Proofs about the hash table and the event loop of redis.                *)
(*                                                                         *)
(* The hash table: a dict is sound (DictOK) if each of its tables has its  *)
(* keys in the chains that they hash to, each once, and counts them, if    *)
(* the two tables share no key, and if rehashidx has passed empty chains   *)
(* only.  Lemmas say what a change of one chain does to a table, what a    *)
(* change of one table does to a dict, and, by induction over the          *)
(* recursive functions of dictRehash, that moving entries keeps a dict     *)
(* sound and its content the same.  For an iterator, Passed says which     *)
(* keys are behind it; as no entry moves once the iterator is counted,     *)
(* other calls neither take a key past it nor back (SameFor), and          *)
(* dictNext takes it past one key more, the one that it returns.           *)
(*                                                                         *)
(* The event loop: what the loop, the kernel and the clients have          *)
(* registered agrees (EvOK), and the times of the timers are in order.     *)
(***************************************************************************)
EXTENDS Dict, Events, FiniteSetTheorems, SequenceTheorems, WellFoundedInduction, TLAPS

(* Numbers *)

\* A set of numbers that is not empty has a least element.
LEMMA LeastNumber ==
  ASSUME NEW S, S \subseteq Nat, S # {}
  PROVE  Min(S) \in S /\ \A n \in S : Min(S) <= n
<1> DEFINE Less == {p \in Nat \X Nat : p[1] < p[2]}
<1>1. IsWellFoundedOn(Less, Nat)
  BY NatLessThanWellFounded DEF OpToRel
<1>2. \E x \in S : \A y \in S : <<y, x>> \notin Less
  <2> HIDE DEF Less
  <2> QED BY <1>1, WFMin
<1>3. PICK x \in S : \A y \in S : <<y, x>> \notin Less
  BY <1>2
<1>4. \A y \in S : x <= y
  <2> TAKE y \in S
  <2>1. <<y, x>> \in Nat \X Nat
    OBVIOUS
  <2> QED BY <1>3, <2>1
<1> QED BY <1>4 DEF Min

\* Induction, for a set of numbers.
LEMMA NumberInduction ==
  ASSUME NEW S, 0 \in S, \A n \in Nat : n \in S => n + 1 \in S
  PROVE  Nat \subseteq S
<1> SUFFICES ASSUME Nat \ S # {} PROVE FALSE
  OBVIOUS
<1> DEFINE x == Min(Nat \ S)
<1>1. x \in Nat /\ x \notin S /\ \A y \in Nat \ S : x <= y
  BY LeastNumber
<1> HIDE DEF x
<1>2. x # 0 /\ x - 1 \in Nat /\ x - 1 \in S
  BY <1>1
<1> QED BY <1>1, <1>2

\* A set of numbers that is bounded and not empty has a greatest element.
LEMMA GreatestNumber ==
  ASSUME NEW N \in Nat, NEW S, S \subseteq 0 .. N, S # {}
  PROVE  Max(S) \in S /\ \A n \in S : n <= Max(S)
<1> DEFINE T == {N - n : n \in S}
<1>1. T \subseteq Nat /\ T # {}
  <2>1. \A n \in S : N - n \in Nat
    OBVIOUS
  <2> QED BY <2>1
<1>2. Min(T) \in T /\ \A n \in T : Min(T) <= n
  <2> HIDE DEF T
  <2> QED BY <1>1, LeastNumber
<1>3. PICK x \in S : Min(T) = N - x
  BY <1>2
<1>4. \A n \in S : x >= n
  <2> TAKE n \in S
  <2>1. Min(T) <= N - n
    BY <1>2
  <2> HIDE DEF T
  <2> QED BY <1>3, <2>1
<1> QED BY <1>4 DEF Max

-----------------------------------------------------------------------------
(* Chains *)

Chain == Seq(Entry)
NoRepeat(s) == \A p, q \in DOMAIN s : s[p].key = s[q].key => p = q

LEMMA Pushed ==
  ASSUME NEW s \in Chain, NoRepeat(s), NEW e \in Entry, \A p \in DOMAIN s : s[p].key # e.key
  PROVE  LET t == <<e>> \o s
         IN  /\ t \in Chain /\ NoRepeat(t) /\ ToSet(t) = {e} \cup ToSet(s)
             /\ Len(t) = Len(s) + 1 /\ t[1] = e
             /\ \A p \in DOMAIN s : p + 1 \in DOMAIN t /\ t[p + 1] = s[p]
             /\ \A p \in DOMAIN t : p = 1 \/ (p - 1 \in DOMAIN s /\ t[p] = s[p - 1])
<1> DEFINE t == <<e>> \o s
<1>1. t \in Chain /\ Len(t) = Len(s) + 1 /\ Len(s) \in Nat /\ DOMAIN s = 1 .. Len(s) /\ DOMAIN t = 1 .. Len(s) + 1
  BY DEF Chain
<1>2. t[1] = e /\ \A p \in 1 .. Len(s) : t[p + 1] = s[p]
  BY DEF Chain
<1> HIDE DEF t
<1>3. \A p \in DOMAIN s : p + 1 \in DOMAIN t /\ t[p + 1] = s[p]
  BY <1>1, <1>2
<1>4. \A p \in DOMAIN t : p = 1 \/ (p - 1 \in DOMAIN s /\ t[p] = s[p - 1])
  <2> TAKE p \in DOMAIN t
  <2>1. CASE p # 1
    <3>1. p - 1 \in 1 .. Len(s) /\ (p - 1) + 1 = p
      BY <1>1, <2>1
    <3>2. t[(p - 1) + 1] = s[p - 1]
      BY <1>2, <3>1
    <3> QED BY <1>1, <3>1, <3>2
  <2> QED BY <2>1
<1>5. 1 \in DOMAIN t
  BY <1>1
<1>6. ToSet(t) = {e} \cup ToSet(s)
  <2>1. ToSet(t) \subseteq {e} \cup ToSet(s)
    BY <1>2, <1>4 DEF ToSet
  <2>2. {e} \cup ToSet(s) \subseteq ToSet(t)
    BY <1>2, <1>3, <1>5 DEF ToSet
  <2> QED BY <2>1, <2>2
<1>7. NoRepeat(t)
  <2> SUFFICES ASSUME NEW p \in DOMAIN t, NEW q \in DOMAIN t, t[p].key = t[q].key PROVE p = q
    BY DEF NoRepeat
  <2>1. p \in Int /\ q \in Int
    BY <1>1
  <2>2. CASE p = 1 \/ q = 1
    BY <1>2, <1>4, <2>2
  <2>3. CASE p # 1 /\ q # 1
    <3>1. p - 1 = q - 1
      BY <1>4, <2>3 DEF NoRepeat
    <3> QED BY <2>1, <3>1
  <2> QED BY <2>2, <2>3
<1>8. t \in Chain /\ Len(t) = Len(s) + 1 /\ t[1] = e
  BY <1>1, <1>2
<1> QED BY <1>3, <1>4, <1>6, <1>7, <1>8 DEF t

LEMMA Dropped ==
  ASSUME NEW s \in Chain, NoRepeat(s), NEW r \in DOMAIN s
  PROVE  LET t == RemoveAt(s, r)
         IN  /\ t \in Chain /\ NoRepeat(t) /\ ToSet(t) = {e \in ToSet(s) : e.key # s[r].key}
             /\ Len(t) = Len(s) - 1
             /\ \A p \in DOMAIN t : t[p] = IF p < r THEN s[p] ELSE s[p + 1]
<1> DEFINE t == RemoveAt(s, r)
           a == SubSeq(s, 1, r - 1)
           z == SubSeq(s, r + 1, Len(s))
<1>1. Len(s) \in Nat /\ DOMAIN s = 1 .. Len(s) /\ r \in 1 .. Len(s) /\ \A p \in 1 .. Len(s) : s[p] \in Entry
  BY DEF Chain
<1>2. a \in Chain /\ Len(a) = r - 1 /\ \A p \in 1 .. r - 1 : a[p] = s[p]
  BY <1>1 DEF Chain
<1>3. z \in Chain /\ Len(z) = Len(s) - r /\ \A p \in 1 .. Len(s) - r : z[p] = s[p + r]
  <2>1. z \in Chain
    BY <1>1 DEF Chain
  <2>2. Len(z) = Len(s) - r
    BY <1>1 DEF Chain
  <2>3. ASSUME NEW p \in 1 .. Len(s) - r PROVE z[p] = s[p + r]
    <3>1. p \in 1 .. Len(z)
      BY <2>2
    <3>2. z[p] = s[(r + 1) + p - 1] /\ (r + 1) + p - 1 = p + r
      BY <1>1, <3>1, SubSeqProperties DEF Chain
    <3> QED BY <3>2
  <2> QED BY <2>1, <2>2, <2>3
<1>4. t = a \o z
  BY DEF RemoveAt
<1> HIDE DEF a, z, t
<1>5. t \in Chain /\ Len(t) = Len(s) - 1 /\ DOMAIN t = 1 .. Len(s) - 1
  <2>1. t \in Chain /\ Len(t) = Len(a) + Len(z)
    BY <1>2, <1>3, <1>4, ConcatProperties DEF Chain
  <2>2. Len(t) = Len(s) - 1
    BY <1>1, <1>2, <1>3, <2>1
  <2> QED BY <2>1, <2>2 DEF Chain
<1>6. \A p \in 1 .. Len(s) - 1 : t[p] = IF p < r THEN s[p] ELSE s[p + 1]
  <2> TAKE p \in 1 .. Len(s) - 1
  <2>1. CASE p < r
    BY <1>1, <1>2, <1>3, <1>4, <2>1 DEF Chain
  <2>2. CASE ~(p < r)
    <3>1. p - (r - 1) \in 1 .. Len(s) - r /\ (p - (r - 1)) + r = p + 1 /\ p \in 1 .. Len(a) + Len(z) /\ ~(p <= Len(a))
      BY <1>1, <1>2, <1>3, <2>2
    <3>2. t[p] = IF p <= Len(a) THEN a[p] ELSE z[p - Len(a)]
      BY <1>2, <1>3, <1>4, <3>1, ConcatProperties DEF Chain
    <3> QED BY <1>2, <1>3, <2>2, <3>1, <3>2
  <2> QED BY <2>1, <2>2
<1>7. ToSet(t) = {e \in ToSet(s) : e.key # s[r].key}
  <2>1. ASSUME NEW p \in DOMAIN t PROVE t[p] \in {e \in ToSet(s) : e.key # s[r].key}
    <3>1. PICK q \in DOMAIN s : t[p] = s[q] /\ q # r
      <4>1. CASE p < r
        BY <1>1, <1>5, <1>6, <4>1
      <4>2. CASE ~(p < r)
        <5>1. p + 1 \in DOMAIN s /\ p + 1 # r /\ t[p] = s[p + 1]
          BY <1>1, <1>5, <1>6, <4>2
        <5> QED BY <5>1
      <4> QED BY <4>1, <4>2
    <3> QED BY <3>1 DEF NoRepeat, ToSet
  <2>2. ASSUME NEW q \in DOMAIN s, s[q].key # s[r].key PROVE s[q] \in ToSet(t)
    <3>1. q # r
      BY <2>2
    <3>2. CASE q < r
      <4>1. q \in DOMAIN t /\ t[q] = s[q]
        BY <1>1, <1>5, <1>6, <3>2
      <4> QED BY <4>1 DEF ToSet
    <3>3. CASE ~(q < r)
      <4>1. q - 1 \in DOMAIN t /\ t[q - 1] = s[(q - 1) + 1] /\ (q - 1) + 1 = q
        BY <1>1, <1>5, <1>6, <3>1, <3>3
      <4> QED BY <4>1 DEF ToSet
    <3> QED BY <3>2, <3>3
  <2> QED BY <2>1, <2>2 DEF ToSet
<1>8. NoRepeat(t)
  <2> SUFFICES ASSUME NEW p \in DOMAIN t, NEW q \in DOMAIN t, t[p].key = t[q].key PROVE p = q
    BY DEF NoRepeat
  <2> DEFINE at(n) == IF n < r THEN n ELSE n + 1
  <2>1. at(p) \in DOMAIN s /\ at(q) \in DOMAIN s /\ t[p] = s[at(p)] /\ t[q] = s[at(q)]
    BY <1>1, <1>5, <1>6
  <2>2. at(p) = at(q)
    <3> HIDE DEF at
    <3> QED BY <2>1 DEF NoRepeat
  <2> QED BY <1>1, <1>5, <2>2
<1> QED BY <1>5, <1>6, <1>7, <1>8 DEF t

LEMMA Overwritten ==
  ASSUME NEW s \in Chain, NoRepeat(s), NEW r \in DOMAIN s, NEW e \in Entry, e.key = s[r].key
  PROVE  LET t == [s EXCEPT ![r] = e]
         IN  /\ t \in Chain /\ NoRepeat(t) /\ ToSet(t) = {x \in ToSet(s) : x.key # e.key} \cup {e}
             /\ Len(t) = Len(s)
             /\ \A p \in DOMAIN s : t[p].key = s[p].key
<1> DEFINE t == [s EXCEPT ![r] = e]
<1>1. t \in Chain /\ Len(t) = Len(s) /\ DOMAIN t = DOMAIN s
  BY DEF Chain
<1>2. t[r] = e /\ \A p \in DOMAIN s \ {r} : t[p] = s[p]
  OBVIOUS
<1> HIDE DEF t
<1>3. \A p \in DOMAIN s : t[p].key = s[p].key
  BY <1>2
<1>4. NoRepeat(t)
  BY <1>1, <1>3 DEF NoRepeat
<1>5. ToSet(t) = {x \in ToSet(s) : x.key # e.key} \cup {e}
  BY <1>1, <1>2 DEF ToSet, NoRepeat
<1> QED BY <1>1, <1>3, <1>4, <1>5 DEF t

\* A key is found where it is.
LEMMA Placed ==
  ASSUME NEW s \in Chain, NoRepeat(s), NEW p \in DOMAIN s
  PROVE  Place(s, s[p].key) = p
<1> DEFINE T == {n \in DOMAIN s : s[n].key = s[p].key}
<1>1. T = {p}
  BY DEF NoRepeat
<1>2. p \in Int
  BY DEF Chain
<1>3. Min({p}) = p
  BY <1>2 DEF Min
<1> QED BY <1>1, <1>3 DEF Place

-----------------------------------------------------------------------------
(* Tables *)

HT == [table : Seq(Chain), used : Nat]
KeysOf(h) == {e.key : e \in Elements(h)}

\* A chain has the keys that hash to it, each once.
ChainOK(h, b) == NoRepeat(h.table[b]) /\ \A p \in DOMAIN h.table[b] : Bucket(h, h.table[b][p].key) = b

HtOK(h) ==
  /\ \A b \in DOMAIN h.table : ChainOK(h, b)
  /\ IsFiniteSet(KeysOf(h)) /\ h.used = Cardinality(KeysOf(h))

LEMMA BucketIn ==
  ASSUME NEW h \in HT, Size(h) > 0, NEW k \in Key
  PROVE  Bucket(h, k) \in DOMAIN h.table /\ h.table[Bucket(h, k)] \in Chain
<1>1. Size(h) \in Nat \ {0} /\ DOMAIN h.table = 1 .. Size(h) /\ \A b \in 1 .. Size(h) : h.table[b] \in Chain
  BY DEF HT, Size
<1>2. Hash[k] \in Nat
  BY DictHashAssumption
<1>3. Hash[k] % Size(h) \in 0 .. Size(h) - 1
  BY <1>1, <1>2
<1> QED BY <1>1, <1>3 DEF Bucket

\* The entries of a table, and where they are.
LEMMA ElementOf ==
  ASSUME NEW h \in HT
  PROVE  /\ \A b \in DOMAIN h.table : \A p \in DOMAIN h.table[b] :
              h.table[b][p] \in Elements(h) /\ h.table[b][p] \in Entry /\ h.table[b][p].key \in KeysOf(h)
         /\ \A e \in Elements(h) : e \in Entry /\ \E b \in DOMAIN h.table : \E p \in DOMAIN h.table[b] : h.table[b][p] = e
         /\ KeysOf(h) \subseteq Key
<1>1. \A b \in DOMAIN h.table : h.table[b] \in Chain
  BY DEF HT
<1>2. \A b \in DOMAIN h.table : \A p \in DOMAIN h.table[b] : h.table[b][p] \in Entry
  BY <1>1 DEF Chain
<1>3. \A b \in DOMAIN h.table : \A p \in DOMAIN h.table[b] : h.table[b][p] \in Elements(h)
  BY DEF Elements, ToSet
<1>4. \A e \in Elements(h) : \E b \in DOMAIN h.table : \E p \in DOMAIN h.table[b] : h.table[b][p] = e
  BY DEF Elements, ToSet
<1> QED BY <1>2, <1>3, <1>4 DEF KeysOf, Entry

LEMMA Where ==
  ASSUME NEW h \in HT, HtOK(h), NEW k \in KeysOf(h)
  PROVE  LET b == Bucket(h, k)
             s == h.table[b]
         IN  /\ Size(h) > 0 /\ b \in DOMAIN h.table /\ s \in Chain /\ NoRepeat(s)
             /\ Place(s, k) \in DOMAIN s /\ s[Place(s, k)].key = k
<1>1. PICK e \in Elements(h) : e.key = k
  BY DEF KeysOf
<1>2. PICK b \in DOMAIN h.table : \E p \in DOMAIN h.table[b] : h.table[b][p] = e
  BY <1>1, ElementOf
<1>3. PICK p \in DOMAIN h.table[b] : h.table[b][p].key = k
  BY <1>1, <1>2
<1>4. Bucket(h, k) = b /\ NoRepeat(h.table[b])
  BY <1>3 DEF HtOK, ChainOK
<1>5. h.table[b] \in Chain /\ Size(h) > 0
  BY DEF HT, Size
<1>6. Place(h.table[b], k) = p
  BY <1>3, <1>4, <1>5, Placed
<1> QED BY <1>3, <1>4, <1>5, <1>6

\* A key that no entry has.
LEMMA Nowhere ==
  ASSUME NEW h \in HT, HtOK(h), NEW k \in Key
  PROVE  k \in KeysOf(h) <=> Size(h) > 0 /\ InChain(ChainOf(h, k), k)
<1>1. ASSUME k \in KeysOf(h) PROVE Size(h) > 0 /\ InChain(ChainOf(h, k), k)
  BY <1>1, Where DEF InChain, ChainOf
<1>2. ASSUME Size(h) > 0, InChain(ChainOf(h, k), k) PROVE k \in KeysOf(h)
  BY <1>2, BucketIn, ElementOf DEF InChain, ChainOf
<1> QED BY <1>1, <1>2

\* A chain has what hashes to it.
LEMMA ChainHas ==
  ASSUME NEW h \in HT, HtOK(h), NEW b \in DOMAIN h.table
  PROVE  ToSet(h.table[b]) = {x \in Elements(h) : Bucket(h, x.key) = b}
<1>1. \A x \in ToSet(h.table[b]) : x \in Elements(h) /\ Bucket(h, x.key) = b
  BY ElementOf DEF ToSet, HtOK, ChainOK
<1>2. ASSUME NEW x \in Elements(h), Bucket(h, x.key) = b PROVE x \in ToSet(h.table[b])
  <2>1. PICK y \in DOMAIN h.table : \E p \in DOMAIN h.table[y] : h.table[y][p] = x
    BY ElementOf
  <2>2. y = b
    BY <1>2, <2>1 DEF HtOK, ChainOK
  <2> QED BY <2>1, <2>2 DEF ToSet
<1> QED BY <1>1, <1>2

\* One chain of a table changes.
LEMMA ChainChanged ==
  ASSUME NEW h \in HT, HtOK(h), NEW b \in DOMAIN h.table, NEW s \in Chain, NEW u \in Nat,
         NoRepeat(s), \A p \in DOMAIN s : Bucket(h, s[p].key) = b
  PROVE  LET g == [table |-> [h.table EXCEPT ![b] = s], used |-> u]
         IN  /\ g \in HT /\ Size(g) = Size(h) /\ DOMAIN g.table = DOMAIN h.table
             /\ \A x \in DOMAIN h.table : g.table[x] = IF x = b THEN s ELSE h.table[x]
             /\ \A x \in DOMAIN g.table : ChainOK(g, x)
             /\ Elements(g) = {e \in Elements(h) : Bucket(h, e.key) # b} \cup ToSet(s)
<1> DEFINE g == [table |-> [h.table EXCEPT ![b] = s], used |-> u]
<1>1. g \in HT /\ Size(g) = Size(h) /\ DOMAIN g.table = DOMAIN h.table
  BY DEF HT, Size
<1>2. \A x \in DOMAIN h.table : g.table[x] = IF x = b THEN s ELSE h.table[x]
  BY DEF HT
<1> HIDE DEF g
<1>3. \A k : Bucket(g, k) = Bucket(h, k)
  BY <1>1 DEF Bucket
<1>4. \A x \in DOMAIN g.table : ChainOK(g, x)
  BY <1>1, <1>2, <1>3 DEF HtOK, ChainOK
<1>5. Elements(g) = {e \in Elements(h) : Bucket(h, e.key) # b} \cup ToSet(s)
  <2>1. ASSUME NEW e \in Elements(g) PROVE e \in {x \in Elements(h) : Bucket(h, x.key) # b} \cup ToSet(s)
    <3>1. PICK x \in DOMAIN g.table : \E p \in DOMAIN g.table[x] : g.table[x][p] = e
      BY <1>1, ElementOf
    <3>2. CASE x = b
      BY <1>1, <1>2, <3>1, <3>2 DEF ToSet
    <3>3. CASE x # b
      <4>1. PICK p \in DOMAIN h.table[x] : h.table[x][p] = e
        BY <1>1, <1>2, <3>1, <3>3
      <4>2. Bucket(h, e.key) = x
        BY <1>1, <4>1 DEF HtOK, ChainOK
      <4> QED BY <1>1, <3>3, <4>1, <4>2, ElementOf
    <3> QED BY <3>2, <3>3
  <2>2. ASSUME NEW e \in Elements(h), Bucket(h, e.key) # b PROVE e \in Elements(g)
    <3>1. PICK x \in DOMAIN h.table : \E p \in DOMAIN h.table[x] : h.table[x][p] = e
      BY ElementOf
    <3>2. PICK p \in DOMAIN h.table[x] : h.table[x][p] = e
      BY <3>1
    <3>3. x # b
      BY <2>2, <3>2 DEF HtOK, ChainOK
    <3>4. g.table[x] = h.table[x]
      BY <1>2, <3>3
    <3> QED BY <1>1, <3>2, <3>4, ElementOf
  <2>3. ASSUME NEW e \in ToSet(s) PROVE e \in Elements(g)
    <3>1. PICK p \in DOMAIN s : s[p] = e
      BY DEF ToSet
    <3> QED BY <1>1, <1>2, <3>1, ElementOf
  <2> QED BY <2>1, <2>2, <2>3
<1> QED BY <1>1, <1>2, <1>4, <1>5 DEF g

LEMMA EntryPushed ==
  ASSUME NEW h \in HT, HtOK(h), Size(h) > 0, NEW e \in Entry, e.key \notin KeysOf(h)
  PROVE  LET b == Bucket(h, e.key)
             g == [table |-> [h.table EXCEPT ![b] = <<e>> \o h.table[b]], used |-> h.used + 1]
         IN  /\ g \in HT /\ HtOK(g) /\ Size(g) = Size(h)
             /\ Elements(g) = Elements(h) \cup {e}
             /\ \A x \in DOMAIN h.table : g.table[x] = IF x = b THEN <<e>> \o h.table[b] ELSE h.table[x]
<1> DEFINE b == Bucket(h, e.key)
           s == h.table[b]
           t == <<e>> \o s
           g == [table |-> [h.table EXCEPT ![b] = t], used |-> h.used + 1]
<1>1. e.key \in Key /\ b \in DOMAIN h.table /\ s \in Chain /\ h.used + 1 \in Nat
  BY BucketIn DEF Entry, HT
<1>2. NoRepeat(s) /\ \A p \in DOMAIN s : s[p].key # e.key /\ Bucket(h, s[p].key) = b
  BY <1>1, ElementOf DEF HtOK, ChainOK
<1>3. /\ t \in Chain /\ NoRepeat(t) /\ ToSet(t) = {e} \cup ToSet(s)
      /\ \A p \in DOMAIN t : t[p] = e \/ \E q \in DOMAIN s : t[p] = s[q]
  <2> HIDE DEF s
  <2>1. /\ t \in Chain /\ NoRepeat(t) /\ ToSet(t) = {e} \cup ToSet(s) /\ t[1] = e
        /\ \A p \in DOMAIN t : p = 1 \/ (p - 1 \in DOMAIN s /\ t[p] = s[p - 1])
    BY <1>1, <1>2, Pushed
  <2> QED BY <2>1
<1>b. b = Bucket(h, e.key)
  OBVIOUS
<1> HIDE DEF t
<1>4. \A p \in DOMAIN t : Bucket(h, t[p].key) = b
  BY <1>2, <1>3
<1> HIDE DEF b
<1>5. /\ g \in HT /\ Size(g) = Size(h) /\ DOMAIN g.table = DOMAIN h.table
      /\ \A x \in DOMAIN h.table : g.table[x] = IF x = b THEN t ELSE h.table[x]
      /\ \A x \in DOMAIN g.table : ChainOK(g, x)
      /\ Elements(g) = {x \in Elements(h) : Bucket(h, x.key) # b} \cup ToSet(t)
  BY <1>1, <1>3, <1>4, ChainChanged
<1>g. g.used = h.used + 1
  OBVIOUS
<1> HIDE DEF g
<1>6. ToSet(s) = {x \in Elements(h) : Bucket(h, x.key) = b}
  BY <1>1, ChainHas
<1>7. Elements(g) = Elements(h) \cup {e}
  BY <1>3, <1>5, <1>6
<1>8. KeysOf(g) = KeysOf(h) \cup {e.key}
  BY <1>7 DEF KeysOf
<1>9. HtOK(g)
  <2>1. IsFiniteSet(KeysOf(g)) /\ Cardinality(KeysOf(g)) = Cardinality(KeysOf(h)) + 1
    <3>1. IsFiniteSet(KeysOf(h))
      BY DEF HtOK
    <3>2. IsFiniteSet(KeysOf(h) \cup {e.key}) /\ Cardinality(KeysOf(h) \cup {e.key}) = Cardinality(KeysOf(h)) + 1
      BY ONLY <3>1, e.key \notin KeysOf(h), FS_AddElement
    <3> QED BY <1>8, <3>2
  <2> QED BY <1>5, <1>g, <2>1 DEF HtOK
<1> QED BY <1>5, <1>7, <1>9 DEF g, t, b

LEMMA EntryUnlinked ==
  ASSUME NEW h \in HT, HtOK(h), NEW k \in KeysOf(h)
  PROVE  LET b == Bucket(h, k)
             t == RemoveAt(h.table[b], Place(h.table[b], k))
             g == [table |-> [h.table EXCEPT ![b] = t], used |-> h.used - 1]
         IN  /\ g \in HT /\ HtOK(g) /\ Size(g) = Size(h)
             /\ Elements(g) = {x \in Elements(h) : x.key # k}
             /\ \A x \in DOMAIN h.table : g.table[x] = IF x = b THEN t ELSE h.table[x]
<1> DEFINE b == Bucket(h, k)
           s == h.table[b]
           r == Place(s, k)
           t == RemoveAt(s, r)
           u == h.used - 1
           g == [table |-> [h.table EXCEPT ![b] = t], used |-> u]
<1>1. b \in DOMAIN h.table /\ s \in Chain /\ NoRepeat(s) /\ r \in DOMAIN s /\ s[r].key = k
  BY Where
<1>2. \A p \in DOMAIN s : Bucket(h, s[p].key) = b
  BY <1>1 DEF HtOK, ChainOK
<1>3. u \in Nat
  <2>1. Cardinality(KeysOf(h)) \in Nat /\ Cardinality(KeysOf(h)) # 0
    BY FS_CardinalityType, FS_EmptySet DEF HtOK
  <2> QED BY <2>1 DEF HtOK
<1>b. b = Bucket(h, k)
  OBVIOUS
<1> HIDE DEF r
<1>4. /\ t \in Chain /\ NoRepeat(t) /\ ToSet(t) = {x \in ToSet(s) : x.key # k}
      /\ \A p \in DOMAIN t : \E q \in DOMAIN s : t[p] = s[q]
  <2> HIDE DEF s
  <2>1. t \in Chain /\ NoRepeat(t) /\ ToSet(t) = {x \in ToSet(s) : x.key # k}
    BY <1>1, Dropped
  <2>2. \A p \in DOMAIN t : t[p] \in ToSet(s)
    BY <2>1 DEF ToSet
  <2> QED BY <2>1, <2>2 DEF ToSet
<1> HIDE DEF t
<1>5. \A p \in DOMAIN t : Bucket(h, t[p].key) = b
  BY <1>2, <1>4
<1>u. u = h.used - 1
  OBVIOUS
<1> HIDE DEF b, u
<1>6. /\ g \in HT /\ Size(g) = Size(h) /\ DOMAIN g.table = DOMAIN h.table
      /\ \A x \in DOMAIN h.table : g.table[x] = IF x = b THEN t ELSE h.table[x]
      /\ \A x \in DOMAIN g.table : ChainOK(g, x)
      /\ Elements(g) = {x \in Elements(h) : Bucket(h, x.key) # b} \cup ToSet(t)
  BY <1>1, <1>3, <1>4, <1>5, ChainChanged
<1>g. g.used = u
  OBVIOUS
<1> HIDE DEF g
<1>7. ToSet(s) = {x \in Elements(h) : Bucket(h, x.key) = b}
  BY <1>1, ChainHas
<1>8. Elements(g) = {x \in Elements(h) : x.key # k}
  BY <1>4, <1>6, <1>7, <1>b
<1>9. KeysOf(g) = KeysOf(h) \ {k}
  BY <1>8 DEF KeysOf
<1>10. HtOK(g)
  <2>1. IsFiniteSet(KeysOf(g)) /\ Cardinality(KeysOf(g)) = Cardinality(KeysOf(h)) - 1
    BY <1>9, FS_RemoveElement DEF HtOK
  <2> QED BY <1>6, <1>g, <1>u, <2>1 DEF HtOK
<1> QED BY <1>6, <1>8, <1>10 DEF g, t, b, r, u

LEMMA EntryChanged ==
  ASSUME NEW h \in HT, HtOK(h), NEW k \in KeysOf(h), NEW v \in Value
  PROVE  LET b == Bucket(h, k)
             e == [key |-> k, val |-> v]
             t == [h.table[b] EXCEPT ![Place(h.table[b], k)] = e]
             g == [table |-> [h.table EXCEPT ![b] = t], used |-> h.used + 0]
         IN  /\ g \in HT /\ HtOK(g) /\ Size(g) = Size(h)
             /\ Elements(g) = {x \in Elements(h) : x.key # k} \cup {e}
             /\ \A x \in DOMAIN h.table : g.table[x] = IF x = b THEN t ELSE h.table[x]
<1> DEFINE b == Bucket(h, k)
           e == [key |-> k, val |-> v]
           s == h.table[b]
           r == Place(s, k)
           t == [s EXCEPT ![r] = e]
           u == h.used + 0
           g == [table |-> [h.table EXCEPT ![b] = t], used |-> u]
<1>1. b \in DOMAIN h.table /\ s \in Chain /\ NoRepeat(s) /\ r \in DOMAIN s /\ s[r].key = k
  BY Where
<1>2. \A p \in DOMAIN s : Bucket(h, s[p].key) = b
  BY <1>1 DEF HtOK, ChainOK
<1>3. u \in Nat /\ u = h.used
  BY DEF HT
<1>e. e \in Entry /\ e.key = k
  BY ElementOf DEF Entry
<1>b. b = Bucket(h, k)
  OBVIOUS
<1> HIDE DEF r, e
<1>4. /\ t \in Chain /\ NoRepeat(t) /\ ToSet(t) = {x \in ToSet(s) : x.key # k} \cup {e}
      /\ DOMAIN t = DOMAIN s /\ \A p \in DOMAIN s : t[p].key = s[p].key
  <2>1. s \in Chain /\ NoRepeat(s) /\ r \in DOMAIN s /\ e \in Entry /\ e.key = s[r].key
    BY <1>1, <1>e
  <2>2. DOMAIN t = DOMAIN s
    OBVIOUS
  <2> HIDE DEF s
  <2>3. t \in Chain /\ NoRepeat(t) /\ ToSet(t) = {x \in ToSet(s) : x.key # e.key} \cup {e} /\ \A p \in DOMAIN s : t[p].key = s[p].key
    BY ONLY <2>1, Overwritten
  <2> QED BY <1>e, <2>2, <2>3
<1> HIDE DEF t
<1>5. \A p \in DOMAIN t : Bucket(h, t[p].key) = b
  BY <1>2, <1>4
<1> HIDE DEF b, u
<1>6. /\ g \in HT /\ Size(g) = Size(h) /\ DOMAIN g.table = DOMAIN h.table
      /\ \A x \in DOMAIN h.table : g.table[x] = IF x = b THEN t ELSE h.table[x]
      /\ \A x \in DOMAIN g.table : ChainOK(g, x)
      /\ Elements(g) = {x \in Elements(h) : Bucket(h, x.key) # b} \cup ToSet(t)
  <2>1. h \in HT /\ HtOK(h) /\ b \in DOMAIN h.table /\ t \in Chain /\ NoRepeat(t) /\ u \in Nat
    BY <1>1, <1>3, <1>4
  <2> QED BY ONLY <1>5, <2>1, ChainChanged
<1>g. g.used = u
  OBVIOUS
<1> HIDE DEF g
<1>7. ToSet(s) = {x \in Elements(h) : Bucket(h, x.key) = b}
  BY <1>1, ChainHas
<1>8. Elements(g) = {x \in Elements(h) : x.key # k} \cup {e}
  BY <1>4, <1>6, <1>7, <1>b
<1>9. KeysOf(g) = KeysOf(h)
  BY <1>8, <1>e DEF KeysOf
<1>10. HtOK(g)
  BY <1>3, <1>6, <1>g, <1>9 DEF HtOK
<1> QED BY <1>6, <1>8, <1>10 DEF g, t, b, r, e, u

-----------------------------------------------------------------------------
(* The dict *)

DictSet == [ht : [{0, 1} -> HT], rehashidx : Int, iterators : Nat]
Content(c) == Elements(c.ht[0]) \cup Elements(c.ht[1])
AllKeys(c) == KeysOf(c.ht[0]) \cup KeysOf(c.ht[1])

\* Two sound tables that share no key, of which the second is there while entries are moved,
\* and of the first then a part has been emptied.
DictOK(c) ==
  /\ c \in DictSet
  /\ HtOK(c.ht[0]) /\ HtOK(c.ht[1])
  /\ KeysOf(c.ht[0]) \cap KeysOf(c.ht[1]) = {}
  /\ IF c.rehashidx = -1 THEN c.ht[1] = NoTable
     ELSE /\ c.rehashidx \in 0 .. Size(c.ht[0]) /\ Size(c.ht[0]) > 0 /\ Size(c.ht[1]) > 0
          /\ \A b \in DOMAIN c.ht[0].table : b <= c.rehashidx => c.ht[0].table[b] = << >>

\* What the calls on one entry do not change.
Alike(w, c) == w.rehashidx = c.rehashidx /\ w.iterators = c.iterators

LEMMA EmptyTable ==
  ASSUME NEW n \in Nat
  PROVE  LET h == [table |-> [i \in 1 .. n |-> << >>], used |-> 0]
         IN  /\ h \in HT /\ HtOK(h) /\ Size(h) = n /\ Elements(h) = {} /\ KeysOf(h) = {}
             /\ \A b \in DOMAIN h.table : h.table[b] = << >>
<1> DEFINE h == [table |-> [i \in 1 .. n |-> << >>], used |-> 0]
<1>1. h.table = [i \in 1 .. n |-> << >>] /\ h.used = 0 /\ h = [table |-> h.table, used |-> h.used]
  OBVIOUS
<1> HIDE DEF h
<1>2. h.table \in Seq(Chain)
  <2>1. << >> \in Chain
    BY DEF Chain
  <2> QED BY <1>1, <2>1
<1>3. h \in HT /\ Size(h) = n /\ DOMAIN h.table = 1 .. n /\ \A b \in DOMAIN h.table : h.table[b] = << >>
  BY <1>1, <1>2 DEF HT, Size
<1>4. Elements(h) = {} /\ KeysOf(h) = {}
  BY <1>3 DEF Elements, KeysOf, ToSet
<1>5. HtOK(h)
  BY <1>1, <1>3, <1>4, FS_EmptySet DEF HtOK, ChainOK, NoRepeat
<1> QED BY <1>3, <1>4, <1>5 DEF h

LEMMA NoTableIs == NoTable \in HT /\ HtOK(NoTable) /\ Size(NoTable) = 0 /\ Elements(NoTable) = {} /\ KeysOf(NoTable) = {}
<1>1. NoTable \in HT /\ Size(NoTable) = 0 /\ DOMAIN NoTable.table = {} /\ NoTable.used = 0
  BY DEF NoTable, HT, Size
<1>2. Elements(NoTable) = {} /\ KeysOf(NoTable) = {}
  BY <1>1 DEF Elements, KeysOf
<1> QED BY <1>1, <1>2, FS_EmptySet DEF HtOK

WithTable(c, n, g) == [c EXCEPT !.ht = [c.ht EXCEPT ![n] = g]]

\* One table is replaced by a sound one of its size.
LEMMA TableReplaced ==
  ASSUME NEW c, DictOK(c), NEW n \in {0, 1}, NEW g, NEW w,
         w = WithTable(c, n, g),
         g \in HT, HtOK(g), Size(g) = Size(c.ht[n]),
         KeysOf(g) \cap KeysOf(c.ht[1 - n]) = {},
         n = 1 => IsRehashing(c),
         n = 0 => \A x \in DOMAIN g.table : x <= c.rehashidx => g.table[x] = << >>
  PROVE  DictOK(w) /\ Alike(w, c) /\ w.ht[n] = g /\ w.ht[1 - n] = c.ht[1 - n]
<1>1. /\ g \in HT /\ HtOK(g) /\ Size(g) = Size(c.ht[n])
      /\ KeysOf(g) \cap KeysOf(c.ht[1 - n]) = {}
      /\ n = 1 => IsRehashing(c)
      /\ n = 0 => \A x \in DOMAIN g.table : x <= c.rehashidx => g.table[x] = << >>
  OBVIOUS
<1>2. w = [c EXCEPT !.ht = [c.ht EXCEPT ![n] = g]]
  BY DEF WithTable
<1>3. c \in DictSet /\ c.ht \in [{0, 1} -> HT]
  BY DEF DictOK, DictSet
<1>4. w \in DictSet /\ Alike(w, c) /\ w.ht = [c.ht EXCEPT ![n] = g]
  BY <1>1, <1>2, <1>3 DEF DictSet, Alike
<1>5. w.ht[n] = g /\ w.ht[1 - n] = c.ht[1 - n] /\ 1 - n \in {0, 1}
  BY <1>3, <1>4
<1>6. CASE n = 0
  <2>1. w.ht[0] = g /\ w.ht[1] = c.ht[1]
    BY <1>5, <1>6
  <2> QED BY ONLY DictOK(c), <1>1, <1>4, <1>5, <1>6, <2>1 DEF DictOK, Alike
<1>7. CASE n = 1
  <2>1. w.ht[1] = g /\ w.ht[0] = c.ht[0]
    BY <1>5, <1>7
  <2> QED BY ONLY DictOK(c), <1>1, <1>4, <1>5, <1>7, <2>1 DEF DictOK, Alike, IsRehashing
<1> QED BY <1>6, <1>7

LEMMA Inserted ==
  ASSUME NEW c, DictOK(c), NEW e \in Entry, e.key \notin AllKeys(c), Size(c.ht[AddTo(c)]) > 0
  PROVE  LET n == AddTo(c)
             b == Bucket(c.ht[n], e.key)
             w == Insert(c, n, e)
         IN  /\ DictOK(w) /\ Alike(w, c) /\ Content(w) = Content(c) \cup {e}
             /\ w.ht[1 - n] = c.ht[1 - n] /\ Size(w.ht[n]) = Size(c.ht[n])
             /\ \A x \in DOMAIN c.ht[n].table :
                  w.ht[n].table[x] = IF x = b THEN <<e>> \o c.ht[n].table[b] ELSE c.ht[n].table[x]
<1> DEFINE n == AddTo(c)
           h == c.ht[n]
           b == Bucket(h, e.key)
           s == <<e>> \o h.table[b]
           g == [table |-> [h.table EXCEPT ![b] = s], used |-> h.used + 1]
           w == Insert(c, n, e)
<1>1. n \in {0, 1} /\ (n = 1 => IsRehashing(c)) /\ (n = 0 => c.rehashidx = -1)
  BY DEF AddTo, IsRehashing
<1> HIDE DEF n
<1>2. h \in HT /\ HtOK(h) /\ Size(h) > 0 /\ e.key \notin KeysOf(h) /\ e.key \notin KeysOf(c.ht[1 - n])
  BY <1>1 DEF DictOK, DictSet, AllKeys, n
<1>3. /\ g \in HT /\ HtOK(g) /\ Size(g) = Size(h)
      /\ Elements(g) = Elements(h) \cup {e}
      /\ \A x \in DOMAIN h.table : g.table[x] = IF x = b THEN <<e>> \o h.table[b] ELSE h.table[x]
  <2> HIDE DEF h
  <2> QED BY ONLY <1>2, e \in Entry, EntryPushed
<1>4. KeysOf(g) \cap KeysOf(c.ht[1 - n]) = {}
  <2>1. KeysOf(g) = KeysOf(h) \cup {e.key}
    <3> HIDE DEF g, h
    <3> QED BY <1>3 DEF KeysOf
  <2>2. KeysOf(h) \cap KeysOf(c.ht[1 - n]) = {}
    BY <1>1 DEF DictOK
  <2> HIDE DEF g, h
  <2> QED BY <1>2, <2>1, <2>2
<1>5. n = 0 => \A x \in DOMAIN g.table : x <= c.rehashidx => g.table[x] = << >>
  <2>1. DOMAIN g.table = 1 .. Size(g) /\ Size(g) \in Nat
    <3> HIDE DEF g
    <3> QED BY <1>3 DEF HT, Size
  <2> HIDE DEF g
  <2> QED BY <1>1, <2>1
<1>6. w = WithTable(c, n, g)
  BY DEF Insert, WithChain, WithTable
<1>7. DictOK(w) /\ Alike(w, c) /\ w.ht[n] = g /\ w.ht[1 - n] = c.ht[1 - n]
  <2>1. /\ DictOK(c) /\ n \in {0, 1} /\ w = WithTable(c, n, g)
        /\ g \in HT /\ HtOK(g) /\ Size(g) = Size(c.ht[n])
        /\ KeysOf(g) \cap KeysOf(c.ht[1 - n]) = {}
        /\ n = 1 => IsRehashing(c)
        /\ n = 0 => \A x \in DOMAIN g.table : x <= c.rehashidx => g.table[x] = << >>
    BY <1>1, <1>3, <1>4, <1>5, <1>6
  <2> HIDE DEF w, b, s, g
  <2> QED BY ONLY <2>1, TableReplaced
<1> HIDE DEF w, g, b, s
<1>8. Content(w) = Content(c) \cup {e}
  <2>1. CASE n = 0
    BY <1>3, <1>7, <2>1 DEF Content
  <2>2. CASE n = 1
    BY <1>3, <1>7, <2>2 DEF Content
  <2> QED BY <1>1, <2>1, <2>2
<1> QED BY <1>3, <1>7, <1>8 DEF n, b, w

LEMMA Unlinked ==
  ASSUME NEW c, DictOK(c), NEW n \in {0, 1}, NEW k \in KeysOf(c.ht[n])
  PROVE  LET b == Bucket(c.ht[n], k)
             w == Unlink(c, n, k)
         IN  /\ DictOK(w) /\ Alike(w, c) /\ Content(w) = {e \in Content(c) : e.key # k}
             /\ k \notin AllKeys(w)
             /\ w.ht[1 - n] = c.ht[1 - n] /\ Size(w.ht[n]) = Size(c.ht[n])
             /\ \A x \in DOMAIN c.ht[n].table :
                  w.ht[n].table[x] = IF x = b THEN RemoveAt(c.ht[n].table[b], Place(c.ht[n].table[b], k))
                                     ELSE c.ht[n].table[x]
<1> DEFINE h == c.ht[n]
           b == Bucket(h, k)
           s == RemoveAt(h.table[b], Place(h.table[b], k))
           g == [table |-> [h.table EXCEPT ![b] = s], used |-> h.used - 1]
           w == Unlink(c, n, k)
<1>1. h \in HT /\ HtOK(h) /\ k \in KeysOf(h) /\ h.used - 1 = h.used + (-1)
  BY DEF DictOK, DictSet, HT
<1>2. b \in DOMAIN h.table /\ h.table[b] # << >> /\ Size(h) > 0
  <2>1. b \in DOMAIN h.table /\ Place(h.table[b], k) \in DOMAIN h.table[b] /\ Size(h) > 0
    BY <1>1, Where
  <2> QED BY <2>1
<1>3. /\ g \in HT /\ HtOK(g) /\ Size(g) = Size(h)
      /\ Elements(g) = {x \in Elements(h) : x.key # k}
      /\ \A x \in DOMAIN h.table : g.table[x] = IF x = b THEN s ELSE h.table[x]
  <2> HIDE DEF h
  <2> QED BY ONLY <1>1, EntryUnlinked
<1>4. KeysOf(g) \cap KeysOf(c.ht[1 - n]) = {} /\ KeysOf(g) \subseteq KeysOf(h) \ {k} /\ k \notin KeysOf(c.ht[1 - n])
  <2>1. KeysOf(g) \subseteq KeysOf(h) \ {k}
    <3> HIDE DEF g, h
    <3> QED BY <1>3 DEF KeysOf
  <2>2. KeysOf(h) \cap KeysOf(c.ht[1 - n]) = {}
    BY DEF DictOK
  <2> HIDE DEF g, h
  <2> QED BY <1>1, <2>1, <2>2
<1>5. n = 0 => \A x \in DOMAIN g.table : x <= c.rehashidx => g.table[x] = << >>
  <2> SUFFICES ASSUME n = 0, NEW x \in DOMAIN g.table, x <= c.rehashidx PROVE g.table[x] = << >>
    OBVIOUS
  <2>1. DOMAIN g.table = DOMAIN h.table /\ DOMAIN h.table = 1 .. Size(h)
    <3>1. DOMAIN h.table = 1 .. Size(h)
      BY <1>1 DEF HT, Size
    <3>2. DOMAIN g.table = 1 .. Size(g)
      <4> HIDE DEF g
      <4> QED BY <1>3 DEF HT, Size
    <3> QED BY <1>3, <3>1, <3>2
  <2>2. CASE c.rehashidx = -1
    BY <1>1, <2>1, <2>2 DEF HT, Size
  <2>3. CASE c.rehashidx # -1
    <3>1. h.table[x] = << >>
      BY <2>1, <2>3 DEF DictOK
    <3>2. x # b
      BY <1>2, <3>1
    <3> HIDE DEF g, h
    <3> QED BY <1>3, <2>1, <3>1, <3>2
  <2> QED BY <2>2, <2>3
<1>6. w = WithTable(c, n, g)
  BY <1>1 DEF Unlink, WithChain, WithTable
<1>7. DictOK(w) /\ Alike(w, c) /\ w.ht[n] = g /\ w.ht[1 - n] = c.ht[1 - n]
  <2>1. n = 1 => IsRehashing(c)
    <3>1. ASSUME n = 1, c.ht[1] = NoTable PROVE FALSE
      BY <1>2, <3>1, NoTableIs
    <3> QED BY <3>1 DEF DictOK, IsRehashing
  <2>3. /\ DictOK(c) /\ n \in {0, 1} /\ w = WithTable(c, n, g)
        /\ g \in HT /\ HtOK(g) /\ Size(g) = Size(c.ht[n])
        /\ KeysOf(g) \cap KeysOf(c.ht[1 - n]) = {}
        /\ n = 1 => IsRehashing(c)
        /\ n = 0 => \A x \in DOMAIN g.table : x <= c.rehashidx => g.table[x] = << >>
    BY <1>3, <1>4, <1>5, <1>6, <2>1
  <2> HIDE DEF w, b, s, g
  <2> QED BY ONLY <2>3, TableReplaced
<1> HIDE DEF w, g, b, s
<1>8. Content(w) = {e \in Content(c) : e.key # k}
  <2>1. \A e \in Elements(c.ht[1 - n]) : e.key # k
    BY <1>4 DEF KeysOf
  <2>2. CASE n = 0
    BY <1>3, <1>7, <2>1, <2>2 DEF Content
  <2>3. CASE n = 1
    BY <1>3, <1>7, <2>1, <2>3 DEF Content
  <2> QED BY <2>2, <2>3
<1>9. k \notin AllKeys(w)
  <2>1. CASE n = 0
    BY <1>4, <1>7, <2>1 DEF AllKeys
  <2>2. CASE n = 1
    BY <1>4, <1>7, <2>2 DEF AllKeys
  <2> QED BY <2>1, <2>2
<1> QED BY <1>3, <1>7, <1>8, <1>9 DEF b, w, s

\* An entry of key k, and a chain with it for the entry that has that key.
NewEntry(k, v) == [key |-> k, val |-> v]
Revalued(s, e) == [s EXCEPT ![Place(s, e.key)] = e]

LEMMA ValueSet ==
  ASSUME NEW c, DictOK(c), NEW n \in {0, 1}, NEW k \in KeysOf(c.ht[n]), NEW v \in Value
  PROVE  LET b == Bucket(c.ht[n], k)
             e == NewEntry(k, v)
             w == SetVal(c, n, k, v)
         IN  /\ DictOK(w) /\ Alike(w, c) /\ Content(w) = {x \in Content(c) : x.key # k} \cup {e}
             /\ w.ht[1 - n] = c.ht[1 - n] /\ Size(w.ht[n]) = Size(c.ht[n])
             /\ \A x \in DOMAIN c.ht[n].table :
                  w.ht[n].table[x] = IF x = b THEN Revalued(c.ht[n].table[b], e) ELSE c.ht[n].table[x]
<1> DEFINE h == c.ht[n]
           b == Bucket(h, k)
           e == [key |-> k, val |-> v]
           s == [h.table[b] EXCEPT ![Place(h.table[b], k)] = e]
           g == [table |-> [h.table EXCEPT ![b] = s], used |-> h.used + 0]
           w == SetVal(c, n, k, v)
<1>1. h \in HT /\ HtOK(h) /\ k \in KeysOf(h) /\ v \in Value
  BY DEF DictOK, DictSet, HT
<1>2. b \in DOMAIN h.table /\ h.table[b] # << >> /\ Size(h) > 0
  <2>1. b \in DOMAIN h.table /\ Place(h.table[b], k) \in DOMAIN h.table[b] /\ Size(h) > 0
    BY <1>1, Where
  <2> QED BY <2>1
<1>3. /\ g \in HT /\ HtOK(g) /\ Size(g) = Size(h)
      /\ Elements(g) = {x \in Elements(h) : x.key # k} \cup {e}
      /\ \A x \in DOMAIN h.table : g.table[x] = IF x = b THEN s ELSE h.table[x]
  <2> HIDE DEF h
  <2> QED BY ONLY <1>1, EntryChanged
<1>e. e.key = k
  OBVIOUS
<1> HIDE DEF e
<1>4. KeysOf(g) \cap KeysOf(c.ht[1 - n]) = {} /\ k \notin KeysOf(c.ht[1 - n])
  <2>1. KeysOf(g) \subseteq KeysOf(h)
    <3> HIDE DEF g, h
    <3> QED BY <1>1, <1>3, <1>e DEF KeysOf
  <2>2. KeysOf(h) \cap KeysOf(c.ht[1 - n]) = {}
    BY DEF DictOK
  <2> HIDE DEF g, h
  <2> QED BY <1>1, <2>1, <2>2
<1>5. n = 0 => \A x \in DOMAIN g.table : x <= c.rehashidx => g.table[x] = << >>
  <2> SUFFICES ASSUME n = 0, NEW x \in DOMAIN g.table, x <= c.rehashidx PROVE g.table[x] = << >>
    OBVIOUS
  <2>1. DOMAIN g.table = DOMAIN h.table /\ DOMAIN h.table = 1 .. Size(h)
    <3>1. DOMAIN h.table = 1 .. Size(h)
      BY <1>1 DEF HT, Size
    <3>2. DOMAIN g.table = 1 .. Size(g)
      <4> HIDE DEF g
      <4> QED BY <1>3 DEF HT, Size
    <3> QED BY <1>3, <3>1, <3>2
  <2>2. CASE c.rehashidx = -1
    BY <1>1, <2>1, <2>2 DEF HT, Size
  <2>3. CASE c.rehashidx # -1
    <3>1. h.table[x] = << >>
      BY <2>1, <2>3 DEF DictOK
    <3>2. x # b
      BY <1>2, <3>1
    <3> HIDE DEF g, h
    <3> QED BY <1>3, <2>1, <3>1, <3>2
  <2> QED BY <2>2, <2>3
<1>6. w = WithTable(c, n, g)
  BY DEF SetVal, WithChain, WithTable, e
<1>7. DictOK(w) /\ Alike(w, c) /\ w.ht[n] = g /\ w.ht[1 - n] = c.ht[1 - n]
  <2>1. n = 1 => IsRehashing(c)
    <3>1. ASSUME n = 1, c.ht[1] = NoTable PROVE FALSE
      BY <1>2, <3>1, NoTableIs
    <3> QED BY <3>1 DEF DictOK, IsRehashing
  <2>2. /\ DictOK(c) /\ n \in {0, 1} /\ w = WithTable(c, n, g)
        /\ g \in HT /\ HtOK(g) /\ Size(g) = Size(c.ht[n])
        /\ KeysOf(g) \cap KeysOf(c.ht[1 - n]) = {}
        /\ n = 1 => IsRehashing(c)
        /\ n = 0 => \A x \in DOMAIN g.table : x <= c.rehashidx => g.table[x] = << >>
    BY <1>3, <1>4, <1>5, <1>6, <2>1
  <2> HIDE DEF w, b, s, g
  <2> QED BY ONLY <2>2, TableReplaced
<1> HIDE DEF w, g, b, s
<1>8. Content(w) = {x \in Content(c) : x.key # k} \cup {e}
  <2>1. \A x \in Elements(c.ht[1 - n]) : x.key # k
    BY <1>4 DEF KeysOf
  <2>2. CASE n = 0
    BY <1>3, <1>7, <2>1, <2>2 DEF Content
  <2>3. CASE n = 1
    BY <1>3, <1>7, <2>1, <2>3 DEF Content
  <2> QED BY <2>2, <2>3
<1>9. e = NewEntry(k, v) /\ s = Revalued(h.table[b], e)
  <2>1. s = Revalued(h.table[b], e)
    BY <1>e DEF s, Revalued
  <2> QED BY <2>1 DEF e, NewEntry
<1> QED BY <1>3, <1>7, <1>8, <1>9 DEF b, w

\* A search finds a key in the table that has it.
LEMMA Located ==
  ASSUME NEW c, DictOK(c), NEW k \in Key
  PROVE  /\ TableOf(c, k) = -1 <=> k \notin AllKeys(c)
         /\ TableOf(c, k) # -1 => TableOf(c, k) \in {0, 1} /\ k \in KeysOf(c.ht[TableOf(c, k)])
<1> DEFINE hits == {n \in Tables(c) : Size(c.ht[n]) > 0 /\ InChain(ChainOf(c.ht[n], k), k)}
<1>1. \A n \in {0, 1} : k \in KeysOf(c.ht[n]) <=> Size(c.ht[n]) > 0 /\ InChain(ChainOf(c.ht[n], k), k)
  BY Nowhere DEF DictOK, DictSet
<1>2. Tables(c) \subseteq {0, 1} /\ (1 \notin Tables(c) => KeysOf(c.ht[1]) = {}) /\ 0 \in Tables(c)
  BY NoTableIs DEF Tables, IsRehashing, DictOK
<1>3. hits = {n \in {0, 1} : k \in KeysOf(c.ht[n])}
  BY <1>1, <1>2
<1>4. TableOf(c, k) = IF hits = {} THEN -1 ELSE Min(hits)
  BY DEF TableOf
<1> HIDE DEF hits
<1>5. hits # {} => Min(hits) \in hits
  <2>1. hits \subseteq Nat
    BY <1>3
  <2> QED BY <2>1, LeastNumber
<1>6. hits = {} <=> k \notin AllKeys(c)
  BY <1>3 DEF AllKeys
<1>7. hits # {} => Min(hits) # -1
  BY <1>3, <1>5
<1> QED BY <1>3, <1>4, <1>5, <1>6, <1>7

-----------------------------------------------------------------------------
(* Recursive functions *)

\* f has the value a at 0, and each value after that from the one before.
Iterates(f, m, a, G) == f = [n \in 0 .. m |-> IF n = 0 THEN a ELSE G[f[n - 1]]]

\* A function that is defined by recursion exists, as long as every value leads to a next one.
LEMMA Iteration ==
  ASSUME NEW m \in Nat, NEW V, NEW a \in V[0], NEW G,
         \A n \in 0 .. m - 1 : \A x \in V[n] : G[x] \in V[n + 1]
  PROVE  \E f : Iterates(f, m, a, G) /\ \A n \in 0 .. m : f[n] \in V[n]
<1> DEFINE Is(f, k) == f = [n \in 0 .. k |-> IF n = 0 THEN a ELSE G[f[n - 1]]] /\ \A n \in 0 .. k : f[n] \in V[n]
           S == {k \in Nat : k <= m => \E f : Is(f, k)}
<1>1. 0 \in S
  <2> DEFINE f == [n \in 0 .. 0 |-> a]
  <2>1. f = [n \in 0 .. 0 |-> IF n = 0 THEN a ELSE G[f[n - 1]]] /\ \A n \in 0 .. 0 : f[n] \in V[n]
    OBVIOUS
  <2> HIDE DEF f
  <2> QED BY <2>1
<1>2. ASSUME NEW k \in Nat, k \in S PROVE k + 1 \in S
  <2> SUFFICES ASSUME k + 1 <= m PROVE \E f : Is(f, k + 1)
    OBVIOUS
  <2>1. PICK g : Is(g, k)
    BY <1>2
  <2> DEFINE f == [n \in 0 .. k + 1 |-> IF n = k + 1 THEN G[g[k]] ELSE g[n]]
  <2>2. ASSUME NEW n \in 0 .. k + 1
        PROVE  f[n] = (IF n = 0 THEN a ELSE G[f[n - 1]]) /\ f[n] \in V[n]
    <3>1. CASE n = k + 1
      <4>1. f[n] = G[g[k]] /\ f[k] = g[k] /\ g[k] \in V[k]
        BY <2>1, <3>1
      <4>2. n # 0 /\ n - 1 = k /\ k \in 0 .. m - 1
        BY <3>1
      <4> HIDE DEF f
      <4> QED BY <3>1, <4>1, <4>2
    <3>2. CASE n \in 0 .. k
      <4>1. f[n] = g[n] /\ (n # 0 => f[n - 1] = g[n - 1])
        BY <3>2
      <4>2. g[n] = (IF n = 0 THEN a ELSE G[g[n - 1]]) /\ g[n] \in V[n]
        BY <2>1, <3>2
      <4> HIDE DEF f
      <4> QED BY <4>1, <4>2
    <3> QED BY <3>1, <3>2
  <2>3. f = [n \in 0 .. k + 1 |-> f[n]]
    OBVIOUS
  <2> HIDE DEF f
  <2>4. Is(f, k + 1)
    BY <2>2, <2>3
  <2> QED BY <2>4
<1>3. Nat \subseteq S
  <2> HIDE DEF S
  <2> QED BY <1>1, <1>2, NumberInduction
<1>4. m \in S
  BY <1>3
<1> QED BY <1>4 DEF Iterates

\* What each step of such a function keeps, its last value has.
LEMMA StepByStep ==
  ASSUME NEW m \in Nat, NEW V, NEW f, f[0] \in V[0],
         \A n \in 0 .. m - 1 : f[n] \in V[n] => f[n + 1] \in V[n + 1]
  PROVE  \A n \in 0 .. m : f[n] \in V[n]
<1> DEFINE S == {k \in Nat : k <= m => f[k] \in V[k]}
<1>1. 0 \in S
  OBVIOUS
<1>2. ASSUME NEW k \in Nat, k \in S PROVE k + 1 \in S
  BY <1>2
<1>3. Nat \subseteq S
  <2> HIDE DEF S
  <2> QED BY <1>1, <1>2, NumberInduction
<1> QED BY <1>3

\* Each value is larger than its number.
LEMMA Doubled ==
  ASSUME NEW size \in Nat
  PROVE  _dictNextPower(size) \in Nat \ {0}
<1> DEFINE Is(f) == f = [n \in 0 .. size |-> IF n = 0 THEN DICT_HT_INITIAL_SIZE ELSE 2 * f[n - 1]]
           f == CHOOSE g : Is(g)
           V == [n \in Nat |-> {x \in Nat : x >= n + 1}]
           G == [x \in Nat |-> 2 * x]
<1>1. \E g : Is(g)
  <2>1. DICT_HT_INITIAL_SIZE \in V[0]
    BY DictSizeAssumption
  <2>2. \A n \in 0 .. size - 1 : \A x \in V[n] : G[x] \in V[n + 1]
    OBVIOUS
  <2>3. \E g : Iterates(g, size, DICT_HT_INITIAL_SIZE, G) /\ \A n \in 0 .. size : g[n] \in V[n]
    <3> HIDE DEF V, G
    <3> QED BY <2>1, <2>2, Iteration
  <2>4. PICK g : g = [n \in 0 .. size |-> IF n = 0 THEN DICT_HT_INITIAL_SIZE ELSE G[g[n - 1]]] /\ \A n \in 0 .. size : g[n] \in V[n]
    BY <2>3 DEF Iterates
  <2>6. \A n \in 0 .. size : n # 0 => G[g[n - 1]] = 2 * g[n - 1]
    <3> TAKE n \in 0 .. size
    <3>1. ASSUME n # 0 PROVE g[n - 1] \in V[n - 1]
      <4>1. n - 1 \in 0 .. size
        BY <3>1
      <4> HIDE DEF V
      <4> QED BY <2>4, <4>1
    <3>2. \A i \in Nat : V[i] \subseteq Nat
      OBVIOUS
    <3>3. n # 0 => n - 1 \in Nat
      OBVIOUS
    <3> HIDE DEF V
    <3> QED BY <3>1, <3>2, <3>3
  <2>5. g = [n \in 0 .. size |-> IF n = 0 THEN DICT_HT_INITIAL_SIZE ELSE 2 * g[n - 1]]
    <3> HIDE DEF G, V
    <3> QED BY <2>4, <2>6
  <2> QED BY <2>5
<1>2. Is(f)
  <2> HIDE DEF Is
  <2> QED BY <1>1
<1>3. _dictNextPower(size) = f[Min({n \in 0 .. size : f[n] >= size})]
  BY DEF _dictNextPower
<1> HIDE DEF f
<1>4. \A n \in 0 .. size : f[n] \in V[n]
  <2>1. f[0] \in V[0]
    BY <1>2, DictSizeAssumption
  <2>2. ASSUME NEW n \in 0 .. size - 1, f[n] \in V[n] PROVE f[n + 1] \in V[n + 1]
    <3>1. f[n + 1] = 2 * f[n]
      BY <1>2
    <3> QED BY <2>2, <3>1
  <2> HIDE DEF V
  <2> QED BY <2>1, <2>2, StepByStep
<1> DEFINE T == {n \in 0 .. size : f[n] >= size}
<1>5. Min(T) \in T
  <2>1. size \in T
    BY <1>4
  <2>2. T \subseteq Nat
    OBVIOUS
  <2> HIDE DEF T
  <2> QED BY <2>1, <2>2, LeastNumber
<1> QED BY <1>3, <1>4, <1>5

-----------------------------------------------------------------------------
(* Moving entries *)

\* No key has two entries.
LEMMA OneEntry ==
  ASSUME NEW h \in HT, HtOK(h), NEW x \in Elements(h), NEW y \in Elements(h), x.key = y.key
  PROVE  x = y
<1>1. PICK b \in DOMAIN h.table : \E p \in DOMAIN h.table[b] : h.table[b][p] = x
  BY ElementOf
<1>2. PICK p \in DOMAIN h.table[b] : h.table[b][p] = x
  BY <1>1
<1>3. PICK w \in DOMAIN h.table : \E q \in DOMAIN h.table[w] : h.table[w][q] = y
  BY ElementOf
<1>4. PICK q \in DOMAIN h.table[w] : h.table[w][q] = y
  BY <1>3
<1>5. w = b
  BY <1>2, <1>4 DEF HtOK, ChainOK
<1> QED BY <1>2, <1>4, <1>5 DEF HtOK, ChainOK, NoRepeat

LEMMA OneContent ==
  ASSUME NEW c, DictOK(c), NEW x \in Content(c), NEW y \in Content(c), x.key = y.key
  PROVE  x = y
<1>1. c.ht[0] \in HT /\ c.ht[1] \in HT
  BY DEF DictOK, DictSet
<1>2. \A n \in {0, 1} : \A e \in Elements(c.ht[n]) : e.key \in KeysOf(c.ht[n])
  BY DEF KeysOf
<1>3. ASSUME NEW n \in {0, 1}, x \in Elements(c.ht[n]) PROVE y \in Elements(c.ht[n])
  BY <1>2, <1>3 DEF Content, DictOK
<1> QED BY <1>1, <1>3, OneEntry DEF Content, DictOK

\* The head of a chain moves to the other table.
LEMMA MovedHead ==
  ASSUME NEW c, DictOK(c), IsRehashing(c), NEW b \in DOMAIN c.ht[0].table, c.ht[0].table[b] # << >>
  PROVE  LET w == MoveHead(c, b)
         IN  /\ DictOK(w) /\ Alike(w, c) /\ Content(w) = Content(c)
             /\ Size(w.ht[0]) = Size(c.ht[0]) /\ Size(w.ht[1]) = Size(c.ht[1])
             /\ Len(w.ht[0].table[b]) = Len(c.ht[0].table[b]) - 1
             /\ \A x \in DOMAIN c.ht[0].table \ {b} : w.ht[0].table[x] = c.ht[0].table[x]
<1> DEFINE h == c.ht[0]
           s == h.table[b]
           e == Head(s)
           u == Unlink(c, 0, e.key)
           w == Insert(u, 1, e)
<1>1. h \in HT /\ HtOK(h) /\ s \in Chain /\ NoRepeat(s)
  BY DEF DictOK, DictSet, HT, HtOK, ChainOK
<1>2. 1 \in DOMAIN s /\ e = s[1] /\ Len(s) \in Nat
  BY <1>1 DEF Chain
<1>3. e \in Elements(h) /\ e \in Entry /\ e.key \in KeysOf(h) /\ Bucket(h, e.key) = b
  BY <1>1, <1>2, ElementOf DEF HtOK, ChainOK
<1>4. Place(s, e.key) = 1
  BY <1>1, <1>2, Placed
<1> HIDE DEF e, u, h
<1>5. /\ DictOK(u) /\ Alike(u, c) /\ Content(u) = {x \in Content(c) : x.key # e.key}
      /\ e.key \notin AllKeys(u)
      /\ u.ht[1] = c.ht[1] /\ Size(u.ht[0]) = Size(c.ht[0])
      /\ \A x \in DOMAIN h.table : u.ht[0].table[x] = IF x = b THEN RemoveAt(s, 1) ELSE h.table[x]
  <2>1. DictOK(c) /\ 0 \in {0, 1} /\ e.key \in KeysOf(c.ht[0])
    BY <1>3 DEF h
  <2>2. u = Unlink(c, 0, e.key) /\ 1 - 0 = 1
    BY DEF u
  <2>3. LET w0 == Unlink(c, 0, e.key)
        IN  /\ DictOK(w0) /\ Alike(w0, c) /\ Content(w0) = {x \in Content(c) : x.key # e.key}
            /\ e.key \notin AllKeys(w0)
            /\ w0.ht[1 - 0] = c.ht[1 - 0] /\ Size(w0.ht[0]) = Size(c.ht[0])
            /\ \A x \in DOMAIN c.ht[0].table :
                 w0.ht[0].table[x] = IF x = Bucket(c.ht[0], e.key)
                                     THEN RemoveAt(c.ht[0].table[Bucket(c.ht[0], e.key)], Place(c.ht[0].table[Bucket(c.ht[0], e.key)], e.key))
                                     ELSE c.ht[0].table[x]
    BY ONLY <2>1, Unlinked
  <2> QED BY <1>3, <1>4, <2>2, <2>3 DEF h
<1>6. Len(RemoveAt(s, 1)) = Len(s) - 1
  BY <1>1, <1>2, Dropped
<1>7. IsRehashing(u) /\ AddTo(u) = 1 /\ Size(u.ht[1]) > 0
  BY <1>5 DEF IsRehashing, AddTo, Alike, DictOK
<1>8. /\ DictOK(w) /\ Alike(w, u) /\ Content(w) = Content(u) \cup {e}
      /\ w.ht[0] = u.ht[0] /\ Size(w.ht[1]) = Size(u.ht[1])
  <2>1. DictOK(u) /\ e \in Entry /\ e.key \notin AllKeys(u) /\ Size(u.ht[AddTo(u)]) > 0
    BY <1>3, <1>5, <1>7
  <2>2. LET n == AddTo(u)
            w0 == Insert(u, n, e)
        IN  /\ DictOK(w0) /\ Alike(w0, u) /\ Content(w0) = Content(u) \cup {e}
            /\ w0.ht[1 - n] = u.ht[1 - n] /\ Size(w0.ht[n]) = Size(u.ht[n])
    BY ONLY <2>1, Inserted
  <2>3. 1 - 1 = 0
    OBVIOUS
  <2> QED BY <1>7, <2>2, <2>3
<1>9. Content(w) = Content(c)
  <2>1. e \in Content(c)
    BY <1>3 DEF Content, h
  <2> QED BY <1>5, <1>8, <2>1, OneContent
<1>10. w = MoveHead(c, b)
  BY DEF MoveHead, u, e, h
<1> HIDE DEF w
<1> QED BY <1>5, <1>6, <1>8, <1>9, <1>10 DEF Alike, h

-----------------------------------------------------------------------------
(* Rehashing *)

\* What moving entries about does not change.
Kept(w, c) == DictOK(w) /\ Content(w) = Content(c) /\ w.iterators = c.iterators /\ (Size(c.ht[0]) > 0 => Size(w.ht[0]) > 0)

\* The bucket that moves next.
LEMMA NextBucket ==
  ASSUME NEW c, DictOK(c), IsRehashing(c), c.ht[0].used # 0
  PROVE  LET b == Min({n \in c.rehashidx + 1 .. Size(c.ht[0]) : c.ht[0].table[n] # << >>})
         IN  /\ b \in DOMAIN c.ht[0].table /\ c.ht[0].table[b] # << >>
             /\ \A x \in DOMAIN c.ht[0].table : x < b => c.ht[0].table[x] = << >>
<1> DEFINE h == c.ht[0]
           T == {n \in c.rehashidx + 1 .. Size(h) : h.table[n] # << >>}
<1>1. h \in HT /\ HtOK(h) /\ c.rehashidx \in Nat
  BY DEF DictOK, DictSet, IsRehashing
<1>2. Size(h) \in Nat /\ DOMAIN h.table = 1 .. Size(h)
  BY <1>1 DEF HT, Size
<1>3. \A x \in DOMAIN h.table : x <= c.rehashidx => h.table[x] = << >>
  BY DEF DictOK, IsRehashing
<1>4. PICK k : k \in KeysOf(h)
  BY <1>1, FS_EmptySet DEF HtOK
<1>5. Bucket(h, k) \in DOMAIN h.table /\ h.table[Bucket(h, k)] # << >>
  <2>1. Bucket(h, k) \in DOMAIN h.table /\ Place(h.table[Bucket(h, k)], k) \in DOMAIN h.table[Bucket(h, k)]
    BY <1>1, <1>4, Where
  <2> QED BY <2>1
<1> HIDE DEF h
<1>6. T \subseteq Nat /\ Bucket(h, k) \in T
  BY <1>1, <1>2, <1>3, <1>5
<1>7. Min(T) \in T /\ \A n \in T : Min(T) <= n
  <2> HIDE DEF T
  <2> QED BY <1>6, LeastNumber
<1>8. \A x \in DOMAIN h.table : x < Min(T) => h.table[x] = << >>
  <2> SUFFICES ASSUME NEW x \in DOMAIN h.table, x < Min(T), h.table[x] # << >> PROVE FALSE
    OBVIOUS
  <2>1. x \in T
    BY <1>1, <1>2, <1>3
  <2>2. x \in Nat /\ Min(T) \in Nat /\ Min(T) <= x
    BY <1>6, <1>7, <2>1
  <2> HIDE DEF T
  <2> QED BY <2>2
<1>9. Min(T) \in DOMAIN h.table /\ h.table[Min(T)] # << >>
  BY <1>1, <1>2, <1>7
<1> QED BY <1>8, <1>9 DEF h

\* A bucket is moved entry by entry.
LEMMA BucketMoved ==
  ASSUME NEW c, DictOK(c), IsRehashing(c), c.ht[0].used # 0
  PROVE  LET w == RehashBucket(c) IN Kept(w, c)
<1> DEFINE h == c.ht[0]
           b == Min({n \in c.rehashidx + 1 .. Size(h) : h.table[n] # << >>})
           m == Len(h.table[b])
           Is(f) == f = [k \in 0 .. m |-> IF k = 0 THEN c ELSE MoveHead(f[k - 1], b)]
           f == CHOOSE g : Is(g)
           V == [n \in 0 .. m |-> {x \in DictSet :
                   /\ DictOK(x) /\ Alike(x, c) /\ Content(x) = Content(c)
                   /\ Size(x.ht[0]) = Size(h)
                   /\ Len(x.ht[0].table[b]) = m - n
                   /\ \A y \in DOMAIN h.table \ {b} : x.ht[0].table[y] = h.table[y]}]
           G == [x \in DictSet |-> MoveHead(x, b)]
<1>1. /\ b \in DOMAIN h.table /\ h.table[b] # << >>
      /\ \A x \in DOMAIN h.table : x < b => h.table[x] = << >>
  BY NextBucket
<1>2. h \in HT /\ m \in Nat /\ DOMAIN h.table = 1 .. Size(h) /\ Size(h) \in Nat
  <2>1. h \in HT
    BY DEF DictOK, DictSet
  <2>2. h.table[b] \in Chain
    <3>1. \A x \in DOMAIN h.table : h.table[x] \in Chain
      BY <2>1 DEF HT
    <3> HIDE DEF b
    <3> QED BY <1>1, <3>1
  <2> QED BY <2>1, <2>2 DEF Chain, HT, Size
<1>3. RehashBucket(c) = [f[m] EXCEPT !.rehashidx = b]
  BY DEF RehashBucket
<1> HIDE DEF h, b, m
<1>4. c \in V[0]
  BY <1>2 DEF DictOK, Alike, h, m
<1>5. ASSUME NEW n \in 0 .. m - 1, NEW x \in V[n] PROVE MoveHead(x, b) \in V[n + 1]
  <2>1. /\ x \in DictSet /\ DictOK(x) /\ Alike(x, c) /\ Content(x) = Content(c)
        /\ Size(x.ht[0]) = Size(h) /\ Len(x.ht[0].table[b]) = m - n
        /\ \A y \in DOMAIN h.table \ {b} : x.ht[0].table[y] = h.table[y]
    BY <1>2, <1>5
  <2>2. DOMAIN x.ht[0].table = 1 .. Size(h)
    BY <2>1 DEF DictSet, HT, Size
  <2>3. IsRehashing(x) /\ b \in DOMAIN x.ht[0].table /\ x.ht[0].table[b] # << >>
    BY <1>1, <1>2, <2>1, <2>2 DEF IsRehashing, Alike
  <2>4. /\ DictOK(MoveHead(x, b)) /\ Alike(MoveHead(x, b), x) /\ Content(MoveHead(x, b)) = Content(x)
        /\ Size(MoveHead(x, b).ht[0]) = Size(x.ht[0])
        /\ Len(MoveHead(x, b).ht[0].table[b]) = Len(x.ht[0].table[b]) - 1
        /\ \A y \in DOMAIN x.ht[0].table \ {b} : MoveHead(x, b).ht[0].table[y] = x.ht[0].table[y]
    <3>1. DictOK(x)
      BY <2>1
    <3> QED BY ONLY <2>3, <3>1, MovedHead
  <2> DEFINE w == MoveHead(x, b)
  <2>5. /\ w \in DictSet /\ DictOK(w) /\ Alike(w, c) /\ Content(w) = Content(c)
        /\ Size(w.ht[0]) = Size(h) /\ Len(w.ht[0].table[b]) = m - (n + 1)
        /\ \A y \in DOMAIN h.table \ {b} : w.ht[0].table[y] = h.table[y]
    <3>1. w \in DictSet
      BY <2>4 DEF DictOK
    <3>2. Alike(w, c)
      BY <2>1, <2>4 DEF Alike
    <3>3. Len(w.ht[0].table[b]) = m - (n + 1)
      <4> HIDE DEF w
      <4> QED BY <1>2, <2>1, <2>4 DEF w
    <3> QED BY <1>2, <2>1, <2>2, <2>4, <3>1, <3>2, <3>3
  <2> HIDE DEF w
  <2>6. n + 1 \in 0 .. m
    BY <1>2
  <2> QED BY <2>5, <2>6 DEF w
<1>6. \E g : Is(g)
  <2>1. \A n \in 0 .. m - 1 : \A x \in V[n] : G[x] \in V[n + 1]
    <3>1. \A n \in 0 .. m - 1 : \A x \in V[n] : x \in DictSet
      BY <1>2
    <3> HIDE DEF V
    <3> QED BY <1>5, <3>1
  <2>2. \E g : Iterates(g, m, c, G) /\ \A n \in 0 .. m : g[n] \in V[n]
    <3> HIDE DEF V, G
    <3> QED BY <1>2, <1>4, <2>1, Iteration
  <2>3. PICK g : g = [n \in 0 .. m |-> IF n = 0 THEN c ELSE G[g[n - 1]]] /\ \A n \in 0 .. m : g[n] \in V[n]
    BY <2>2 DEF Iterates
  <2>4. \A n \in 0 .. m : n # 0 => G[g[n - 1]] = MoveHead(g[n - 1], b)
    <3> TAKE n \in 0 .. m
    <3>1. ASSUME n # 0 PROVE g[n - 1] \in DictSet
      <4>1. n - 1 \in 0 .. m
        BY <1>2, <3>1
      <4>2. g[n - 1] \in V[n - 1]
        BY <2>3, <4>1
      <4> QED BY <4>1, <4>2
    <3> QED BY <3>1
  <2>5. g = [n \in 0 .. m |-> IF n = 0 THEN c ELSE MoveHead(g[n - 1], b)]
    <3> HIDE DEF V, G
    <3> QED BY <2>3, <2>4
  <2> QED BY <2>5
<1>7. Is(f)
  <2> HIDE DEF Is
  <2> QED BY <1>6
<1> HIDE DEF f
<1>8. \A n \in 0 .. m : f[n] \in V[n]
  <2>1. f[0] \in V[0]
    <3> HIDE DEF V
    <3> QED BY <1>2, <1>4, <1>7
  <2>2. ASSUME NEW n \in 0 .. m - 1, f[n] \in V[n] PROVE f[n + 1] \in V[n + 1]
    <3>1. f[n + 1] = MoveHead(f[n], b)
      <4>1. n + 1 \in 0 .. m /\ n + 1 # 0 /\ (n + 1) - 1 = n
        BY <1>2
      <4> HIDE DEF V, G
      <4> QED BY <1>7, <4>1
    <3> HIDE DEF V
    <3> QED BY <1>5, <2>2, <3>1
  <2> HIDE DEF V
  <2> QED BY <1>2, <2>1, <2>2, StepByStep
<1> DEFINE x == f[m]
           w == [x EXCEPT !.rehashidx = b]
<1>9. /\ x \in DictSet /\ DictOK(x) /\ Alike(x, c) /\ Content(x) = Content(c)
      /\ Size(x.ht[0]) = Size(h) /\ Len(x.ht[0].table[b]) = m - m
      /\ \A y \in DOMAIN h.table \ {b} : x.ht[0].table[y] = h.table[y]
  <2>1. x \in V[m] /\ m \in 0 .. m
    <3>1. m \in 0 .. m
      BY <1>2
    <3> HIDE DEF V, G
    <3> QED BY <1>8, <3>1
  <2> HIDE DEF x
  <2> QED BY <2>1
<1> HIDE DEF x, V, G
<1>10. w.ht = x.ht /\ w.rehashidx = b /\ w.iterators = x.iterators /\ w \in DictSet
  BY <1>1, <1>2, <1>9 DEF DictSet
<1>11. \A y \in DOMAIN x.ht[0].table : y <= b => x.ht[0].table[y] = << >>
  <2> TAKE y \in DOMAIN x.ht[0].table
  <2>1. x.ht[0].table \in Seq(Chain) /\ DOMAIN x.ht[0].table = DOMAIN h.table
    BY <1>2, <1>9 DEF DictSet, HT, Size
  <2>2. CASE y = b
    <3>1. x.ht[0].table[b] \in Chain /\ Len(x.ht[0].table[b]) = 0
      BY <1>1, <1>2, <1>9, <2>1
    <3> QED BY <2>2, <3>1 DEF Chain
  <2>3. CASE y # b
    BY <1>1, <1>2, <1>9, <2>1, <2>3
  <2> QED BY <2>2, <2>3
<1> HIDE DEF w
<1>12. DictOK(w)
  <2>1. b # -1 /\ b \in 0 .. Size(w.ht[0])
    BY <1>1, <1>2, <1>9, <1>10
  <2>2. Size(w.ht[0]) > 0 /\ Size(w.ht[1]) > 0
    BY <1>9, <1>10 DEF DictOK, Alike, IsRehashing
  <2> QED BY <1>9, <1>10, <1>11, <2>1, <2>2 DEF DictOK
<1> QED BY <1>3, <1>9, <1>10, <1>12 DEF Kept, Content, Alike, w, x, h

\* The old table is empty and given up.
LEMMA RehashDone ==
  ASSUME NEW c, DictOK(c), IsRehashing(c), c.ht[0].used = 0
  PROVE  Kept(RehashBucket(c), c)
<1> DEFINE w == RehashBucket(c)
<1>1. w = [ht |-> [n \in {0, 1} |-> IF n = 0 THEN c.ht[1] ELSE NoTable], rehashidx |-> -1, iterators |-> c.iterators]
  BY DEF RehashBucket
<1> HIDE DEF w
<1>2. w.ht[0] = c.ht[1] /\ w.ht[1] = NoTable /\ w.rehashidx = -1 /\ w.iterators = c.iterators
  BY <1>1
<1>3. c.ht[0] \in HT /\ c.ht[1] \in HT /\ c.iterators \in Nat /\ HtOK(c.ht[0]) /\ HtOK(c.ht[1]) /\ Size(c.ht[1]) > 0
  BY DEF DictOK, DictSet, IsRehashing
<1>4. w \in DictSet
  BY <1>1, <1>3, NoTableIs DEF DictSet
<1>5. DictOK(w)
  BY <1>2, <1>3, <1>4, NoTableIs DEF DictOK
<1>6. Elements(c.ht[0]) = {}
  <2>1. KeysOf(c.ht[0]) = {}
    BY <1>3, FS_EmptySet DEF HtOK
  <2> QED BY <2>1 DEF KeysOf
<1> QED BY <1>2, <1>3, <1>5, <1>6, NoTableIs DEF Kept, Content, w

LEMMA KeptTwice ==
  ASSUME NEW u, NEW w, NEW c, Kept(u, c), Kept(w, u)
  PROVE  Kept(w, c)
BY DEF Kept

LEMMA Rehashed ==
  ASSUME NEW c, DictOK(c), NEW n \in Nat
  PROVE  Kept(dictRehash(c, n), c)
<1> DEFINE Step(x) == IF IsRehashing(x) THEN RehashBucket(x) ELSE x
           Is(f) == f = [k \in 0 .. n |-> IF k = 0 THEN c ELSE Step(f[k - 1])]
           f == CHOOSE g : Is(g)
           K == {x \in DictSet : Kept(x, c)}
           V == [k \in 0 .. n |-> K]
           G == [x \in K |-> Step(x)]
<1>1. dictRehash(c, n) = f[n]
  BY DEF dictRehash
<1>2. c \in K
  BY DEF Kept, DictOK
<1>3. ASSUME NEW x \in K PROVE Step(x) \in K
  <2>1. DictOK(x) /\ Kept(x, c)
    BY DEF Kept
  <2>2. Kept(Step(x), x)
    <3>1. CASE IsRehashing(x)
      BY <2>1, <3>1, BucketMoved, RehashDone
    <3>2. CASE ~IsRehashing(x)
      BY <2>1, <3>2 DEF Kept
    <3> QED BY <3>1, <3>2
  <2>3. Kept(Step(x), c)
    <3> HIDE DEF Step
    <3> QED BY <2>1, <2>2, KeptTwice
  <2> QED BY <2>3 DEF Kept, DictOK
<1> HIDE DEF Step, K
<1>4. \E g : Is(g)
  <2>1. \E g : Iterates(g, n, c, G) /\ \A k \in 0 .. n : g[k] \in V[k]
    <3>1. c \in V[0] /\ \A k \in 0 .. n - 1 : \A x \in V[k] : G[x] \in V[k + 1]
      BY <1>2, <1>3
    <3> HIDE DEF V, G
    <3> QED BY <3>1, Iteration
  <2>2. PICK g : g = [k \in 0 .. n |-> IF k = 0 THEN c ELSE G[g[k - 1]]] /\ \A k \in 0 .. n : g[k] \in V[k]
    BY <2>1 DEF Iterates
  <2>3. \A k \in 0 .. n : k # 0 => G[g[k - 1]] = Step(g[k - 1])
    <3> TAKE k \in 0 .. n
    <3>1. ASSUME k # 0 PROVE g[k - 1] \in K
      <4>1. k - 1 \in 0 .. n
        BY <3>1
      <4> QED BY <2>2, <4>1
    <3> QED BY <3>1
  <2> HIDE DEF V, G
  <2> QED BY <2>2, <2>3
<1>5. Is(f)
  <2> HIDE DEF Is
  <2> QED BY <1>4
<1> HIDE DEF f
<1>6. \A k \in 0 .. n : f[k] \in V[k]
  <2>1. f[0] \in V[0]
    BY <1>2, <1>5
  <2>2. ASSUME NEW k \in 0 .. n - 1, f[k] \in V[k] PROVE f[k + 1] \in V[k + 1]
    BY <1>3, <1>5, <2>2
  <2> HIDE DEF V
  <2> QED BY <2>1, <2>2, StepByStep
<1> QED BY <1>1, <1>6 DEF K

-----------------------------------------------------------------------------
(* Growing *)

LEMMA NoKeys ==
  ASSUME NEW h \in HT, Size(h) = 0
  PROVE  Elements(h) = {} /\ KeysOf(h) = {}
<1>1. DOMAIN h.table = {}
  BY DEF HT, Size
<1> QED BY <1>1 DEF Elements, KeysOf

LEMMA LargerOfTwo ==
  ASSUME NEW a \in Nat, NEW b \in Nat
  PROVE  Max({a, b}) \in Nat /\ Max({a, b}) >= a /\ Max({a, b}) >= b
<1>1. a + b \in Nat /\ {a, b} \subseteq 0 .. a + b /\ {a, b} # {}
  OBVIOUS
<1>2. Max({a, b}) \in {a, b} /\ \A n \in {a, b} : n <= Max({a, b})
  BY ONLY <1>1, GreatestNumber
<1> QED BY <1>2

\* What dictExpand does to the tables.
Grown(w, c) ==
  \/ w = c
  \/ Size(c.ht[0]) = 0
  \/ /\ c.rehashidx = -1 /\ w.rehashidx = 0
     /\ w.ht[0] = c.ht[0] /\ KeysOf(w.ht[1]) = {}

LEMMA Expanded ==
  ASSUME NEW c, DictOK(c), NEW size \in Nat
  PROVE  LET w == dictExpand(c, size)
         IN  /\ Kept(w, c) /\ Grown(w, c)
             /\ c.ht[0].used <= size => Size(w.ht[0]) > 0 \/ IsRehashing(c)
<1> DEFINE w == dictExpand(c, size)
           n == [table |-> [i \in 1 .. _dictNextPower(size) |-> << >>], used |-> 0]
<1>1. /\ n \in HT /\ HtOK(n) /\ Size(n) > 0 /\ Elements(n) = {} /\ KeysOf(n) = {}
      /\ \A b \in DOMAIN n.table : n.table[b] = << >>
  <2>1. _dictNextPower(size) \in Nat /\ _dictNextPower(size) > 0
    BY Doubled
  <2> QED BY <2>1, EmptyTable
<1>2. w = IF IsRehashing(c) \/ c.ht[0].used > size THEN c
          ELSE IF Size(c.ht[0]) = 0 THEN WithTable(c, 0, n)
          ELSE [ht |-> [c.ht EXCEPT ![1] = n], rehashidx |-> 0, iterators |-> c.iterators]
  BY DEF dictExpand, WithTable
<1> HIDE DEF w, n
<1>3. c \in DictSet /\ c.ht \in [{0, 1} -> HT] /\ c.ht[0] \in HT /\ c.ht[1] \in HT /\ c.ht[0].used \in Nat /\ Size(c.ht[0]) \in Nat
  BY DEF DictOK, DictSet, HT, Size
<1>4. CASE IsRehashing(c) \/ c.ht[0].used > size
  <2>1. w = c
    BY <1>2, <1>4
  <2>2. Kept(w, c) /\ Grown(w, c)
    BY <2>1 DEF Kept, Grown
  <2>3. c.ht[0].used <= size => IsRehashing(c)
    BY <1>3, <1>4
  <2> QED BY <2>2, <2>3 DEF w
<1>5. CASE ~IsRehashing(c) /\ ~(c.ht[0].used > size) /\ Size(c.ht[0]) = 0
  <2>1. w = [c EXCEPT !.ht = [c.ht EXCEPT ![0] = n]]
    BY <1>2, <1>5 DEF WithTable
  <2>2. w \in DictSet /\ w.ht[0] = n /\ w.ht[1] = c.ht[1] /\ w.rehashidx = c.rehashidx /\ w.iterators = c.iterators
    BY <1>1, <1>3, <2>1 DEF DictSet
  <2>3. Elements(c.ht[0]) = {}
    BY <1>3, <1>5, NoKeys
  <2>4. DictOK(w)
    BY <1>1, <1>5, <2>2 DEF DictOK, IsRehashing
  <2>5. Content(w) = Content(c) /\ Size(w.ht[0]) > 0
    BY <1>1, <2>2, <2>3 DEF Content
  <2>6. Kept(w, c)
    BY <2>2, <2>4, <2>5 DEF Kept
  <2>7. Grown(w, c)
    BY <1>5 DEF Grown
  <2> QED BY <2>5, <2>6, <2>7 DEF w
<1>6. CASE ~IsRehashing(c) /\ ~(c.ht[0].used > size) /\ Size(c.ht[0]) # 0
  <2>1. w = [ht |-> [c.ht EXCEPT ![1] = n], rehashidx |-> 0, iterators |-> c.iterators]
    BY <1>2, <1>6
  <2>2. w \in DictSet /\ w.ht[0] = c.ht[0] /\ w.ht[1] = n /\ w.rehashidx = 0 /\ w.iterators = c.iterators
    BY <1>1, <1>3, <2>1 DEF DictSet
  <2>3. Elements(c.ht[1]) = {}
    BY <1>6, NoTableIs DEF DictOK, IsRehashing
  <2>4. DictOK(w)
    <3>1. DOMAIN w.ht[0].table = 1 .. Size(w.ht[0]) /\ Size(w.ht[0]) > 0
      BY <1>3, <1>6, <2>2 DEF HT, Size
    <3>2. KeysOf(w.ht[0]) \cap KeysOf(w.ht[1]) = {}
      BY <1>1, <2>2
    <3>3. HtOK(w.ht[0]) /\ HtOK(w.ht[1])
      BY <1>1, <2>2 DEF DictOK
    <3> QED BY <1>1, <1>3, <2>2, <3>1, <3>2, <3>3 DEF DictOK
  <2>5. Content(w) = Content(c) /\ Size(w.ht[0]) > 0
    BY <1>1, <1>3, <1>6, <2>2, <2>3 DEF Content
  <2>6. Kept(w, c)
    BY <2>2, <2>4, <2>5 DEF Kept
  <2>7. Grown(w, c)
    BY <1>1, <1>6, <2>2 DEF Grown, IsRehashing
  <2> QED BY <2>5, <2>6, <2>7 DEF w
<1> QED BY <1>4, <1>5, <1>6 DEF w

LEMMA Stepped ==
  ASSUME NEW c, DictOK(c)
  PROVE  Kept(_dictRehashStep(c), c)
<1>1. 1 \in Nat
  OBVIOUS
<1> QED BY <1>1, Rehashed DEF _dictRehashStep, Kept

LEMMA ExpandedIfNeeded ==
  ASSUME NEW c, DictOK(c)
  PROVE  LET w == _dictExpandIfNeeded(c)
         IN  Kept(w, c) /\ Grown(w, c) /\ Size(w.ht[0]) > 0
<1>1. c.ht[0] \in HT /\ Size(c.ht[0]) \in Nat /\ c.ht[0].used \in Nat /\ (IsRehashing(c) => Size(c.ht[0]) > 0)
  BY DEF DictOK, DictSet, HT, Size, IsRehashing
<1>2. Kept(c, c) /\ Grown(c, c)
  BY DEF Kept, Grown
<1>3. CASE ~IsRehashing(c) /\ Size(c.ht[0]) = 0
  <2>1. c.ht[0].used = 0
    BY <1>1, <1>3, NoKeys, FS_EmptySet DEF DictOK, HtOK
  <2>2. _dictExpandIfNeeded(c) = dictExpand(c, DICT_HT_INITIAL_SIZE)
    BY <1>3 DEF _dictExpandIfNeeded
  <2>3. DICT_HT_INITIAL_SIZE \in Nat /\ c.ht[0].used <= DICT_HT_INITIAL_SIZE
    BY <2>1, DictSizeAssumption
  <2> QED BY <1>3, <2>2, <2>3, Expanded
<1>4. CASE IsRehashing(c)
  BY <1>1, <1>2, <1>4 DEF _dictExpandIfNeeded
<1>5. CASE ~IsRehashing(c) /\ Size(c.ht[0]) # 0
  <2> DEFINE more == Max({Size(c.ht[0]), c.ht[0].used}) * 2
  <2>1. more \in Nat
    BY <1>1, LargerOfTwo
  <2>2. _dictExpandIfNeeded(c) = dictExpand(c, more) \/ _dictExpandIfNeeded(c) = c
    BY <1>5 DEF _dictExpandIfNeeded
  <2> HIDE DEF more
  <2>3. Kept(dictExpand(c, more), c) /\ Grown(dictExpand(c, more), c)
    BY <2>1, Expanded
  <2> QED BY <1>1, <1>2, <1>5, <2>2, <2>3 DEF Kept
<1> QED BY <1>3, <1>4, <1>5

LEMMA PreparedOK ==
  ASSUME NEW c, DictOK(c)
  PROVE  Kept(Prepared(c), c) /\ Size(Prepared(c).ht[AddTo(Prepared(c))]) > 0
<1> DEFINE u == _dictRehashStep(c)
           w == _dictExpandIfNeeded(u)
<1>1. Kept(u, c)
  BY Stepped
<1>2. w = Prepared(c)
  BY DEF Prepared
<1> HIDE DEF u
<1>3. Kept(w, u) /\ Size(w.ht[0]) > 0
  BY <1>1, ExpandedIfNeeded DEF Kept
<1> HIDE DEF w
<1>4. Kept(w, c)
  BY <1>1, <1>3, KeptTwice
<1>5. IsRehashing(w) => Size(w.ht[1]) > 0
  BY <1>4 DEF Kept, DictOK, IsRehashing
<1> QED BY <1>2, <1>3, <1>4, <1>5 DEF AddTo

LEMMA SameKeys ==
  ASSUME NEW c
  PROVE  AllKeys(c) = {e.key : e \in Content(c)}
BY DEF AllKeys, Content, KeysOf

\* dictAdd: the entry is new, or nothing that a user sees changes.
LEMMA AddedOK ==
  ASSUME NEW c, DictOK(c), NEW k \in Key, NEW v \in Value
  PROVE  LET w == Added(c, k, v)
         IN  /\ DictOK(w) /\ w.iterators = c.iterators
             /\ TableOf(Prepared(c), k) = -1 <=> k \notin AllKeys(c)
             /\ Content(w) = IF k \in AllKeys(c) THEN Content(c) ELSE Content(c) \cup {[key |-> k, val |-> v]}
<1> DEFINE s == Prepared(c)
           e == [key |-> k, val |-> v]
           w == Added(c, k, v)
<1>1. Kept(s, c) /\ Size(s.ht[AddTo(s)]) > 0
  BY PreparedOK
<1>2. w = IF TableOf(s, k) # -1 THEN s ELSE Insert(s, AddTo(s), e)
  BY DEF Added
<1>3. e \in Entry /\ e.key = k
  BY DEF Entry
<1> HIDE DEF s, e, w
<1>4. DictOK(s) /\ Content(s) = Content(c) /\ AllKeys(s) = AllKeys(c) /\ s.iterators = c.iterators
  BY <1>1, SameKeys DEF Kept
<1>5. TableOf(s, k) = -1 <=> k \notin AllKeys(c)
  BY <1>4, Located
<1>6. CASE k \in AllKeys(c)
  BY <1>2, <1>4, <1>5, <1>6 DEF s, w, e
<1>7. CASE k \notin AllKeys(c)
  <2>1. DictOK(s) /\ e \in Entry /\ e.key \notin AllKeys(s) /\ Size(s.ht[AddTo(s)]) > 0
    BY <1>1, <1>3, <1>4, <1>7
  <2>2. LET x == Insert(s, AddTo(s), e)
        IN  DictOK(x) /\ Alike(x, s) /\ Content(x) = Content(s) \cup {e}
    BY ONLY <2>1, Inserted
  <2> QED BY <1>2, <1>4, <1>5, <1>7, <2>2 DEF s, w, e, Alike
<1> QED BY <1>6, <1>7

-----------------------------------------------------------------------------
(* The steps *)

\* The iterator is counted from its first dictNext on.
IterInv ==
  /\ iter.index \in Int /\ iter.index >= -1 /\ iter.table \in {0, 1}
  /\ iter.index = -1 => iter.table = 0 /\ iter.entry = NULL /\ iter.nextEntry = NULL
  /\ d.iterators = IF iter.on /\ iter.index # -1 THEN 1 ELSE 0

DictInv == DictOK(d) /\ dict_can_resize \in BOOLEAN /\ IterInv

\* What a call may do to the entries.
OnlyAdds(k, v) == Content(d') = {x \in Content(d) : x.key # k} \cup {[key |-> k, val |-> v]}
OnlyTakes(k) == Content(d') = {x \in Content(d) : x.key # k}
Quiet == Content(d') = Content(d)

LEMMA EmptyDict ==
  LET c == [ht |-> [n \in {0, 1} |-> NoTable], rehashidx |-> -1, iterators |-> 0]
  IN  DictOK(c) /\ Content(c) = {} /\ c.iterators = 0
<1> DEFINE c == [ht |-> [n \in {0, 1} |-> NoTable], rehashidx |-> -1, iterators |-> 0]
<1>1. c.ht[0] = NoTable /\ c.ht[1] = NoTable /\ c.rehashidx = -1 /\ c.iterators = 0
  OBVIOUS
<1>2. c \in DictSet
  BY NoTableIs DEF DictSet
<1> HIDE DEF c
<1>3. DictOK(c) /\ Content(c) = {}
  BY <1>1, <1>2, NoTableIs DEF DictOK, Content
<1> QED BY <1>1, <1>3 DEF c

LEMMA Absent ==
  ASSUME NEW c, NEW k, k \notin AllKeys(c)
  PROVE  {x \in Content(c) : x.key # k} = Content(c)
BY SameKeys

LEMMA AddStep ==
  ASSUME DictInv, NEW k \in Key, NEW v \in Value, dictAdd(k, v)
  PROVE  DictOK(d') /\ d'.iterators = d.iterators /\ (Quiet \/ OnlyAdds(k, v))
<1> DEFINE w == Added(d, k, v)
<1>1. DictOK(d) /\ d' = w
  BY DEF DictInv, dictAdd
<1>2. /\ DictOK(w) /\ w.iterators = d.iterators
      /\ Content(w) = IF k \in AllKeys(d) THEN Content(d) ELSE Content(d) \cup {[key |-> k, val |-> v]}
  BY <1>1, AddedOK
<1> HIDE DEF w
<1>3. k \notin AllKeys(d) => {x \in Content(d) : x.key # k} = Content(d)
  BY Absent
<1> QED BY <1>1, <1>2, <1>3 DEF Quiet, OnlyAdds

LEMMA ReplaceStep ==
  ASSUME DictInv, NEW k \in Key, NEW v \in Value, dictReplace(k, v)
  PROVE  DictOK(d') /\ d'.iterators = d.iterators /\ OnlyAdds(k, v)
<1> DEFINE a == Added(d, k, v)
           s == _dictRehashStep(a)
           n == TableOf(s, k)
<1>1. DictOK(d) /\ d' = IF TableOf(Prepared(d), k) = -1 THEN a ELSE SetVal(s, n, k, v)
  BY DEF DictInv, dictReplace
<1>2. /\ DictOK(a) /\ a.iterators = d.iterators
      /\ TableOf(Prepared(d), k) = -1 <=> k \notin AllKeys(d)
      /\ Content(a) = IF k \in AllKeys(d) THEN Content(d) ELSE Content(d) \cup {[key |-> k, val |-> v]}
  BY <1>1, AddedOK
<1> HIDE DEF a
<1>3. Kept(s, a)
  BY <1>2, Stepped
<1> HIDE DEF s, n
<1>4. CASE k \notin AllKeys(d)
  BY <1>1, <1>2, <1>4, Absent DEF OnlyAdds
<1>5. CASE k \in AllKeys(d)
  <2>1. DictOK(s) /\ Content(s) = Content(d) /\ s.iterators = d.iterators /\ k \in AllKeys(s)
    BY <1>2, <1>3, <1>5, SameKeys DEF Kept
  <2>2. n \in {0, 1} /\ k \in KeysOf(s.ht[n])
    BY <2>1, Located DEF n
  <2>3. d' = SetVal(s, n, k, v)
    BY <1>1, <1>2, <1>5
  <2>4. LET w == SetVal(s, n, k, v)
        IN  DictOK(w) /\ Alike(w, s) /\ Content(w) = {x \in Content(s) : x.key # k} \cup {[key |-> k, val |-> v]}
    <3>1. DictOK(s) /\ n \in {0, 1} /\ k \in KeysOf(s.ht[n]) /\ v \in Value
      BY <2>1, <2>2
    <3>2. DictOK(SetVal(s, n, k, v)) /\ Alike(SetVal(s, n, k, v), s)
      BY ONLY <3>1, ValueSet
    <3>3. Content(SetVal(s, n, k, v)) = {x \in Content(s) : x.key # k} \cup {NewEntry(k, v)}
      BY ONLY <3>1, ValueSet
    <3> QED BY ONLY <3>2, <3>3 DEF NewEntry
  <2> QED BY <2>1, <2>3, <2>4 DEF OnlyAdds, Alike
<1> QED BY <1>4, <1>5

LEMMA DeleteStep ==
  ASSUME DictInv, NEW k \in Key, dictGenericDelete(k)
  PROVE  DictOK(d') /\ d'.iterators = d.iterators /\ OnlyTakes(k)
<1> DEFINE s == _dictRehashStep(d)
           n == TableOf(s, k)
<1>1. DictOK(d) /\ d' = IF Size(d.ht[0]) = 0 THEN d ELSE IF n = -1 THEN s ELSE Unlink(s, n, k)
  BY DEF DictInv, dictGenericDelete
<1>2. Kept(s, d)
  BY <1>1, Stepped
<1> HIDE DEF s
<1>3. DictOK(s) /\ Content(s) = Content(d) /\ s.iterators = d.iterators
  BY <1>2 DEF Kept
<1>4. CASE Size(d.ht[0]) = 0
  <2>1. Content(d) = {}
    <3>1. d.ht[0] \in HT /\ d.ht[1] = NoTable
      BY <1>1, <1>4 DEF DictOK, DictSet
    <3> QED BY <1>4, <3>1, NoKeys, NoTableIs DEF Content
  <2> QED BY <1>1, <1>4, <2>1 DEF OnlyTakes
<1>5. CASE Size(d.ht[0]) # 0 /\ n = -1
  <2>1. k \notin AllKeys(s)
    BY <1>3, <1>5, Located
  <2>2. {x \in Content(s) : x.key # k} = Content(s)
    BY <2>1, Absent
  <2> HIDE DEF n
  <2> QED BY <1>1, <1>3, <1>5, <2>2 DEF OnlyTakes
<1>6. CASE Size(d.ht[0]) # 0 /\ n # -1
  <2>1. n \in {0, 1} /\ k \in KeysOf(s.ht[n])
    BY <1>3, <1>6, Located
  <2> HIDE DEF n
  <2>2. LET w == Unlink(s, n, k)
        IN  DictOK(w) /\ Alike(w, s) /\ Content(w) = {x \in Content(s) : x.key # k}
    <3>1. DictOK(s)
      BY <1>3
    <3> QED BY ONLY <2>1, <3>1, Unlinked
  <2>3. d' = Unlink(s, n, k)
    BY <1>1, <1>6
  <2> QED BY <1>3, <2>2, <2>3 DEF OnlyTakes, Alike
<1> QED BY <1>4, <1>5, <1>6

LEMMA ResizeStep ==
  ASSUME DictInv, tryResizeHashTables
  PROVE  Kept(d', d)
<1> DEFINE size == Max({d.ht[0].used, DICT_HT_INITIAL_SIZE})
<1>1. DictOK(d)
  BY DEF DictInv
<1>2. size \in Nat
  <2>1. d.ht[0].used \in Nat
    BY <1>1 DEF DictOK, DictSet, HT
  <2> QED BY <2>1, LargerOfTwo, DictSizeAssumption
<1>3. d' = d \/ d' = dictExpand(d, size)
  BY DEF tryResizeHashTables, dictResize
<1> HIDE DEF size
<1>4. Kept(d, d)
  BY <1>1 DEF Kept
<1> QED BY <1>1, <1>2, <1>3, <1>4, Expanded

LEMMA RehashStep ==
  ASSUME DictInv, incrementallyRehash
  PROVE  Kept(d', d)
<1>1. DictOK(d) /\ Size(d.ht[0]) \in Nat
  BY DEF DictInv, DictOK, DictSet, HT, Size
<1>2. PICK n \in 1 .. Size(d.ht[0]) + 1 : d' = dictRehash(d, n)
  BY DEF incrementallyRehash
<1>3. n \in Nat
  BY <1>1
<1> QED BY <1>1, <1>2, <1>3, Rehashed

LEMMA FindStep ==
  ASSUME DictInv, dictGetRandomKey \/ \E k \in Key : dictFind(k)
  PROVE  Kept(d', d)
<1>1. d' = d \/ d' = _dictRehashStep(d)
  BY DEF dictFind, dictGetRandomKey
<1>2. DictOK(d) /\ Kept(d, d)
  BY DEF DictInv, Kept
<1> QED BY <1>1, <1>2, Stepped

\* Where the iterator may be after dictNext.
LEMMA AdvancedTo ==
  ASSUME DictInv, ~Exhausted
  PROVE  Advanced.on = TRUE /\ Advanced.index \in Nat /\ Advanced.table \in {0, 1}
<1>1. DictOK(d) /\ iter.index + 1 \in Nat /\ iter.table \in {0, 1} /\ (iter.entry # NULL => iter.index \in Nat)
  BY DEF DictInv, IterInv
<1>2. ASSUME NEW n \in {0, 1}, NEW i \in Nat, NonEmpty(n, i) # {} PROVE Min(NonEmpty(n, i)) \in Nat
  <2>1. d.ht[n] \in HT
    BY <1>1 DEF DictOK, DictSet
  <2>2. Size(d.ht[n]) \in Nat
    BY <2>1 DEF HT, Size
  <2>3. NonEmpty(n, i) \subseteq Nat
    BY <2>2 DEF NonEmpty
  <2> QED BY <1>2, <2>3, LeastNumber
<1>3. CASE iter.entry # NULL /\ iter.nextEntry # NULL
  BY <1>1, <1>3 DEF Advanced
<1>4. CASE ~(iter.entry # NULL /\ iter.nextEntry # NULL) /\ NonEmpty(iter.table, iter.index + 1) # {}
  <2>1. Advanced = AtHead(iter.table, Min(NonEmpty(iter.table, iter.index + 1)))
    BY <1>4 DEF Advanced
  <2>2. Min(NonEmpty(iter.table, iter.index + 1)) \in Nat
    BY <1>1, <1>2, <1>4
  <2> QED BY <1>1, <2>1, <2>2 DEF AtHead
<1>5. CASE /\ ~(iter.entry # NULL /\ iter.nextEntry # NULL) /\ NonEmpty(iter.table, iter.index + 1) = {}
           /\ IsRehashing(d) /\ iter.table = 0 /\ NonEmpty(1, 0) # {}
  <2>1. Advanced = AtHead(1, Min(NonEmpty(1, 0)))
    BY <1>5 DEF Advanced
  <2>2. Min(NonEmpty(1, 0)) \in Nat
    BY <1>2, <1>5
  <2> QED BY <2>1, <2>2 DEF AtHead
<1>6. CASE /\ ~(iter.entry # NULL /\ iter.nextEntry # NULL) /\ NonEmpty(iter.table, iter.index + 1) = {}
           /\ ~(IsRehashing(d) /\ iter.table = 0 /\ NonEmpty(1, 0) # {})
  <2> DEFINE last == IF IsRehashing(d) THEN 1 ELSE iter.table
  <2>1. Advanced = [on |-> TRUE, table |-> last, index |-> Size(d.ht[last]), entry |-> NULL, nextEntry |-> NULL]
    BY <1>6 DEF Advanced
  <2>2. last \in {0, 1}
    BY <1>1
  <2> HIDE DEF last
  <2>3. d.ht[last] \in HT
    BY <1>1, <2>2 DEF DictOK, DictSet
  <2>4. Size(d.ht[last]) \in Nat
    BY <2>3 DEF HT, Size
  <2> QED BY <2>1, <2>2, <2>4
<1> QED BY <1>3, <1>4, <1>5, <1>6

\* Counting an iterator changes nothing else.
LEMMA CountChanged ==
  ASSUME NEW c, DictOK(c), NEW n \in Nat
  PROVE  LET w == [c EXCEPT !.iterators = n]
         IN  DictOK(w) /\ w.ht = c.ht /\ w.rehashidx = c.rehashidx /\ w.iterators = n /\ Content(w) = Content(c)
<1> DEFINE w == [c EXCEPT !.iterators = n]
<1>1. c \in DictSet
  BY DEF DictOK
<1>2. w \in DictSet /\ w.ht = c.ht /\ w.rehashidx = c.rehashidx /\ w.iterators = n
  BY <1>1 DEF DictSet
<1> HIDE DEF w
<1> QED BY <1>2 DEF DictOK, Content, w

\* A step of the table is one of the map, or changes nothing in it.
MapStep ==
  \/ Quiet
  \/ Content(d') = {}
  \/ \E k \in Key : OnlyTakes(k) \/ \E v \in Value : OnlyAdds(k, v)

LEMMA DictSteps ==
  ASSUME DictInv, DictNext
  PROVE  DictInv' /\ MapStep
<1>0. DictOK(d) /\ dict_can_resize \in BOOLEAN /\ IterInv /\ d.iterators \in Nat
  BY DEF DictInv, DictOK, DictSet
<1>1. ASSUME UNCHANGED iter, DictOK(d'), d'.iterators = d.iterators PROVE IterInv'
  BY <1>0, <1>1 DEF IterInv
<1>2. ASSUME UNCHANGED <<dict_can_resize, iter>>, Kept(d', d) PROVE DictInv' /\ MapStep
  <2>1. DictOK(d') /\ d'.iterators = d.iterators /\ Content(d') = Content(d)
    BY <1>2 DEF Kept
  <2> QED BY <1>0, <1>1, <1>2, <2>1 DEF DictInv, MapStep, Quiet
<1>3. ASSUME NEW k \in Key, NEW v \in Value, dictAdd(k, v) PROVE DictInv' /\ MapStep
  <2>1. DictOK(d') /\ d'.iterators = d.iterators /\ (Quiet \/ OnlyAdds(k, v))
    BY <1>3, AddStep
  <2>2. UNCHANGED <<dict_can_resize, iter>>
    BY <1>3 DEF dictAdd, itervars
  <2> QED BY <1>0, <1>1, <2>1, <2>2 DEF DictInv, MapStep
<1>4. ASSUME NEW k \in Key, NEW v \in Value, dictReplace(k, v) PROVE DictInv' /\ MapStep
  <2>1. DictOK(d') /\ d'.iterators = d.iterators /\ OnlyAdds(k, v)
    BY <1>4, ReplaceStep
  <2>2. UNCHANGED <<dict_can_resize, iter>>
    BY <1>4 DEF dictReplace, itervars
  <2> QED BY <1>0, <1>1, <2>1, <2>2 DEF DictInv, MapStep
<1>5. ASSUME NEW k \in Key, dictGenericDelete(k) PROVE DictInv' /\ MapStep
  <2>1. DictOK(d') /\ d'.iterators = d.iterators /\ OnlyTakes(k)
    BY <1>5, DeleteStep
  <2>2. UNCHANGED <<dict_can_resize, iter>>
    BY <1>5 DEF dictGenericDelete
  <2> QED BY <1>0, <1>1, <2>1, <2>2 DEF DictInv, MapStep
<1>6. CASE dictGetRandomKey \/ \E k \in Key : dictFind(k)
  <2>1. UNCHANGED <<dict_can_resize, iter>>
    BY <1>6 DEF dictFind, dictGetRandomKey, itervars
  <2> QED BY <1>2, <1>6, <2>1, FindStep
<1>7. CASE dictEmpty
  <2> DEFINE c == [ht |-> [n \in {0, 1} |-> NoTable], rehashidx |-> -1, iterators |-> 0]
  <2>1. d' = c /\ UNCHANGED <<dict_can_resize, iter>> /\ ~iter.on
    BY <1>7 DEF dictEmpty, itervars
  <2>2. DictOK(c) /\ Content(c) = {} /\ c.iterators = 0
    BY EmptyDict
  <2> HIDE DEF c
  <2>3. d.iterators = 0
    BY <1>0, <2>1 DEF IterInv
  <2>4. IterInv'
    BY <1>1, <2>1, <2>2, <2>3
  <2> QED BY <1>0, <2>1, <2>2, <2>4 DEF DictInv, MapStep
<1>8. CASE dictGetIterator
  <2>1. iter' = [on |-> TRUE, table |-> 0, index |-> -1, entry |-> NULL, nextEntry |-> NULL] /\ ~iter.on /\ UNCHANGED <<d, dict_can_resize>>
    BY <1>8 DEF dictGetIterator, NoIter
  <2>2. IterInv'
    BY <1>0, <2>1 DEF IterInv
  <2> QED BY <1>0, <2>1, <2>2 DEF DictInv, MapStep, Quiet
<1>9. CASE dictNext
  <2>1. iter' = Advanced /\ d' = [d EXCEPT !.iterators = Counted] /\ UNCHANGED dict_can_resize /\ iter.on /\ ~Exhausted
    BY <1>9 DEF dictNext
  <2>2. Counted = 1
    BY <1>0, <2>1 DEF Counted, IterInv
  <2>3. DictOK(d') /\ d'.iterators = 1 /\ Content(d') = Content(d)
    BY <1>0, <2>1, <2>2, CountChanged
  <2>4. iter'.on /\ iter'.index \in Nat /\ iter'.table \in {0, 1}
    BY <2>1, AdvancedTo
  <2>5. IterInv'
    BY <2>3, <2>4 DEF IterInv
  <2> QED BY <1>0, <2>1, <2>3, <2>5 DEF DictInv, MapStep, Quiet
<1>10. CASE dictReleaseIterator
  <2>1. iter' = [on |-> FALSE, table |-> 0, index |-> -1, entry |-> NULL, nextEntry |-> NULL]
        /\ d' = [d EXCEPT !.iterators = Uncounted] /\ UNCHANGED dict_can_resize /\ iter.on
    BY <1>10 DEF dictReleaseIterator, NoIter
  <2>2. Uncounted = 0
    BY <1>0, <2>1 DEF Uncounted, IterInv
  <2>3. DictOK(d') /\ d'.iterators = 0 /\ Content(d') = Content(d)
    BY <1>0, <2>1, <2>2, CountChanged
  <2>4. IterInv'
    BY <2>1, <2>3 DEF IterInv
  <2> QED BY <1>0, <2>1, <2>3, <2>4 DEF DictInv, MapStep, Quiet
<1>11. CASE tryResizeHashTables
  <2>1. UNCHANGED <<dict_can_resize, iter>>
    BY <1>11 DEF tryResizeHashTables, itervars
  <2> QED BY <1>2, <1>11, <2>1, ResizeStep
<1>12. CASE incrementallyRehash
  <2>1. UNCHANGED <<dict_can_resize, iter>>
    BY <1>12 DEF incrementallyRehash, itervars
  <2> QED BY <1>2, <1>12, <2>1, RehashStep
<1>13. CASE updateDictResizePolicy
  <2>1. UNCHANGED <<d, iter>> /\ dict_can_resize' = ~dict_can_resize
    BY <1>13 DEF updateDictResizePolicy, itervars
  <2> QED BY <1>0, <1>1, <2>1 DEF DictInv, MapStep, Quiet
<1> QED BY <1>3, <1>4, <1>5, <1>6, <1>7, <1>8, <1>9, <1>10, <1>11, <1>12, <1>13 DEF DictNext

LEMMA DictStutters ==
  ASSUME DictInv, UNCHANGED dictvars
  PROVE  DictInv' /\ MapStep
BY DEF DictInv, IterInv, dictvars, MapStep, Quiet

LEMMA DictStarts ==
  ASSUME DictInit
  PROVE  DictInv /\ Content(d) = {}
<1> DEFINE c == [ht |-> [n \in {0, 1} |-> NoTable], rehashidx |-> -1, iterators |-> 0]
<1>1. DictOK(c) /\ Content(c) = {} /\ c.iterators = 0
  BY EmptyDict
<1>2. d = c /\ dict_can_resize = TRUE /\ iter = [on |-> FALSE, table |-> 0, index |-> -1, entry |-> NULL, nextEntry |-> NULL]
  BY DEF DictInit, NoIter
<1> HIDE DEF c
<1>3. IterInv
  BY <1>1, <1>2 DEF IterInv
<1> QED BY <1>1, <1>2, <1>3 DEF DictInv

LEMMA DictInvariant == DictSpec => []DictInv
<1>1. DictInit => DictInv
  BY DictStarts
<1>2. DictInv /\ [DictNext]_dictvars => DictInv'
  BY DictSteps, DictStutters
<1> QED BY <1>1, <1>2, PTL DEF DictSpec

-----------------------------------------------------------------------------
(* The promises *)

\* There is a place for each key of a table, and no other.
LEMMA CellsCounted ==
  ASSUME NEW h \in HT, HtOK(h)
  PROVE  h.used = Cardinality(Slots(h))
<1> DEFINE K == KeysOf(h)
           at(k) == <<Bucket(h, k), Place(h.table[Bucket(h, k)], k)>>
           f == [k \in K |-> at(k)]
<1>1. \A x : x \in Slots(h) <=> \E b \in DOMAIN h.table : \E p \in DOMAIN h.table[b] : x = <<b, p>>
  BY DEF Slots
<1>2. ASSUME NEW k \in K
      PROVE  at(k) \in Slots(h) /\ h.table[at(k)[1]][at(k)[2]].key = k
  <2>1. /\ Bucket(h, k) \in DOMAIN h.table
        /\ Place(h.table[Bucket(h, k)], k) \in DOMAIN h.table[Bucket(h, k)]
        /\ h.table[Bucket(h, k)][Place(h.table[Bucket(h, k)], k)].key = k
    BY Where
  <2> QED BY <1>1, <2>1
<1>3. ASSUME NEW x \in Slots(h) PROVE \E k \in K : at(k) = x
  <2>1. PICK b \in DOMAIN h.table : \E p \in DOMAIN h.table[b] : x = <<b, p>>
    BY <1>1
  <2>2. PICK p \in DOMAIN h.table[b] : x = <<b, p>>
    BY <2>1
  <2>3. h.table[b] \in Chain /\ NoRepeat(h.table[b]) /\ h.table[b][p].key \in K /\ Bucket(h, h.table[b][p].key) = b
    BY ElementOf DEF HT, HtOK, ChainOK
  <2>4. Place(h.table[b], h.table[b][p].key) = p
    BY <2>3, Placed
  <2> QED BY <2>2, <2>3, <2>4
<1> HIDE DEF at
<1>4. f \in [K -> Slots(h)] /\ (\A x, y \in K : f[x] = f[y] => x = y) /\ \A c \in Slots(h) : \E k \in K : f[k] = c
  <2>1. f \in [K -> Slots(h)] /\ \A k \in K : f[k] = at(k)
    BY <1>2
  <2> HIDE DEF f, K
  <2>2. \A x, y \in K : f[x] = f[y] => x = y
    BY <1>2, <2>1
  <2>3. \A c \in Slots(h) : \E k \in K : f[k] = c
    BY <1>3, <2>1
  <2> QED BY <2>1, <2>2, <2>3
<1> HIDE DEF f
<1>5. f \in Bijection(K, Slots(h))
  <2>1. DOMAIN f = K
    BY <1>4
  <2> QED BY <1>4, <2>1 DEF Bijection, Injection, Surjection, IsInjective
<1>6. IsFiniteSet(K) /\ h.used = Cardinality(K) /\ ExistsBijection(K, Slots(h))
  BY <1>5 DEF HtOK, ExistsBijection
<1> HIDE DEF K
<1> QED BY <1>6, FS_Bijection

LEMMA WellCounted ==
  ASSUME NEW c, DictOK(c)
  PROVE  c.ht[0].used + c.ht[1].used = Cardinality(AllKeys(c))
<1> DEFINE S == KeysOf(c.ht[0])
           T == KeysOf(c.ht[1])
<1>1. IsFiniteSet(S) /\ IsFiniteSet(T) /\ c.ht[0].used = Cardinality(S) /\ c.ht[1].used = Cardinality(T) /\ S \cap T = {}
  BY DEF DictOK, HtOK
<1>2. AllKeys(c) = S \cup T
  BY DEF AllKeys
<1> HIDE DEF S, T
<1>3. Cardinality(S \cup T) = Cardinality(S) + Cardinality(T) - Cardinality(S \cap T)
  BY ONLY <1>1, FS_Union
<1>4. Cardinality(S) \in Nat /\ Cardinality(T) \in Nat /\ Cardinality(S \cap T) = 0
  BY <1>1, FS_CardinalityType, FS_EmptySet
<1> QED BY <1>1, <1>2, <1>3, <1>4

LEMMA SoundDict == DictInv => DictSound
<1> SUFFICES ASSUME DictInv PROVE DictSound
  OBVIOUS
<1>1. DictOK(d) /\ dict_can_resize \in BOOLEAN /\ d.iterators \in 0 .. 1
  BY DEF DictInv, IterInv
<1>2. \A n \in {0, 1} : d.ht[n] \in HT /\ HtOK(d.ht[n]) /\ Entries(n) = Elements(d.ht[n])
  BY <1>1 DEF DictOK, DictSet, Entries
<1>3. DictTypeOK
  <2>1. \A n \in {0, 1} : Entries(n) \subseteq Entry /\ d.ht[n].used \in Nat
    BY <1>2, ElementOf DEF HT
  <2>2. d.rehashidx \in -1 .. Size(d.ht[0])
    <3>1. Size(d.ht[0]) \in Nat
      BY <1>2 DEF HT, Size
    <3> QED BY <1>1, <3>1 DEF DictOK
  <2> QED BY <1>1, <2>1, <2>2 DEF DictTypeOK
<1>4. WellPlaced
  <2>1. \A n \in {0, 1} : \A b \in DOMAIN d.ht[n].table : \A e \in ToSet(d.ht[n].table[b]) : Bucket(d.ht[n], e.key) = b
    BY <1>2 DEF HtOK, ChainOK, ToSet
  <2>2. \A n \in {0, 1} : d.ht[n].used = Cardinality(Slots(d.ht[n]))
    BY <1>2, CellsCounted
  <2>3. d.ht[0].used + d.ht[1].used = Cardinality({e.key : e \in Entries(0) \cup Entries(1)})
    <3>1. AllKeys(d) = {e.key : e \in Entries(0) \cup Entries(1)}
      BY SameKeys DEF Content, Entries
    <3> QED BY <1>1, <3>1, WellCounted
  <2> QED BY <2>1, <2>2, <2>3 DEF WellPlaced
<1>5. MovedBehind
  BY <1>1 DEF DictOK, MovedBehind, IsRehashing
<1> QED BY <1>3, <1>4, <1>5 DEF DictSound

\* Between any two calls, whatever has been added, deleted and moved before, each entry is in the
\* chain where dictFind looks for it, no key has two, used counts them, and what rehashidx has
\* passed is empty.
THEOREM DictAlwaysSound == DictSpec => []DictSound
BY DictInvariant, SoundDict, PTL

\* Every call does to the entries what a map would do, and rehashing does nothing to them.
THEOREM DictImplementsMap == DictSpec => ImplementsMap
<1>1. DictInit => Map!MInit
  BY DictStarts DEF Map!MInit, Content, Entries
<1>2. DictInv /\ [DictNext]_dictvars => [Map!MNext]_(Entries(0) \cup Entries(1))
  <2> SUFFICES ASSUME DictInv, [DictNext]_dictvars PROVE [Map!MNext]_(Entries(0) \cup Entries(1))
    OBVIOUS
  <2>1. MapStep
    BY DictSteps, DictStutters
  <2>2. (Entries(0) \cup Entries(1))' = Content(d') /\ Entries(0) \cup Entries(1) = Content(d)
    BY DEF Content, Entries
  <2>3. CASE Quiet
    BY <2>2, <2>3 DEF Quiet
  <2>4. CASE Content(d') = {}
    BY <2>2, <2>4 DEF Map!MNext, Map!MEmpty
  <2>5. ASSUME NEW k \in Key, OnlyTakes(k) PROVE Map!MNext
    BY <2>2, <2>5 DEF OnlyTakes, Map!MNext, Map!MDelete, Map!Others
  <2>6. ASSUME NEW k \in Key, NEW v \in Value, OnlyAdds(k, v) PROVE Map!MNext
    BY <2>2, <2>6 DEF OnlyAdds, Map!MNext, Map!MSet, Map!Others
  <2> QED BY <2>1, <2>3, <2>4, <2>5, <2>6 DEF MapStep
<1> QED BY <1>1, <1>2, DictInvariant, PTL DEF DictSpec, ImplementsMap, Map!MSpec

-----------------------------------------------------------------------------
(* The order of the entries *)

At(h, k) == Place(ChainOf(h, k), k)

\* Each key of a table is found at its place, and no other key is there.
LEMMA AtPlace ==
  ASSUME NEW h \in HT, HtOK(h), NEW k \in KeysOf(h)
  PROVE  /\ Size(h) > 0 /\ Bucket(h, k) \in DOMAIN h.table /\ Bucket(h, k) \in Nat \ {0}
         /\ ChainOf(h, k) = h.table[Bucket(h, k)] /\ ChainOf(h, k) \in Chain /\ NoRepeat(ChainOf(h, k))
         /\ At(h, k) \in DOMAIN ChainOf(h, k) /\ At(h, k) \in Nat \ {0} /\ ChainOf(h, k)[At(h, k)].key = k
         /\ k \in Key /\ k # NULL
<1>1. /\ Size(h) > 0 /\ Bucket(h, k) \in DOMAIN h.table
      /\ h.table[Bucket(h, k)] \in Chain /\ NoRepeat(h.table[Bucket(h, k)])
      /\ Place(h.table[Bucket(h, k)], k) \in DOMAIN h.table[Bucket(h, k)]
      /\ h.table[Bucket(h, k)][Place(h.table[Bucket(h, k)], k)].key = k
  BY Where
<1>2. DOMAIN h.table \subseteq Nat \ {0}
  BY DEF HT
<1>3. \A s \in Chain : DOMAIN s \subseteq Nat \ {0}
  BY DEF Chain
<1>4. k \in Key /\ k # NULL
  BY ElementOf, DictNullAssumption
<1> QED BY <1>1, <1>2, <1>3, <1>4 DEF At, ChainOf

LEMMA OneAtPlace ==
  ASSUME NEW h \in HT, HtOK(h), NEW b \in DOMAIN h.table, NEW p \in DOMAIN h.table[b]
  PROVE  LET k == h.table[b][p].key
         IN  k \in KeysOf(h) /\ Bucket(h, k) = b /\ ChainOf(h, k) = h.table[b] /\ At(h, k) = p
<1> DEFINE k == h.table[b][p].key
<1>1. k \in KeysOf(h) /\ Bucket(h, k) = b /\ h.table[b] \in Chain /\ NoRepeat(h.table[b])
  BY ElementOf DEF HT, HtOK, ChainOK
<1>2. Place(h.table[b], k) = p
  BY <1>1, Placed
<1> QED BY <1>1, <1>2 DEF ChainOf, At

\* The entry after that of k.
LEMMA AfterIs ==
  ASSUME NEW h \in HT, HtOK(h), NEW k \in KeysOf(h)
  PROVE  LET s == ChainOf(h, k)
             x == After(s, k)
         IN  IF At(h, k) < Len(s)
             THEN x \in KeysOf(h) /\ x # NULL /\ x # k /\ Bucket(h, x) = Bucket(h, k) /\ At(h, x) = At(h, k) + 1
             ELSE x = NULL /\ At(h, k) = Len(s)
<1> DEFINE s == ChainOf(h, k)
           b == Bucket(h, k)
           p == At(h, k)
<1>1. b \in DOMAIN h.table /\ s = h.table[b] /\ s \in Chain /\ p \in DOMAIN s /\ p \in Nat \ {0} /\ s[p].key = k /\ NoRepeat(s)
  BY AtPlace
<1>2. DOMAIN s = 1 .. Len(s) /\ Len(s) \in Nat
  BY <1>1 DEF Chain
<1>3. After(s, k) = IF p < Len(s) THEN s[p + 1].key ELSE NULL
  BY DEF After, At
<1> HIDE DEF s, p, b
<1>4. CASE p < Len(s)
  <2>1. p + 1 \in DOMAIN s /\ p + 1 # p
    BY <1>1, <1>2, <1>4
  <2>2. s[p + 1].key \in KeysOf(h) /\ Bucket(h, s[p + 1].key) = b /\ At(h, s[p + 1].key) = p + 1
    <3>1. p + 1 \in DOMAIN h.table[b]
      BY <1>1, <2>1
    <3>2. /\ h.table[b][p + 1].key \in KeysOf(h) /\ Bucket(h, h.table[b][p + 1].key) = b
          /\ At(h, h.table[b][p + 1].key) = p + 1
      BY <1>1, <3>1, OneAtPlace
    <3> QED BY <1>1, <3>2
  <2>3. s[p + 1].key # k
    BY <1>1, <2>1 DEF NoRepeat
  <2>4. s[p + 1].key # NULL
    BY <2>2, AtPlace
  <2> QED BY <1>3, <1>4, <2>2, <2>3, <2>4 DEF s, p, b
<1>5. CASE ~(p < Len(s))
  <2>1. p = Len(s)
    BY <1>1, <1>2, <1>5
  <2> QED BY <1>3, <1>5, <2>1 DEF s, p, b
<1> QED BY <1>4, <1>5

\* Two tables have these keys in the same chains, in the same order.
SameOrder(g, h, ks) ==
  /\ ks \cap KeysOf(g) = ks \cap KeysOf(h)
  /\ ks \cap KeysOf(h) # {} => Size(g) = Size(h)
  /\ \A x, y \in ks \cap KeysOf(h) : Bucket(h, x) = Bucket(h, y) => (At(g, x) < At(g, y) <=> At(h, x) < At(h, y))

SameFor(w, c, ks) == \A n \in {0, 1} : SameOrder(w.ht[n], c.ht[n], ks)

LEMMA SameItself ==
  ASSUME NEW h, NEW ks
  PROVE  SameOrder(h, h, ks)
BY DEF SameOrder

LEMMA SameTwice ==
  ASSUME NEW u, NEW w, NEW c, NEW ks, SameFor(u, c, ks), SameFor(w, u, ks)
  PROVE  SameFor(w, c, ks)
<1> SUFFICES ASSUME NEW n \in {0, 1} PROVE SameOrder(w.ht[n], c.ht[n], ks)
  BY DEF SameFor
<1> DEFINE g == w.ht[n]
           h == u.ht[n]
           e == c.ht[n]
<1>1. SameOrder(g, h, ks) /\ SameOrder(h, e, ks)
  BY DEF SameFor
<1> HIDE DEF g, h, e
<1>2. ks \cap KeysOf(g) = ks \cap KeysOf(e) /\ ks \cap KeysOf(h) = ks \cap KeysOf(e)
  BY <1>1 DEF SameOrder
<1>3. ks \cap KeysOf(e) # {} => Size(g) = Size(e) /\ Size(h) = Size(e)
  BY <1>1, <1>2 DEF SameOrder
<1>4. ASSUME NEW x \in ks \cap KeysOf(e), NEW y \in ks \cap KeysOf(e), Bucket(e, x) = Bucket(e, y)
      PROVE  At(g, x) < At(g, y) <=> At(e, x) < At(e, y)
  <2>1. Bucket(h, x) = Bucket(h, y)
    BY <1>3, <1>4 DEF Bucket
  <2>2. At(h, x) < At(h, y) <=> At(e, x) < At(e, y)
    BY <1>1, <1>4 DEF SameOrder
  <2>3. At(g, x) < At(g, y) <=> At(h, x) < At(h, y)
    BY <1>1, <1>2, <1>4, <2>1 DEF SameOrder
  <2> QED BY <2>2, <2>3
<1>5. SameOrder(g, e, ks)
  BY <1>2, <1>3, <1>4 DEF SameOrder
<1> QED BY <1>5 DEF g, e

\* The order in a chain that changes.
ChainOrder(t, s, ks) ==
  \A x, y \in ks : InChain(s, x) /\ InChain(s, y) => (Place(t, x) < Place(t, y) <=> Place(s, x) < Place(s, y))

LEMMA PlaceIs ==
  ASSUME NEW s \in Chain, NoRepeat(s), NEW k, InChain(s, k)
  PROVE  Place(s, k) \in DOMAIN s /\ Place(s, k) \in Nat /\ s[Place(s, k)].key = k
<1>1. PICK p \in DOMAIN s : s[p].key = k
  BY DEF InChain
<1>2. Place(s, k) = p
  BY <1>1, Placed
<1> QED BY <1>1, <1>2 DEF Chain

LEMMA PushedOrder ==
  ASSUME NEW s \in Chain, NoRepeat(s), NEW e \in Entry, \A p \in DOMAIN s : s[p].key # e.key, NEW ks
  PROVE  ChainOrder(<<e>> \o s, s, ks)
<1> DEFINE t == <<e>> \o s
<1>1. t \in Chain /\ NoRepeat(t) /\ \A p \in DOMAIN s : p + 1 \in DOMAIN t /\ t[p + 1] = s[p]
  BY Pushed
<1> HIDE DEF t
<1>2. ASSUME NEW x, InChain(s, x) PROVE Place(t, x) = Place(s, x) + 1 /\ Place(s, x) \in Nat
  <2>1. Place(s, x) \in DOMAIN s /\ Place(s, x) \in Nat /\ s[Place(s, x)].key = x
    BY <1>2, PlaceIs
  <2>2. Place(s, x) + 1 \in DOMAIN t /\ t[Place(s, x) + 1].key = x
    BY <1>1, <2>1
  <2>3. Place(t, t[Place(s, x) + 1].key) = Place(s, x) + 1
    BY <1>1, <2>2, Placed
  <2> QED BY <2>1, <2>2, <2>3
<1> QED BY <1>2 DEF ChainOrder, t

LEMMA DroppedOrder ==
  ASSUME NEW s \in Chain, NoRepeat(s), NEW r \in DOMAIN s, NEW ks, s[r].key \notin ks
  PROVE  ChainOrder(RemoveAt(s, r), s, ks)
<1> DEFINE t == RemoveAt(s, r)
<1>1. t \in Chain /\ NoRepeat(t) /\ Len(t) = Len(s) - 1 /\ \A p \in DOMAIN t : t[p] = IF p < r THEN s[p] ELSE s[p + 1]
  BY Dropped
<1> HIDE DEF t
<1>2. Len(s) \in Nat /\ DOMAIN s = 1 .. Len(s) /\ DOMAIN t = 1 .. Len(s) - 1
  BY <1>1 DEF Chain
<1>3. ASSUME NEW x \in ks, InChain(s, x)
      PROVE  Place(s, x) \in Nat /\ Place(s, x) # r /\ Place(t, x) = IF Place(s, x) < r THEN Place(s, x) ELSE Place(s, x) - 1
  <2>1. Place(s, x) \in DOMAIN s /\ Place(s, x) \in Nat /\ s[Place(s, x)].key = x
    BY <1>3, PlaceIs
  <2>2. Place(s, x) # r
    BY <1>3, <2>1
  <2> DEFINE q == IF Place(s, x) < r THEN Place(s, x) ELSE Place(s, x) - 1
  <2>3. q \in DOMAIN t /\ t[q].key = x
    <3>1. CASE Place(s, x) < r
      BY <1>1, <1>2, <2>1, <3>1
    <3>2. CASE ~(Place(s, x) < r)
      <4>1. q = Place(s, x) - 1 /\ q \in DOMAIN t /\ ~(q < r) /\ q + 1 = Place(s, x)
        BY <1>2, <2>1, <2>2, <3>2
      <4>2. t[q] = s[q + 1]
        BY <1>1, <4>1
      <4> QED BY <2>1, <4>1, <4>2
    <3> QED BY <3>1, <3>2
  <2> HIDE DEF q
  <2>4. Place(t, t[q].key) = q
    BY <1>1, <2>3, Placed
  <2> QED BY <2>1, <2>2, <2>3, <2>4 DEF q
<1>4. r \in Nat
  BY <1>2
<1> QED BY <1>3, <1>4 DEF ChainOrder, t

LEMMA OverwrittenOrder ==
  ASSUME NEW s \in Chain, NoRepeat(s), NEW r \in DOMAIN s, NEW e \in Entry, e.key = s[r].key, NEW ks
  PROVE  ChainOrder([s EXCEPT ![r] = e], s, ks)
<1> DEFINE t == [s EXCEPT ![r] = e]
<1>1. \A p \in DOMAIN s : t[p].key = s[p].key
  BY Overwritten
<1>2. DOMAIN t = DOMAIN s
  OBVIOUS
<1> HIDE DEF t
<1>3. \A x : Place(t, x) = Place(s, x)
  <2> TAKE x
  <2>1. {n \in DOMAIN t : t[n].key = x} = {n \in DOMAIN s : s[n].key = x}
    BY <1>1, <1>2
  <2> QED BY <2>1 DEF Place
<1>4. ChainOrder(t, s, ks)
  BY <1>3 DEF ChainOrder
<1> QED BY <1>4 DEF t

\* One chain of a table changes and keeps the order.
LEMMA TableOrder ==
  ASSUME NEW h \in HT, HtOK(h), NEW g \in HT, Size(g) = Size(h), NEW ks, NEW b \in DOMAIN h.table, NEW t,
         ks \cap KeysOf(g) = ks \cap KeysOf(h),
         \A x \in DOMAIN h.table : g.table[x] = IF x = b THEN t ELSE h.table[x],
         ChainOrder(t, h.table[b], ks)
  PROVE  SameOrder(g, h, ks)
<1>1. ASSUME NEW x \in ks \cap KeysOf(h), NEW y \in ks \cap KeysOf(h), Bucket(h, x) = Bucket(h, y)
      PROVE  At(g, x) < At(g, y) <=> At(h, x) < At(h, y)
  <2> DEFINE z == Bucket(h, x)
  <2>1. z \in DOMAIN h.table /\ Bucket(g, x) = z /\ Bucket(g, y) = z /\ Bucket(h, y) = z
    BY <1>1, AtPlace DEF Bucket
  <2>2. /\ At(g, x) = Place(g.table[z], x) /\ At(g, y) = Place(g.table[z], y)
        /\ At(h, x) = Place(h.table[z], x) /\ At(h, y) = Place(h.table[z], y)
    BY <2>1 DEF At, ChainOf
  <2>3. InChain(h.table[z], x) /\ InChain(h.table[z], y)
    BY <1>1, <2>1, Nowhere, ElementOf DEF ChainOf
  <2> HIDE DEF z
  <2>4. CASE z = b
    <3>1. g.table[z] = t
      BY <2>1, <2>4
    <3> QED BY <1>1, <2>2, <2>3, <2>4, <3>1 DEF ChainOrder
  <2>5. CASE z # b
    <3>1. g.table[z] = h.table[z]
      BY <2>1, <2>5
    <3> QED BY <2>2, <3>1
  <2> QED BY <2>4, <2>5
<1> QED BY <1>1 DEF SameOrder

\* Each change of the dict keeps the other keys in their order.
LEMMA InsertedOrder ==
  ASSUME NEW c, DictOK(c), NEW e \in Entry, e.key \notin AllKeys(c), Size(c.ht[AddTo(c)]) > 0, NEW ks, ks \subseteq AllKeys(c)
  PROVE  SameFor(Insert(c, AddTo(c), e), c, ks)
<1> DEFINE n == AddTo(c)
           h == c.ht[n]
           b == Bucket(h, e.key)
           t == <<e>> \o h.table[b]
           w == Insert(c, n, e)
           g == w.ht[n]
<1>1. n \in {0, 1}
  BY DEF AddTo
<1>2. /\ DictOK(w) /\ Content(w) = Content(c) \cup {e}
      /\ w.ht[1 - n] = c.ht[1 - n] /\ Size(g) = Size(h)
      /\ \A x \in DOMAIN h.table : g.table[x] = IF x = b THEN t ELSE h.table[x]
  BY Inserted
<1> HIDE DEF n, w
<1>3. h \in HT /\ HtOK(h) /\ g \in HT /\ HtOK(g) /\ Size(h) > 0
  BY <1>1, <1>2 DEF DictOK, DictSet, n
<1> HIDE DEF h, g
<1>4. e.key \in Key /\ b \in DOMAIN h.table /\ h.table[b] \in Chain
  BY <1>3, BucketIn DEF Entry
<1>5. NoRepeat(h.table[b]) /\ \A p \in DOMAIN h.table[b] : h.table[b][p].key # e.key
  <2>1. NoRepeat(h.table[b]) /\ \A p \in DOMAIN h.table[b] : h.table[b][p].key \in KeysOf(h)
    BY <1>3, <1>4, ElementOf DEF HtOK, ChainOK
  <2>2. e.key \notin KeysOf(h)
    BY <1>1 DEF AllKeys, h
  <2> QED BY <2>1, <2>2
<1>6. ChainOrder(t, h.table[b], ks)
  BY <1>4, <1>5, PushedOrder
<1> HIDE DEF b, t
<1>7. ks \cap KeysOf(g) = ks \cap KeysOf(h)
  <2>1. AllKeys(w) = AllKeys(c) \cup {e.key}
    BY <1>2, SameKeys
  <2>2. KeysOf(g) = AllKeys(w) \ KeysOf(w.ht[1 - n])
    BY <1>1, <1>2 DEF DictOK, AllKeys, g
  <2>3. KeysOf(h) = AllKeys(c) \ KeysOf(c.ht[1 - n])
    BY <1>1 DEF DictOK, AllKeys, h
  <2> QED BY <1>2, <2>1, <2>2, <2>3
<1>8. SameOrder(g, h, ks)
  BY <1>2, <1>3, <1>4, <1>6, <1>7, TableOrder
<1>9. SameOrder(w.ht[1 - n], c.ht[1 - n], ks)
  BY <1>2, SameItself
<1>10. \A i \in {0, 1} : i = n \/ i = 1 - n
  BY <1>1
<1> QED BY <1>8, <1>9, <1>10 DEF SameFor, g, h, w, n

LEMMA UnlinkedOrder ==
  ASSUME NEW c, DictOK(c), NEW n \in {0, 1}, NEW k \in KeysOf(c.ht[n]), NEW ks, k \notin ks
  PROVE  SameFor(Unlink(c, n, k), c, ks)
<1> DEFINE h == c.ht[n]
           b == Bucket(h, k)
           t == RemoveAt(h.table[b], Place(h.table[b], k))
           w == Unlink(c, n, k)
           g == w.ht[n]
<1>2. /\ DictOK(w) /\ Content(w) = {x \in Content(c) : x.key # k}
      /\ w.ht[1 - n] = c.ht[1 - n] /\ Size(g) = Size(h)
      /\ \A x \in DOMAIN h.table : g.table[x] = IF x = b THEN t ELSE h.table[x]
  BY Unlinked
<1> HIDE DEF w
<1>3. h \in HT /\ HtOK(h) /\ g \in HT /\ HtOK(g) /\ k \in KeysOf(h)
  BY <1>2 DEF DictOK, DictSet
<1> HIDE DEF h, g
<1>4. /\ b \in DOMAIN h.table /\ h.table[b] \in Chain /\ NoRepeat(h.table[b])
      /\ Place(h.table[b], k) \in DOMAIN h.table[b] /\ h.table[b][Place(h.table[b], k)].key = k
  BY <1>3, Where
<1>6. ChainOrder(t, h.table[b], ks)
  BY <1>4, DroppedOrder
<1> HIDE DEF b, t
<1>7. ks \cap KeysOf(g) = ks \cap KeysOf(h)
  <2>1. AllKeys(w) = AllKeys(c) \ {k}
    BY <1>2, SameKeys
  <2>2. KeysOf(g) = AllKeys(w) \ KeysOf(w.ht[1 - n])
    BY <1>2 DEF DictOK, AllKeys, g
  <2>3. KeysOf(h) = AllKeys(c) \ KeysOf(c.ht[1 - n])
    BY DEF DictOK, AllKeys, h
  <2> QED BY <1>2, <2>1, <2>2, <2>3
<1>8. SameOrder(g, h, ks)
  BY <1>2, <1>3, <1>4, <1>6, <1>7, TableOrder
<1>9. SameOrder(w.ht[1 - n], c.ht[1 - n], ks)
  BY <1>2, SameItself
<1>10. \A i \in {0, 1} : i = n \/ i = 1 - n
  OBVIOUS
<1> QED BY <1>8, <1>9, <1>10 DEF SameFor, g, h, w

LEMMA ValueOrder ==
  ASSUME NEW c, DictOK(c), NEW n \in {0, 1}, NEW k \in KeysOf(c.ht[n]), NEW v \in Value, NEW ks
  PROVE  SameFor(SetVal(c, n, k, v), c, ks)
<1> DEFINE h == c.ht[n]
           b == Bucket(h, k)
           e == NewEntry(k, v)
           t == Revalued(h.table[b], e)
           w == SetVal(c, n, k, v)
           g == w.ht[n]
<1>2. /\ DictOK(w) /\ Content(w) = {x \in Content(c) : x.key # k} \cup {e}
      /\ w.ht[1 - n] = c.ht[1 - n] /\ Size(g) = Size(h)
      /\ \A x \in DOMAIN h.table : g.table[x] = IF x = b THEN t ELSE h.table[x]
  BY ValueSet
<1> HIDE DEF w
<1>3. h \in HT /\ HtOK(h) /\ g \in HT /\ HtOK(g) /\ k \in KeysOf(h)
  BY <1>2 DEF DictOK, DictSet
<1> HIDE DEF h, g
<1>4. /\ b \in DOMAIN h.table /\ h.table[b] \in Chain /\ NoRepeat(h.table[b])
      /\ Place(h.table[b], k) \in DOMAIN h.table[b] /\ h.table[b][Place(h.table[b], k)].key = k
  BY <1>3, Where
<1>5. e \in Entry /\ e.key = k
  BY <1>3, ElementOf DEF Entry, NewEntry
<1> HIDE DEF e
<1>6. ChainOrder(t, h.table[b], ks)
  BY <1>4, <1>5, OverwrittenOrder DEF Revalued
<1> HIDE DEF b, t
<1>7. ks \cap KeysOf(g) = ks \cap KeysOf(h)
  <2>1. AllKeys(w) = AllKeys(c)
    <3>1. k \in AllKeys(c)
      BY DEF AllKeys
    <3> QED BY <1>2, <1>5, <3>1, SameKeys
  <2>2. KeysOf(g) = AllKeys(w) \ KeysOf(w.ht[1 - n])
    BY <1>2 DEF DictOK, AllKeys, g
  <2>3. KeysOf(h) = AllKeys(c) \ KeysOf(c.ht[1 - n])
    BY DEF DictOK, AllKeys, h
  <2> QED BY <1>2, <2>1, <2>2, <2>3
<1>8. SameOrder(g, h, ks)
  BY <1>2, <1>3, <1>4, <1>6, <1>7, TableOrder
<1>9. SameOrder(w.ht[1 - n], c.ht[1 - n], ks)
  BY <1>2, SameItself
<1>10. \A i \in {0, 1} : i = n \/ i = 1 - n
  OBVIOUS
<1> QED BY <1>8, <1>9, <1>10 DEF SameFor, g, h, w

LEMMA GrownOrder ==
  ASSUME NEW c, DictOK(c), NEW w, Grown(w, c), Kept(w, c), NEW ks, ks \subseteq AllKeys(c)
  PROVE  SameFor(w, c, ks)
<1>1. CASE w = c
  BY <1>1, SameItself DEF SameFor
<1>2. CASE Size(c.ht[0]) = 0
  <2>1. AllKeys(c) = {}
    <3>1. c.ht[0] \in HT /\ c.ht[1] = NoTable
      BY <1>2 DEF DictOK, DictSet
    <3> QED BY <1>2, <3>1, NoKeys, NoTableIs DEF AllKeys
  <2> QED BY <2>1 DEF SameFor, SameOrder
<1>3. CASE c.rehashidx = -1 /\ w.rehashidx = 0 /\ w.ht[0] = c.ht[0] /\ KeysOf(w.ht[1]) = {}
  <2>1. KeysOf(c.ht[1]) = {}
    BY <1>3, NoTableIs DEF DictOK
  <2>2. SameOrder(w.ht[1], c.ht[1], ks)
    BY <1>3, <2>1 DEF SameOrder
  <2>3. SameOrder(w.ht[0], c.ht[0], ks)
    BY <1>3, SameItself
  <2> QED BY <2>2, <2>3 DEF SameFor
<1> QED BY <1>1, <1>2, <1>3 DEF Grown

-----------------------------------------------------------------------------
(* The iterator *)

\* The iterator it has gone past the entry of k.
Passed(c, it, k) ==
  \E n \in {0, 1} : k \in KeysOf(c.ht[n]) /\
    \/ n < it.table
    \/ n = it.table /\ Bucket(c.ht[n], k) - 1 < it.index
    \/ /\ n = it.table /\ Bucket(c.ht[n], k) - 1 = it.index
       /\ it.nextEntry = NULL \/ At(c.ht[n], k) < At(c.ht[n], it.nextEntry)

\* Where the iterator goes next.
NextIn(c, it) ==
  it.nextEntry # NULL =>
    /\ it.entry # NULL /\ it.nextEntry # it.entry
    /\ it.nextEntry \in KeysOf(c.ht[it.table]) /\ Bucket(c.ht[it.table], it.nextEntry) = it.index + 1

\* The iterator has returned each key that was there all along once, if it has gone past it, or
\* else not yet.
SeenInv ==
  /\ seen \in [Key -> Nat] /\ stayed \subseteq Key
  /\ iter.on =>
       /\ stayed \subseteq AllKeys(d)
       /\ iter.table = 1 => IsRehashing(d)
       /\ NextIn(d, iter)
       /\ \A k \in stayed : seen[k] = IF Passed(d, iter, k) THEN 1 ELSE 0
       /\ Exhausted => \A k \in stayed : Passed(d, iter, k)

\* The keys that the iterator is about.
Watched(it, ks) == ks \cup ({it.nextEntry} \ {NULL})

\* It does not matter to the iterator what happens to other keys.
LEMMA PassedSame ==
  ASSUME NEW c, DictOK(c), NEW w, NEW it, NEW ks, it.table \in {0, 1}, NextIn(c, it), SameFor(w, c, Watched(it, ks))
  PROVE  NextIn(w, it) /\ \A k \in ks : Passed(w, it, k) <=> Passed(c, it, k)
<1> DEFINE W == Watched(it, ks)
<1>1. /\ \A n \in {0, 1} : W \cap KeysOf(w.ht[n]) = W \cap KeysOf(c.ht[n])
      /\ \A n \in {0, 1} : W \cap KeysOf(c.ht[n]) # {} => Size(w.ht[n]) = Size(c.ht[n])
      /\ \A n \in {0, 1} : \A x, y \in W \cap KeysOf(c.ht[n]) : Bucket(c.ht[n], x) = Bucket(c.ht[n], y) =>
           (At(w.ht[n], x) < At(w.ht[n], y) <=> At(c.ht[n], x) < At(c.ht[n], y))
  BY DEF SameFor, SameOrder
<1>2. ks \subseteq W /\ (it.nextEntry # NULL => it.nextEntry \in W)
  BY DEF Watched
<1> HIDE DEF W
<1>3. ASSUME NEW n \in {0, 1}, NEW k \in W, k \in KeysOf(c.ht[n])
      PROVE  Bucket(w.ht[n], k) = Bucket(c.ht[n], k) /\ Bucket(c.ht[n], k) \in Nat
  <2>1. Size(w.ht[n]) = Size(c.ht[n])
    BY <1>1, <1>3
  <2>2. Bucket(c.ht[n], k) \in Nat
    BY <1>3, AtPlace DEF DictOK, DictSet
  <2> QED BY <2>1, <2>2 DEF Bucket
<1>4. NextIn(w, it)
  <2> SUFFICES ASSUME it.nextEntry # NULL
               PROVE  /\ it.entry # NULL /\ it.nextEntry # it.entry
                      /\ it.nextEntry \in KeysOf(w.ht[it.table]) /\ Bucket(w.ht[it.table], it.nextEntry) = it.index + 1
    BY DEF NextIn
  <2>1. /\ it.entry # NULL /\ it.nextEntry # it.entry
        /\ it.nextEntry \in KeysOf(c.ht[it.table]) /\ Bucket(c.ht[it.table], it.nextEntry) = it.index + 1
    BY DEF NextIn
  <2>2. it.nextEntry \in KeysOf(w.ht[it.table])
    BY <1>1, <1>2, <2>1
  <2>3. Bucket(w.ht[it.table], it.nextEntry) = Bucket(c.ht[it.table], it.nextEntry)
    BY <1>2, <1>3, <2>1
  <2> QED BY <2>1, <2>2, <2>3
<1>5. ASSUME NEW k \in ks, NEW n \in {0, 1}, k \in KeysOf(c.ht[n]), n = it.table,
             Bucket(c.ht[n], k) - 1 = it.index, it.nextEntry # NULL
      PROVE  At(w.ht[n], k) < At(w.ht[n], it.nextEntry) <=> At(c.ht[n], k) < At(c.ht[n], it.nextEntry)
  <2>1. it.nextEntry \in KeysOf(c.ht[n]) /\ Bucket(c.ht[n], it.nextEntry) = it.index + 1
    BY <1>5 DEF NextIn
  <2>2. Bucket(c.ht[n], k) \in Nat
    BY <1>2, <1>3, <1>5
  <2>3. Bucket(c.ht[n], k) = Bucket(c.ht[n], it.nextEntry)
    BY <1>5, <2>1, <2>2
  <2> QED BY <1>1, <1>2, <1>5, <2>1, <2>3
<1>6. ASSUME NEW k \in ks PROVE Passed(w, it, k) <=> Passed(c, it, k)
  <2>1. ASSUME NEW n \in {0, 1}
        PROVE  /\ k \in KeysOf(w.ht[n]) <=> k \in KeysOf(c.ht[n])
               /\ k \in KeysOf(c.ht[n]) => Bucket(w.ht[n], k) = Bucket(c.ht[n], k)
    BY <1>1, <1>2, <1>3
  <2>2. ASSUME Passed(c, it, k) PROVE Passed(w, it, k)
    <3>1. PICK n \in {0, 1} : k \in KeysOf(c.ht[n]) /\
            \/ n < it.table
            \/ n = it.table /\ Bucket(c.ht[n], k) - 1 < it.index
            \/ /\ n = it.table /\ Bucket(c.ht[n], k) - 1 = it.index
               /\ it.nextEntry = NULL \/ At(c.ht[n], k) < At(c.ht[n], it.nextEntry)
      BY <2>2 DEF Passed
    <3>2. k \in KeysOf(w.ht[n]) /\
            \/ n < it.table
            \/ n = it.table /\ Bucket(w.ht[n], k) - 1 < it.index
            \/ /\ n = it.table /\ Bucket(w.ht[n], k) - 1 = it.index
               /\ it.nextEntry = NULL \/ At(w.ht[n], k) < At(w.ht[n], it.nextEntry)
      BY <1>5, <2>1, <3>1
    <3> QED BY <3>2 DEF Passed
  <2>3. ASSUME Passed(w, it, k) PROVE Passed(c, it, k)
    <3>1. PICK n \in {0, 1} : k \in KeysOf(w.ht[n]) /\
            \/ n < it.table
            \/ n = it.table /\ Bucket(w.ht[n], k) - 1 < it.index
            \/ /\ n = it.table /\ Bucket(w.ht[n], k) - 1 = it.index
               /\ it.nextEntry = NULL \/ At(w.ht[n], k) < At(w.ht[n], it.nextEntry)
      BY <2>3 DEF Passed
    <3>2. k \in KeysOf(c.ht[n]) /\
            \/ n < it.table
            \/ n = it.table /\ Bucket(c.ht[n], k) - 1 < it.index
            \/ /\ n = it.table /\ Bucket(c.ht[n], k) - 1 = it.index
               /\ it.nextEntry = NULL \/ At(c.ht[n], k) < At(c.ht[n], it.nextEntry)
      BY <1>5, <2>1, <3>1
    <3> QED BY <3>2 DEF Passed
  <2> QED BY <2>2, <2>3
<1> QED BY <1>4, <1>6

\* An iterator before its first dictNext has gone past nothing.
LEMMA FreshPasses ==
  ASSUME NEW c, DictOK(c), NEW it, it.table = 0, it.index = -1, NEW k
  PROVE  ~Passed(c, it, k)
<1> SUFFICES ASSUME NEW n \in {0, 1}, k \in KeysOf(c.ht[n]),
                    \/ n < it.table
                    \/ n = it.table /\ Bucket(c.ht[n], k) - 1 < it.index
                    \/ n = it.table /\ Bucket(c.ht[n], k) - 1 = it.index
             PROVE  FALSE
  BY DEF Passed
<1>1. Bucket(c.ht[n], k) \in Nat \ {0}
  BY AtPlace DEF DictOK, DictSet
<1> QED BY <1>1

\* A call on the dict while there is an iterator.
LEMMA IterationKept ==
  ASSUME DictInv, SeenInv, DictOK(d'), UNCHANGED <<iter, seen>>, stayed' \subseteq stayed,
         iter.on => stayed' \subseteq AllKeys(d'),
         iter.on /\ iter.index # -1 /\ IsRehashing(d) => IsRehashing(d'),
         iter.on /\ iter.index # -1 => SameFor(d', d, Watched(iter, stayed'))
  PROVE  SeenInv'
<1>0. DictOK(d) /\ IterInv
  BY DEF DictInv
<1>1. CASE ~iter.on
  BY <1>1 DEF SeenInv
<1>2. CASE iter.on /\ iter.index = -1
  <2>1. iter.table = 0 /\ iter.nextEntry = NULL /\ \A k : ~Passed(d, iter, k) /\ ~Passed(d', iter, k)
    BY <1>0, <1>2, FreshPasses DEF IterInv
  <2>2. ~Exhausted /\ NextIn(d', iter)
    BY <1>2, <2>1 DEF Exhausted, NextIn
  <2>3. \A k \in stayed' : seen[k] = 0
    BY <1>2, <2>1 DEF SeenInv
  <2> QED BY <1>2, <2>1, <2>2, <2>3 DEF SeenInv, Exhausted
<1>3. CASE iter.on /\ iter.index # -1
  <2>1. iter.table \in {0, 1} /\ NextIn(d, iter)
    BY <1>0, <1>3 DEF IterInv, SeenInv
  <2>2. NextIn(d', iter) /\ \A k \in stayed' : Passed(d', iter, k) <=> Passed(d, iter, k)
    BY <1>0, <1>3, <2>1, PassedSame
  <2>3. iter.table = 1 => IsRehashing(d')
    BY <1>3 DEF SeenInv
  <2>4. \A k \in stayed' : seen[k] = IF Passed(d', iter, k) THEN 1 ELSE 0
    BY <1>3, <2>2 DEF SeenInv
  <2>5. Exhausted => \A k \in stayed' : Passed(d', iter, k)
    BY <1>3, <2>2 DEF SeenInv
  <2> QED BY <1>3, <2>2, <2>3, <2>4, <2>5 DEF SeenInv, Exhausted
<1> QED BY <1>1, <1>2, <1>3

\* No entry is moved while there is an iterator.
LEMMA AddedOrder ==
  ASSUME NEW c, DictOK(c), c.iterators # 0, NEW k \in Key, NEW v \in Value, NEW ks, ks \subseteq AllKeys(c)
  PROVE  SameFor(Added(c, k, v), c, ks) /\ (IsRehashing(c) => IsRehashing(Added(c, k, v)))
<1> DEFINE s == Prepared(c)
           e == [key |-> k, val |-> v]
           w == Added(c, k, v)
<1>1. s = _dictExpandIfNeeded(c)
  BY DEF Prepared, _dictRehashStep
<1>2. Kept(s, c) /\ Grown(s, c) /\ Size(s.ht[AddTo(s)]) > 0
  BY <1>1, ExpandedIfNeeded, PreparedOK
<1>3. w = IF TableOf(s, k) # -1 THEN s ELSE Insert(s, AddTo(s), e)
  BY DEF Added
<1>4. e \in Entry /\ e.key = k
  BY DEF Entry
<1> HIDE DEF s, e, w
<1>5. DictOK(s) /\ AllKeys(s) = AllKeys(c)
  BY <1>2, SameKeys DEF Kept
<1>6. SameFor(s, c, ks)
  BY <1>2, GrownOrder
<1>7. IsRehashing(c) => IsRehashing(s)
  <2>1. IsRehashing(c) => Size(c.ht[0]) # 0
    BY DEF DictOK, IsRehashing
  <2> QED BY <1>2, <2>1 DEF Grown, IsRehashing
<1>8. CASE TableOf(s, k) # -1
  BY <1>3, <1>6, <1>7, <1>8 DEF w
<1>9. CASE TableOf(s, k) = -1
  <2>1. e.key \notin AllKeys(s)
    BY <1>4, <1>5, <1>9, Located
  <2>2. SameFor(Insert(s, AddTo(s), e), s, ks)
    BY <1>2, <1>4, <1>5, <2>1, InsertedOrder
  <2>3. Alike(Insert(s, AddTo(s), e), s)
    BY <1>2, <1>4, <1>5, <2>1, Inserted
  <2>4. w = Insert(s, AddTo(s), e)
    BY <1>3, <1>9
  <2>5. SameFor(w, c, ks)
    BY <1>6, <2>2, <2>4, SameTwice
  <2> QED BY <1>7, <2>3, <2>4, <2>5 DEF w, Alike, IsRehashing
<1> QED BY <1>8, <1>9

\* Setting an entry loses no key.
LEMMA AddsKeepKeys ==
  ASSUME NEW c, NEW w, NEW k, NEW v,
         Content(w) = Content(c) \/ Content(w) = {x \in Content(c) : x.key # k} \cup {[key |-> k, val |-> v]}
  PROVE  AllKeys(c) \subseteq AllKeys(w)
<1> DEFINE e == [key |-> k, val |-> v]
<1>1. e.key = k
  OBVIOUS
<1>2. AllKeys(c) = {x.key : x \in Content(c)} /\ AllKeys(w) = {x.key : x \in Content(w)}
  BY SameKeys
<1>3. Content(w) = Content(c) \/ Content(w) = {x \in Content(c) : x.key # k} \cup {e}
  OBVIOUS
<1> HIDE DEF e
<1>4. ASSUME NEW x \in Content(c) PROVE \E y \in Content(w) : y.key = x.key
  BY <1>1, <1>3
<1> QED BY <1>2, <1>4

LEMMA WatchedIn ==
  ASSUME DictInv, SeenInv, iter.on, NEW ks, ks \subseteq stayed
  PROVE  Watched(iter, ks) \subseteq AllKeys(d)
<1>1. iter.nextEntry # NULL => iter.nextEntry \in AllKeys(d)
  BY DEF SeenInv, NextIn, AllKeys, DictInv, IterInv
<1> QED BY <1>1 DEF Watched, SeenInv

LEMMA AddKeeps ==
  ASSUME DictInv, SeenInv, NEW k \in Key, NEW v \in Value, dictAdd(k, v)
  PROVE  SeenInv'
<1>1. DictOK(d) /\ DictOK(d') /\ UNCHANGED <<iter, seen, stayed>> /\ d' = Added(d, k, v) /\ (Quiet \/ OnlyAdds(k, v))
  BY AddStep DEF DictInv, dictAdd, itervars
<1>2. AllKeys(d) \subseteq AllKeys(d')
  BY <1>1, AddsKeepKeys DEF Quiet, OnlyAdds
<1>3. iter.on /\ iter.index # -1 => d.iterators # 0
  BY DEF DictInv, IterInv
<1>4. iter.on /\ iter.index # -1 => SameFor(d', d, Watched(iter, stayed')) /\ (IsRehashing(d) => IsRehashing(d'))
  BY <1>1, <1>3, AddedOrder, WatchedIn
<1>5. iter.on => stayed' \subseteq AllKeys(d')
  BY <1>1, <1>2 DEF SeenInv
<1> QED BY <1>1, <1>4, <1>5, IterationKept

LEMMA ReplaceKeeps ==
  ASSUME DictInv, SeenInv, NEW k \in Key, NEW v \in Value, dictReplace(k, v)
  PROVE  SeenInv'
<1> DEFINE a == Added(d, k, v)
           n == TableOf(a, k)
<1>1. DictOK(d) /\ DictOK(d') /\ UNCHANGED <<iter, seen, stayed>> /\ OnlyAdds(k, v)
  BY ReplaceStep DEF DictInv, dictReplace, itervars
<1>2. AllKeys(d) \subseteq AllKeys(d')
  BY <1>1, AddsKeepKeys DEF OnlyAdds
<1>3. ASSUME iter.on, iter.index # -1
      PROVE  SameFor(d', d, Watched(iter, stayed')) /\ (IsRehashing(d) => IsRehashing(d'))
  <2>1. d.iterators # 0
    BY <1>3 DEF DictInv, IterInv
  <2>2. /\ DictOK(a) /\ a.iterators = d.iterators
        /\ TableOf(Prepared(d), k) = -1 <=> k \notin AllKeys(d)
        /\ Content(a) = IF k \in AllKeys(d) THEN Content(d) ELSE Content(d) \cup {[key |-> k, val |-> v]}
    BY <1>1, AddedOK
  <2>3. _dictRehashStep(a) = a
    BY <2>1, <2>2 DEF _dictRehashStep
  <2>4. d' = IF TableOf(Prepared(d), k) = -1 THEN a ELSE SetVal(a, n, k, v)
    BY <2>3 DEF dictReplace
  <2>5. SameFor(a, d, Watched(iter, stayed')) /\ (IsRehashing(d) => IsRehashing(a))
    BY <1>1, <1>3, <2>1, AddedOrder, WatchedIn
  <2> HIDE DEF a, n
  <2>6. CASE TableOf(Prepared(d), k) = -1
    BY <2>4, <2>5, <2>6
  <2>7. CASE TableOf(Prepared(d), k) # -1
    <3>1. k \in AllKeys(a)
      BY <2>2, <2>7, SameKeys
    <3>2. n \in {0, 1} /\ k \in KeysOf(a.ht[n])
      BY <2>2, <3>1, Located DEF n
    <3>3. SameFor(SetVal(a, n, k, v), a, Watched(iter, stayed'))
      BY <2>2, <3>2, ValueOrder
    <3>4. Alike(SetVal(a, n, k, v), a)
      BY <2>2, <3>2, ValueSet
    <3>5. d' = SetVal(a, n, k, v)
      BY <2>4, <2>7
    <3>6. SameFor(d', d, Watched(iter, stayed'))
      BY <2>5, <3>3, <3>5, SameTwice
    <3> QED BY <2>5, <3>4, <3>5, <3>6 DEF Alike, IsRehashing
  <2> QED BY <2>6, <2>7
<1>4. iter.on => stayed' \subseteq AllKeys(d')
  BY <1>1, <1>2 DEF SeenInv
<1> QED BY <1>1, <1>3, <1>4, IterationKept

LEMMA DeleteKeeps ==
  ASSUME DictInv, SeenInv, NEW k \in Key, dictGenericDelete(k)
  PROVE  SeenInv'
<1> DEFINE n == TableOf(d, k)
<1>1. DictOK(d) /\ DictOK(d') /\ UNCHANGED <<iter, seen>> /\ stayed' = stayed \ {k} /\ OnlyTakes(k) /\ (iter.on => iter.entry = k)
  BY DeleteStep DEF DictInv, dictGenericDelete
<1>2. AllKeys(d) \ {k} \subseteq AllKeys(d')
  BY <1>1, SameKeys DEF OnlyTakes
<1>3. ASSUME iter.on, iter.index # -1
      PROVE  SameFor(d', d, Watched(iter, stayed')) /\ (IsRehashing(d) => IsRehashing(d'))
  <2>1. _dictRehashStep(d) = d
    BY <1>3 DEF DictInv, IterInv, _dictRehashStep
  <2>2. d' = IF Size(d.ht[0]) = 0 THEN d ELSE IF n = -1 THEN d ELSE Unlink(d, n, k)
    BY <2>1 DEF dictGenericDelete
  <2>3. k \notin Watched(iter, stayed')
    BY <1>1, <1>3 DEF Watched, SeenInv, NextIn
  <2>4. CASE d' = d
    BY <2>4, SameItself DEF SameFor
  <2>5. CASE n # -1 /\ d' = Unlink(d, n, k)
    <3>1. n \in {0, 1} /\ k \in KeysOf(d.ht[n])
      BY <1>1, <2>5, Located
    <3> HIDE DEF n
    <3>2. Alike(Unlink(d, n, k), d)
      BY <1>1, <3>1, Unlinked
    <3>3. SameFor(Unlink(d, n, k), d, Watched(iter, stayed'))
      BY <1>1, <2>3, <3>1, UnlinkedOrder
    <3> QED BY <2>5, <3>2, <3>3 DEF Alike, IsRehashing
  <2> QED BY <2>2, <2>4, <2>5
<1>4. iter.on => stayed' \subseteq AllKeys(d')
  BY <1>1, <1>2 DEF SeenInv
<1> QED BY <1>1, <1>3, <1>4, IterationKept

LEMMA FindKeeps ==
  ASSUME DictInv, SeenInv, dictGetRandomKey \/ \E k \in Key : dictFind(k)
  PROVE  SeenInv'
<1>1. Kept(d', d) /\ UNCHANGED <<iter, seen, stayed>>
  BY FindStep DEF dictFind, dictGetRandomKey, itervars
<1>2. DictOK(d') /\ AllKeys(d') = AllKeys(d)
  BY <1>1, SameKeys DEF Kept
<1>3. ASSUME iter.on, iter.index # -1 PROVE d' = d
  <2>1. _dictRehashStep(d) = d
    BY <1>3 DEF DictInv, IterInv, _dictRehashStep
  <2> QED BY <2>1 DEF dictFind, dictGetRandomKey
<1>4. iter.on /\ iter.index # -1 => SameFor(d', d, Watched(iter, stayed'))
  BY <1>3, SameItself DEF SameFor
<1>5. iter.on => stayed' \subseteq AllKeys(d')
  BY <1>1, <1>2 DEF SeenInv
<1> QED BY <1>1, <1>2, <1>3, <1>4, <1>5, IterationKept

LEMMA GetIteratorKeeps ==
  ASSUME DictInv, SeenInv, dictGetIterator
  PROVE  SeenInv'
<1>1. /\ iter' = [on |-> TRUE, table |-> 0, index |-> -1, entry |-> NULL, nextEntry |-> NULL]
      /\ seen' = [k \in Key |-> 0] /\ stayed' = {k \in Key : TableOf(d, k) # -1} /\ d' = d
  BY DEF dictGetIterator, NoIter
<1>2. DictOK(d)
  BY DEF DictInv
<1>3. stayed' \subseteq AllKeys(d)
  BY <1>1, <1>2, Located
<1>4. \A k : ~Passed(d, iter', k)
  BY <1>1, <1>2, FreshPasses
<1>5. NextIn(d, iter') /\ ~(iter'.index >= 0)
  BY <1>1 DEF NextIn
<1>6. seen' \in [Key -> Nat] /\ stayed' \subseteq Key /\ \A k \in stayed' : seen'[k] = 0
  BY <1>1
<1>7. iter'.table # 1
  BY <1>1
<1> QED BY <1>1, <1>3, <1>4, <1>5, <1>6, <1>7 DEF SeenInv, Exhausted

\* The entry of k comes before that of x, in table n, for the iterator.
Earlier(c, n, x, k) ==
  \E m \in {0, 1} : k \in KeysOf(c.ht[m]) /\
    \/ m < n
    \/ m = n /\ Bucket(c.ht[m], k) < Bucket(c.ht[n], x)
    \/ m = n /\ Bucket(c.ht[m], k) = Bucket(c.ht[n], x) /\ At(c.ht[m], k) < At(c.ht[n], x)

\* The iterator it has just returned the entry of x in table n.
Returned(c, it, n, x) ==
  /\ it.table = n /\ it.index = Bucket(c.ht[n], x) - 1
  /\ it.entry = x /\ it.nextEntry = After(ChainOf(c.ht[n], x), x)

LEMMA ReturnedPasses ==
  ASSUME NEW c, DictOK(c), NEW n \in {0, 1}, NEW x \in KeysOf(c.ht[n]), NEW it, Returned(c, it, n, x)
  PROVE  /\ NextIn(c, it) /\ ~Earlier(c, n, x, x)
         /\ \A k : Passed(c, it, k) <=> Earlier(c, n, x, k) \/ k = x
<1> DEFINE h == c.ht[n]
           s == ChainOf(h, x)
<1>1. \A m \in {0, 1} : c.ht[m] \in HT /\ HtOK(c.ht[m])
  BY DEF DictOK, DictSet
<1>2. h \in HT /\ HtOK(h)
  BY <1>1
<1>3. /\ Bucket(h, x) \in Nat \ {0} /\ s \in Chain /\ At(h, x) \in DOMAIN s /\ At(h, x) \in Nat \ {0}
      /\ s[At(h, x)].key = x /\ x # NULL /\ s = h.table[Bucket(h, x)]
  BY <1>2, AtPlace
<1>4. IF At(h, x) < Len(s)
      THEN /\ it.nextEntry \in KeysOf(h) /\ it.nextEntry # NULL /\ it.nextEntry # x
           /\ Bucket(h, it.nextEntry) = Bucket(h, x) /\ At(h, it.nextEntry) = At(h, x) + 1
      ELSE it.nextEntry = NULL /\ At(h, x) = Len(s)
  BY <1>2, AfterIs DEF Returned
<1>5. it.table = n /\ it.index = Bucket(h, x) - 1 /\ it.entry = x
  BY DEF Returned
<1>6. c.ht[it.table] = h
  BY <1>5
<1> HIDE DEF s, h
<1>7. NextIn(c, it)
  BY <1>3, <1>4, <1>5, <1>6 DEF NextIn
<1>8. \A m \in {0, 1} : x \in KeysOf(c.ht[m]) => m = n
  BY DEF DictOK
<1>9. ~Earlier(c, n, x, x)
  BY <1>3, <1>8 DEF Earlier, h
<1>10. ASSUME NEW k \in KeysOf(h), Bucket(h, k) = Bucket(h, x)
       PROVE  (it.nextEntry = NULL \/ At(h, k) < At(h, it.nextEntry)) <=> (At(h, k) < At(h, x) \/ k = x)
  <2>1. ChainOf(h, k) = s /\ At(h, k) \in DOMAIN s /\ At(h, k) \in Nat /\ s[At(h, k)].key = k
    BY <1>2, <1>3, <1>10, AtPlace
  <2>2. At(h, k) <= Len(s) /\ Len(s) \in Nat
    BY <1>3, <2>1 DEF Chain
  <2>3. At(h, k) = At(h, x) <=> k = x
    BY <1>3, <2>1
  <2>4. CASE At(h, x) < Len(s)
    BY <1>3, <1>4, <2>1, <2>3, <2>4
  <2>5. CASE ~(At(h, x) < Len(s))
    BY <1>3, <1>4, <2>1, <2>2, <2>3, <2>5
  <2> QED BY <2>4, <2>5
<1>11. ASSUME NEW k, NEW m \in {0, 1}, k \in KeysOf(c.ht[m])
       PROVE  (\/ m < it.table
               \/ m = it.table /\ Bucket(c.ht[m], k) - 1 < it.index
               \/ /\ m = it.table /\ Bucket(c.ht[m], k) - 1 = it.index
                  /\ it.nextEntry = NULL \/ At(c.ht[m], k) < At(c.ht[m], it.nextEntry))
              <=> (\/ m < n
                   \/ m = n /\ Bucket(c.ht[m], k) < Bucket(c.ht[n], x)
                   \/ m = n /\ Bucket(c.ht[m], k) = Bucket(c.ht[n], x) /\ At(c.ht[m], k) < At(c.ht[n], x)
                   \/ k = x)
  <2>1. Bucket(c.ht[m], k) \in Nat
    BY <1>1, <1>11, AtPlace
  <2>2. CASE m # n
    <3>1. k # x
      BY <1>8, <1>11, <2>2
    <3> QED BY <1>5, <2>2, <3>1
  <2>3. CASE m = n
    <3>1. c.ht[m] = h /\ c.ht[n] = h
      BY <2>3 DEF h
    <3>2. Bucket(h, k) \in Nat /\ Bucket(h, x) \in Nat /\ k \in KeysOf(h)
      BY <1>3, <1>11, <2>1, <3>1
    <3>3. (Bucket(h, k) - 1 < it.index <=> Bucket(h, k) < Bucket(h, x)) /\ (Bucket(h, k) - 1 = it.index <=> Bucket(h, k) = Bucket(h, x))
      BY <1>5, <3>2
    <3>4. k = x => Bucket(h, k) = Bucket(h, x)
      OBVIOUS
    <3>5. it.table = n /\ m = n /\ ~(m < n)
      BY <1>5, <2>3
    <3> QED BY <1>10, <3>1, <3>2, <3>3, <3>4, <3>5
  <2> QED BY <2>2, <2>3
<1>12. ASSUME NEW k PROVE Passed(c, it, k) <=> Earlier(c, n, x, k) \/ k = x
  <2>1. Passed(c, it, k) <=> \E m \in {0, 1} : k \in KeysOf(c.ht[m]) /\
              (\/ m < n
               \/ m = n /\ Bucket(c.ht[m], k) < Bucket(c.ht[n], x)
               \/ m = n /\ Bucket(c.ht[m], k) = Bucket(c.ht[n], x) /\ At(c.ht[m], k) < At(c.ht[n], x)
               \/ k = x)
    BY <1>11 DEF Passed
  <2> QED BY <2>1 DEF Earlier, h
<1> QED BY <1>7, <1>9, <1>12

\* The buckets that have keys.
LEMMA HasKey ==
  ASSUME DictOK(d), NEW n \in {0, 1}, NEW i \in Nat, NEW k \in KeysOf(d.ht[n]), Bucket(d.ht[n], k) - 1 >= i
  PROVE  Bucket(d.ht[n], k) - 1 \in NonEmpty(n, i)
<1> DEFINE h == d.ht[n]
           b == Bucket(h, k)
<1>1. h \in HT /\ HtOK(h)
  BY DEF DictOK, DictSet
<1>2. b \in DOMAIN h.table /\ h.table[b] # << >>
  <2>1. b \in DOMAIN h.table /\ At(h, k) \in DOMAIN h.table[b]
    BY <1>1, AtPlace
  <2> QED BY <2>1
<1>3. DOMAIN h.table = 1 .. Size(h) /\ Size(h) \in Nat
  BY <1>1 DEF HT, Size
<1> HIDE DEF b
<1>4. b - 1 \in i .. Size(h) - 1 /\ h.table[(b - 1) + 1] # << >>
  <2>1. b - 1 >= i
    BY DEF b
  <2>2. b \in Int /\ (b - 1) + 1 = b
    BY <1>2, <1>3
  <2> HIDE DEF h
  <2> QED BY <1>2, <1>3, <2>1, <2>2
<1> QED BY <1>4 DEF NonEmpty, b

\* The head of the first bucket that is not empty.
LEMMA HeadOfFirst ==
  ASSUME DictOK(d), NEW n \in {0, 1}, NEW i \in Nat, NonEmpty(n, i) # {}
  PROVE  LET b == Min(NonEmpty(n, i))
         IN  \E x \in KeysOf(d.ht[n]) :
               /\ Returned(d, AtHead(n, b), n, x)
               /\ \A k : Earlier(d, n, x, k) <=>
                    \E m \in {0, 1} : k \in KeysOf(d.ht[m]) /\ (m < n \/ (m = n /\ Bucket(d.ht[m], k) <= i))
<1> DEFINE h == d.ht[n]
           b == Min(NonEmpty(n, i))
           x == Head(h.table[b + 1]).key
<1>1. h \in HT /\ HtOK(h)
  BY DEF DictOK, DictSet
<1>2. DOMAIN h.table = 1 .. Size(h) /\ Size(h) \in Nat
  BY <1>1 DEF HT, Size
<1>3. b \in NonEmpty(n, i) /\ \A y \in NonEmpty(n, i) : b <= y
  <2>1. NonEmpty(n, i) \subseteq Nat
    BY <1>2 DEF NonEmpty
  <2> QED BY <2>1, LeastNumber
<1> HIDE DEF b
<1>4. b \in Nat /\ b >= i /\ b + 1 \in DOMAIN h.table /\ h.table[b + 1] # << >>
  BY <1>2, <1>3 DEF NonEmpty
<1>5. h.table[b + 1] \in Chain
  BY <1>1, <1>4 DEF HT
<1>6. 1 \in DOMAIN h.table[b + 1] /\ x = h.table[b + 1][1].key
  BY <1>4, <1>5 DEF Chain
<1>7. x \in KeysOf(h) /\ Bucket(h, x) = b + 1 /\ ChainOf(h, x) = h.table[b + 1] /\ At(h, x) = 1
  <2>1. /\ h.table[b + 1][1].key \in KeysOf(h) /\ Bucket(h, h.table[b + 1][1].key) = b + 1
        /\ ChainOf(h, h.table[b + 1][1].key) = h.table[b + 1] /\ At(h, h.table[b + 1][1].key) = 1
    <3> HIDE DEF h, x
    <3> QED BY <1>1, <1>4, <1>6, OneAtPlace
  <2> QED BY <1>6, <2>1
<1>8. Returned(d, AtHead(n, b), n, x)
  <2>1. AtHead(n, b) = [on |-> TRUE, table |-> n, index |-> b, entry |-> x, nextEntry |-> After(h.table[b + 1], x)]
    BY DEF AtHead
  <2> HIDE DEF x
  <2>2. b = Bucket(h, x) - 1
    BY <1>4, <1>7
  <2> QED BY <1>7, <2>1, <2>2 DEF Returned
<1> HIDE DEF x
<1>9. ASSUME NEW k, NEW m \in {0, 1}, k \in KeysOf(d.ht[m])
      PROVE  (\/ m < n
              \/ m = n /\ Bucket(d.ht[m], k) < Bucket(d.ht[n], x)
              \/ m = n /\ Bucket(d.ht[m], k) = Bucket(d.ht[n], x) /\ At(d.ht[m], k) < At(d.ht[n], x))
             <=> (m < n \/ (m = n /\ Bucket(d.ht[m], k) <= i))
  <2>1. CASE m # n
    BY <2>1
  <2>2. CASE m = n
    <3>1. Bucket(h, k) \in Nat /\ At(h, k) \in Nat \ {0} /\ k \in KeysOf(h)
      BY <1>1, <1>9, <2>2, AtPlace
    <3>2. Bucket(h, k) - 1 >= i => Bucket(h, k) - 1 >= b
      BY <1>3, <3>1, HasKey
    <3>3. d.ht[m] = h
      BY <2>2
    <3> HIDE DEF h
    <3>4. (Bucket(h, k) < b + 1 <=> Bucket(h, k) <= i) /\ ~(At(h, k) < 1)
      BY <1>4, <3>1, <3>2
    <3>5. d.ht[n] = h
      BY DEF h
    <3> QED BY <1>7, <2>2, <3>3, <3>4, <3>5
  <2> QED BY <2>1, <2>2
<1>10. \A k : Earlier(d, n, x, k) <=>
          \E m \in {0, 1} : k \in KeysOf(d.ht[m]) /\ (m < n \/ (m = n /\ Bucket(d.ht[m], k) <= i))
  BY <1>9 DEF Earlier
<1> QED BY <1>7, <1>8, <1>10 DEF b

\* An iterator that has come to the end of a chain.
LEMMA ChainDone ==
  ASSUME DictOK(d), IterInv, iter.nextEntry = NULL, NEW k
  PROVE  Passed(d, iter, k) <=>
           \E m \in {0, 1} : k \in KeysOf(d.ht[m]) /\ (m < iter.table \/ (m = iter.table /\ Bucket(d.ht[m], k) <= iter.index + 1))
<1>1. ASSUME NEW m \in {0, 1}, k \in KeysOf(d.ht[m])
      PROVE  (\/ m < iter.table
              \/ m = iter.table /\ Bucket(d.ht[m], k) - 1 < iter.index
              \/ /\ m = iter.table /\ Bucket(d.ht[m], k) - 1 = iter.index
                 /\ iter.nextEntry = NULL \/ At(d.ht[m], k) < At(d.ht[m], iter.nextEntry))
             <=> (m < iter.table \/ (m = iter.table /\ Bucket(d.ht[m], k) <= iter.index + 1))
  <2>1. Bucket(d.ht[m], k) \in Nat
    BY <1>1, AtPlace DEF DictOK, DictSet
  <2> QED BY <2>1 DEF IterInv
<1> QED BY <1>1 DEF Passed

\* dictNext returns the next entry, or finds that the iterator has gone past all.
LEMMA AdvancedIs ==
  ASSUME DictInv, SeenInv, iter.on, ~Exhausted
  PROVE  \/ \E n \in {0, 1} : \E x \in KeysOf(d.ht[n]) :
              /\ Returned(d, Advanced, n, x) /\ (n = 1 => IsRehashing(d))
              /\ \A k : Passed(d, iter, k) <=> Earlier(d, n, x, k)
         \/ /\ Advanced.entry = NULL /\ Advanced.nextEntry = NULL /\ (Advanced.table = 1 => IsRehashing(d))
            /\ \A k \in AllKeys(d) : Passed(d, iter, k) /\ Passed(d, Advanced, k)
<1>0. /\ DictOK(d) /\ IterInv /\ iter.table \in {0, 1} /\ iter.index \in Int /\ iter.index + 1 \in Nat
      /\ NextIn(d, iter) /\ (iter.table = 1 => IsRehashing(d))
      /\ \A m \in {0, 1} : d.ht[m] \in HT /\ HtOK(d.ht[m])
  BY DEF DictInv, IterInv, SeenInv, DictOK, DictSet
<1>1. CASE iter.entry # NULL /\ iter.nextEntry # NULL
  <2> DEFINE n == iter.table
             x == iter.nextEntry
             h == d.ht[n]
  <2>1. x \in KeysOf(h) /\ Bucket(h, x) = iter.index + 1 /\ Bucket(h, x) \in Nat /\ ChainOf(h, x) = h.table[iter.index + 1]
    BY <1>0, <1>1, AtPlace DEF NextIn, ChainOf
  <2>2. Advanced = [on |-> TRUE, table |-> n, index |-> iter.index, entry |-> x, nextEntry |-> After(h.table[iter.index + 1], x)]
    BY <1>1 DEF Advanced
  <2> HIDE DEF h
  <2>3. Returned(d, Advanced, n, x)
    <3>1. iter.index = Bucket(h, x) - 1
      BY <1>0, <2>1
    <3> QED BY <2>1, <2>2, <3>1 DEF Returned, h
  <2>4. ASSUME NEW k, NEW m \in {0, 1}, k \in KeysOf(d.ht[m])
        PROVE  (\/ m < n
                \/ m = n /\ Bucket(d.ht[m], k) - 1 < iter.index
                \/ /\ m = n /\ Bucket(d.ht[m], k) - 1 = iter.index
                   /\ x = NULL \/ At(d.ht[m], k) < At(d.ht[m], x))
               <=> (\/ m < n
                    \/ m = n /\ Bucket(d.ht[m], k) < Bucket(d.ht[n], x)
                    \/ m = n /\ Bucket(d.ht[m], k) = Bucket(d.ht[n], x) /\ At(d.ht[m], k) < At(d.ht[n], x))
    <3>1. Bucket(d.ht[m], k) \in Nat
      BY <1>0, <2>4, AtPlace
    <3>2. (Bucket(d.ht[m], k) - 1 < iter.index <=> Bucket(d.ht[m], k) < Bucket(d.ht[n], x))
          /\ (Bucket(d.ht[m], k) - 1 = iter.index <=> Bucket(d.ht[m], k) = Bucket(d.ht[n], x))
      BY <1>0, <2>1, <3>1 DEF h
    <3>3. m = n => d.ht[m] = d.ht[n]
      OBVIOUS
    <3> QED BY <1>1, <3>2, <3>3
  <2>5. \A k : Passed(d, iter, k) <=> Earlier(d, n, x, k)
    BY <2>4 DEF Passed, Earlier
  <2> QED BY <1>0, <2>1, <2>3, <2>5 DEF h
<1> DEFINE over == ~(iter.entry # NULL /\ iter.nextEntry # NULL)
<1>n. over => iter.nextEntry = NULL
  BY <1>0 DEF NextIn
<1>p. over => \A k : Passed(d, iter, k) <=>
        \E m \in {0, 1} : k \in KeysOf(d.ht[m]) /\ (m < iter.table \/ (m = iter.table /\ Bucket(d.ht[m], k) <= iter.index + 1))
  BY <1>0, <1>n, ChainDone
<1>h. ASSUME NEW n \in {0, 1}, NEW i \in Nat, NonEmpty(n, i) = {}, NEW k \in KeysOf(d.ht[n])
      PROVE  Bucket(d.ht[n], k) <= i /\ Bucket(d.ht[n], k) \in Nat \ {0}
  <2>1. Bucket(d.ht[n], k) \in Nat \ {0}
    BY <1>0, AtPlace
  <2>2. ~(Bucket(d.ht[n], k) - 1 >= i)
    BY <1>0, <1>h, HasKey
  <2> QED BY <2>1, <2>2
<1>2. CASE over /\ NonEmpty(iter.table, iter.index + 1) # {}
  <2>1. Advanced = AtHead(iter.table, Min(NonEmpty(iter.table, iter.index + 1)))
    BY <1>2 DEF Advanced
  <2>2. PICK x \in KeysOf(d.ht[iter.table]) :
          /\ Returned(d, AtHead(iter.table, Min(NonEmpty(iter.table, iter.index + 1))), iter.table, x)
          /\ \A k : Earlier(d, iter.table, x, k) <=>
               \E m \in {0, 1} : k \in KeysOf(d.ht[m]) /\ (m < iter.table \/ (m = iter.table /\ Bucket(d.ht[m], k) <= iter.index + 1))
    BY <1>0, <1>2, HeadOfFirst
  <2> HIDE DEF over
  <2> QED BY <1>0, <1>2, <1>p, <2>1, <2>2
<1>3. CASE over /\ NonEmpty(iter.table, iter.index + 1) = {} /\ IsRehashing(d) /\ iter.table = 0 /\ NonEmpty(1, 0) # {}
  <2>1. Advanced = AtHead(1, Min(NonEmpty(1, 0)))
    BY <1>3 DEF Advanced
  <2>2. PICK x \in KeysOf(d.ht[1]) :
          /\ Returned(d, AtHead(1, Min(NonEmpty(1, 0))), 1, x)
          /\ \A k : Earlier(d, 1, x, k) <=> \E m \in {0, 1} : k \in KeysOf(d.ht[m]) /\ (m < 1 \/ (m = 1 /\ Bucket(d.ht[m], k) <= 0))
    BY <1>0, <1>3, HeadOfFirst
  <2>3. ASSUME NEW k PROVE Passed(d, iter, k) <=> k \in KeysOf(d.ht[0])
    <3>1. k \in KeysOf(d.ht[0]) => Bucket(d.ht[0], k) <= iter.index + 1
      BY <1>0, <1>3, <1>h
    <3> HIDE DEF over
    <3> QED BY <1>3, <1>p, <3>1
  <2>4. ASSUME NEW k PROVE Earlier(d, 1, x, k) <=> k \in KeysOf(d.ht[0])
    <3>1. k \in KeysOf(d.ht[1]) => ~(Bucket(d.ht[1], k) <= 0)
      BY <1>0, AtPlace
    <3> QED BY <2>2, <3>1
  <2> QED BY <1>3, <2>1, <2>2, <2>3, <2>4
<1>4. CASE over /\ NonEmpty(iter.table, iter.index + 1) = {} /\ ~(IsRehashing(d) /\ iter.table = 0 /\ NonEmpty(1, 0) # {})
  <2> DEFINE last == IF IsRehashing(d) THEN 1 ELSE iter.table
             j == [on |-> TRUE, table |-> last, index |-> Size(d.ht[last]), entry |-> NULL, nextEntry |-> NULL]
  <2>1. Advanced = j
    BY <1>4 DEF Advanced
  <2>2. j.table = last /\ j.index = Size(d.ht[last]) /\ j.entry = NULL /\ j.nextEntry = NULL
    OBVIOUS
  <2>3. last \in {0, 1} /\ (last = 1 => IsRehashing(d)) /\ (IsRehashing(d) => last = 1) /\ (~IsRehashing(d) => iter.table = 0)
    BY <1>0
  <2> HIDE DEF last, j, over
  <2>4. ASSUME NEW m \in {0, 1}, NEW k \in KeysOf(d.ht[m])
        PROVE  Passed(d, iter, k) /\ Passed(d, j, k)
    <3>1. Bucket(d.ht[m], k) \in 1 .. Size(d.ht[m]) /\ Size(d.ht[m]) \in Nat
      BY <1>0, AtPlace DEF HT, Size
    <3>2. ~IsRehashing(d) => m = 0
      BY <1>0, NoTableIs DEF DictOK, IsRehashing
    <3>3. ~(m = 1 /\ iter.table = 0)
      <4> SUFFICES ASSUME m = 1, iter.table = 0 PROVE FALSE
        OBVIOUS
      <4>1. NonEmpty(1, 0) = {}
        BY <1>4, <3>2
      <4>2. Bucket(d.ht[1], k) <= 0
        BY <1>h, <4>1
      <4> QED BY <3>1, <4>2
    <3>4. Passed(d, iter, k)
      <4>1. CASE m = iter.table
        <5>1. Bucket(d.ht[m], k) <= iter.index + 1
          BY <1>0, <1>4, <1>h, <4>1
        <5> QED BY <1>4, <1>p, <4>1, <5>1
      <4>2. CASE m # iter.table
        <5>1. m < iter.table
          BY <1>0, <3>3, <4>2
        <5> QED BY <1>4, <1>p, <5>1
      <4> QED BY <4>1, <4>2
    <3>5. Passed(d, j, k)
      <4>1. CASE m = last
        <5>1. m = j.table /\ Bucket(d.ht[m], k) - 1 < j.index
          BY <2>2, <3>1, <4>1
        <5> QED BY <5>1 DEF Passed
      <4>2. CASE m # last
        <5>1. m < j.table
          BY <2>2, <2>3, <3>2, <4>2
        <5> QED BY <5>1 DEF Passed
      <4> QED BY <4>1, <4>2
    <3> QED BY <3>4, <3>5
  <2> QED BY <2>1, <2>2, <2>3, <2>4 DEF AllKeys
<1> QED BY <1>1, <1>2, <1>3, <1>4

LEMMA NextKeeps ==
  ASSUME DictInv, SeenInv, dictNext
  PROVE  SeenInv'
<1> DEFINE j == Advanced
<1>1. /\ DictOK(d) /\ iter.on /\ ~Exhausted /\ iter' = j /\ UNCHANGED stayed
      /\ seen' = IF j.entry = NULL THEN seen ELSE [seen EXCEPT ![j.entry] = @ + 1]
      /\ d' = [d EXCEPT !.iterators = Counted]
  BY DEF DictInv, dictNext
<1>2. d'.ht = d.ht /\ d'.rehashidx = d.rehashidx /\ j.on
  <2>1. Counted = 1
    BY <1>1 DEF Counted, DictInv, IterInv
  <2>2. d' = [d EXCEPT !.iterators = 1] /\ 1 \in Nat
    BY <1>1, <2>1
  <2>3. d'.ht = d.ht /\ d'.rehashidx = d.rehashidx
    BY <1>1, <2>2, CountChanged
  <2>4. Advanced.on = TRUE
    BY <1>1, AdvancedTo
  <2> QED BY <2>3, <2>4
<1>3. AllKeys(d') = AllKeys(d) /\ (IsRehashing(d') <=> IsRehashing(d)) /\ (\A k : Passed(d', j, k) <=> Passed(d, j, k)) /\ (NextIn(d', j) <=> NextIn(d, j))
  BY <1>2 DEF AllKeys, IsRehashing, Passed, NextIn
<1>4. seen \in [Key -> Nat] /\ stayed \subseteq Key /\ stayed \subseteq AllKeys(d) /\ \A k \in stayed : seen[k] = IF Passed(d, iter, k) THEN 1 ELSE 0
  BY <1>1 DEF SeenInv
<1>i. iter' = j
  BY <1>1
<1>5. ASSUME NEW n \in {0, 1}, NEW x \in KeysOf(d.ht[n]),
             Returned(d, j, n, x), n = 1 => IsRehashing(d),
             \A k : Passed(d, iter, k) <=> Earlier(d, n, x, k)
      PROVE  SeenInv'
  <2>1. /\ NextIn(d, j) /\ ~Earlier(d, n, x, x)
        /\ \A k : Passed(d, j, k) <=> Earlier(d, n, x, k) \/ k = x
    BY <1>1, <1>5, ReturnedPasses
  <2>2. j.entry = x /\ j.table = n
    BY <1>5 DEF Returned
  <2>3. x \in Key /\ x # NULL
    BY <1>1, AtPlace DEF DictOK, DictSet
  <2> HIDE DEF j
  <2>4. seen' \in [Key -> Nat] /\ seen' = [seen EXCEPT ![x] = @ + 1]
    BY <1>1, <1>4, <2>2, <2>3
  <2>5. ASSUME NEW k \in stayed PROVE seen'[k] = IF Passed(d, j, k) THEN 1 ELSE 0
    <3>1. CASE k = x
      <4>1. seen[x] = 0 /\ seen'[x] = seen[x] + 1
        BY <1>4, <1>5, <2>1, <2>3, <2>4, <3>1
      <4> QED BY <2>1, <3>1, <4>1
    <3>2. CASE k # x
      <4>1. seen'[k] = seen[k]
        BY <1>4, <2>4, <3>2
      <4> QED BY <1>4, <1>5, <2>1, <3>2, <4>1
    <3> QED BY <3>1, <3>2
  <2>6. ~(iter'.index >= 0 /\ iter'.entry = NULL)
    BY <1>i, <2>2, <2>3
  <2> QED BY <1>1, <1>3, <1>4, <1>5, <2>1, <2>2, <2>4, <2>5, <2>6 DEF SeenInv, Exhausted
<1>6. ASSUME j.entry = NULL, j.nextEntry = NULL, j.table = 1 => IsRehashing(d),
             \A k \in AllKeys(d) : Passed(d, iter, k) /\ Passed(d, j, k)
      PROVE  SeenInv'
  <2> HIDE DEF j
  <2>1. seen' = seen
    BY <1>1, <1>6
  <2>2. NextIn(d, j)
    BY <1>6 DEF NextIn
  <2>3. \A k \in stayed : Passed(d', j, k) /\ seen'[k] = 1
    BY <1>3, <1>4, <1>6, <2>1
  <2> QED BY <1>1, <1>3, <1>4, <1>6, <2>1, <2>2, <2>3 DEF SeenInv, Exhausted
<1> QED BY <1>1, <1>5, <1>6, AdvancedIs

LEMMA SeenSteps ==
  ASSUME DictInv, SeenInv, DictNext
  PROVE  SeenInv'
<1>1. ASSUME ~iter'.on, seen' \in [Key -> Nat], stayed' \subseteq Key PROVE SeenInv'
  BY <1>1 DEF SeenInv
<1>2. CASE dictEmpty \/ tryResizeHashTables \/ incrementallyRehash \/ updateDictResizePolicy
  <2>1. ~iter.on /\ UNCHANGED <<iter, seen, stayed>>
    BY <1>2 DEF dictEmpty, tryResizeHashTables, incrementallyRehash, updateDictResizePolicy, itervars
  <2> QED BY <1>1, <2>1 DEF SeenInv
<1>3. CASE dictReleaseIterator
  <2>1. iter' = [on |-> FALSE, table |-> 0, index |-> -1, entry |-> NULL, nextEntry |-> NULL] /\ seen' = [k \in Key |-> 0] /\ stayed' = {}
    BY <1>3 DEF dictReleaseIterator, NoIter
  <2>2. seen' \in [Key -> Nat] /\ ~iter'.on
    BY <2>1
  <2> QED BY <1>1, <2>1, <2>2
<1>4. ASSUME NEW k \in Key, NEW v \in Value, dictAdd(k, v) \/ dictReplace(k, v) PROVE SeenInv'
  BY <1>4, AddKeeps, ReplaceKeeps
<1>5. ASSUME NEW k \in Key, dictGenericDelete(k) \/ dictFind(k) PROVE SeenInv'
  BY <1>5, DeleteKeeps, FindKeeps
<1>6. CASE dictGetRandomKey
  BY <1>6, FindKeeps
<1>7. CASE dictGetIterator
  BY <1>7, GetIteratorKeeps
<1>8. CASE dictNext
  BY <1>8, NextKeeps
<1> QED BY <1>2, <1>3, <1>4, <1>5, <1>6, <1>7, <1>8 DEF DictNext

\* An iterator that has come to its end has returned every key that was there all along, once,
\* whatever else was added, replaced and looked up meanwhile, and the entries it returned deleted.
THEOREM IterationAlwaysComplete == DictSpec => []IterationComplete
<1>1. DictInit => SeenInv
  BY DEF DictInit, NoIter, SeenInv
<1>2. DictInv /\ SeenInv /\ [DictNext]_dictvars => SeenInv'
  <2>1. DictInv /\ SeenInv /\ UNCHANGED dictvars => SeenInv'
    BY DEF SeenInv, dictvars, Exhausted
  <2> QED BY <2>1, SeenSteps
<1>3. SeenInv => IterationComplete
  BY DEF SeenInv, IterationComplete
<1> QED BY <1>1, <1>2, <1>3, DictInvariant, PTL DEF DictSpec

-----------------------------------------------------------------------------
(* Registered events of the loop *)

Mask == SUBSET {"r", "w"}
FileEvent == [mask : Mask, data : Nat]
Used(ev) == {fd \in Fd : ev.events[fd].mask # {}}

\* The loop, the kernel and the clients agree on what is registered; the listening socket is
\* always watched, for connections alone.
EvOK(ev) ==
  /\ ev.events \in [Fd -> FileEvent]
  /\ ev.maxfd \in Used(ev) /\ \A fd \in Used(ev) : fd <= ev.maxfd
  /\ ev.epoll = [fd \in Used(ev) |-> ev.events[fd].mask]
  /\ ev.sockets \in [DOMAIN ev.sockets -> Nat]
  /\ DOMAIN ev.sockets \subseteq Fd /\ 0 \in DOMAIN ev.sockets
  /\ Used(ev) \subseteq DOMAIN ev.sockets
  /\ \A fd \in Used(ev) : ev.events[fd].data = ev.sockets[fd]
  /\ ev.events[0].mask = {"r"}

\* A client is read from unless it is one of those that wait.
Readers(ev, waiting) ==
  /\ waiting \subseteq DOMAIN ev.sockets \ {0}
  /\ \A fd \in DOMAIN ev.sockets \ {0} : ("r" \in ev.events[fd].mask) # (fd \in waiting)

\* What watching a client for one more event does.
LEMMA Created ==
  ASSUME NEW ev, EvOK(ev), NEW fd \in DOMAIN ev.sockets \ {0}, NEW m \in {"r", "w"}
  PROVE  LET n == aeCreateFileEvent(ev, fd, m, ev.sockets[fd])
         IN  /\ EvOK(n)
             /\ n.sockets = ev.sockets
             /\ \A x \in Fd : n.events[x].mask = IF x = fd THEN ev.events[x].mask \cup {m} ELSE ev.events[x].mask
<1> DEFINE c == ev.sockets[fd]
           op == aeApiAddEvent(ev, fd)
           mask == ev.events[fd].mask \cup {m}
           n == aeCreateFileEvent(ev, fd, m, c)
           e == [ev.events EXCEPT ![fd] = [mask |-> mask, data |-> c]]
<1>1. fd \in Fd /\ c \in Nat /\ mask \in Mask /\ mask # {} /\ ev.events[fd].mask \in Mask
  BY DEF EvOK, Mask, FileEvent
<1>2. CtlOK(ev, op, fd)
  BY <1>1 DEF CtlOK, EvOK, aeApiAddEvent, Used
<1>3. n = [events |-> e, maxfd |-> IF fd > ev.maxfd THEN fd ELSE ev.maxfd,
           epoll |-> Ctl(ev.epoll, op, fd, mask), sockets |-> ev.sockets]
  BY <1>2 DEF aeCreateFileEvent
<1>4. op # "del"
  BY DEF aeApiAddEvent
<1>5. Ctl(ev.epoll, op, fd, mask) = [x \in DOMAIN ev.epoll \cup {fd} |-> IF x = fd THEN mask ELSE ev.epoll[x]]
  BY <1>4 DEF Ctl
<1>6. /\ n.events = e /\ n.maxfd = (IF fd > ev.maxfd THEN fd ELSE ev.maxfd)
      /\ n.epoll = [x \in DOMAIN ev.epoll \cup {fd} |-> IF x = fd THEN mask ELSE ev.epoll[x]]
      /\ n.sockets = ev.sockets
  BY ONLY <1>3, <1>5
<1>7. /\ e \in [Fd -> FileEvent] /\ e[fd] = [mask |-> mask, data |-> c]
      /\ \A x \in Fd \ {fd} : e[x] = ev.events[x]
  BY <1>1 DEF EvOK, FileEvent
<1> HIDE DEF n, e, c, op
<1>8. Used(n) = Used(ev) \cup {fd}
  BY <1>1, <1>6, <1>7 DEF Used
<1>9. EvOK(n)
  <2>1. n.events \in [Fd -> FileEvent] /\ n.events[0].mask = {"r"}
    BY <1>1, <1>6, <1>7 DEF EvOK, Fd
  <2>2. n.maxfd \in Used(n) /\ \A x \in Used(n) : x <= n.maxfd
    <3>1. ev.maxfd \in Int /\ fd \in Int /\ Used(ev) \subseteq Int
      BY <1>1 DEF EvOK, Used, Fd
    <3> QED BY <1>6, <1>8, <3>1 DEF EvOK
  <2>3. n.epoll = [x \in Used(n) |-> n.events[x].mask]
    <3>1. DOMAIN ev.epoll = Used(ev) /\ \A x \in Used(ev) : ev.epoll[x] = ev.events[x].mask
      BY DEF EvOK
    <3>2. Used(ev) \subseteq Fd
      BY DEF Used
    <3>3. DOMAIN n.epoll = Used(n) /\ n.epoll = [x \in DOMAIN n.epoll |-> n.epoll[x]]
      BY <1>6, <1>8, <3>1
    <3>4. \A x \in Used(n) : n.epoll[x] = n.events[x].mask
      <4> TAKE x \in Used(n)
      <4>1. CASE x = fd
        BY <1>6, <1>7, <4>1
      <4>2. CASE x # fd
        BY <1>6, <1>7, <1>8, <3>1, <3>2, <4>2
      <4> QED BY <4>1, <4>2
    <3> QED BY <3>3, <3>4
  <2>4. \A x \in Used(n) : n.events[x].data = n.sockets[x]
    BY <1>6, <1>7, <1>8 DEF EvOK, c, Used
  <2> QED BY <1>6, <1>8, <2>1, <2>2, <2>3, <2>4 DEF EvOK
<1>10. \A x \in Fd : n.events[x].mask = IF x = fd THEN ev.events[x].mask \cup {m} ELSE ev.events[x].mask
  BY <1>6, <1>7
<1> QED BY <1>6, <1>9, <1>10 DEF n, c

\* What watching a client for one event less does.
LEMMA Deleted ==
  ASSUME NEW ev, EvOK(ev), NEW fd \in Fd \ {0}, NEW m \in {"r", "w"}
  PROVE  LET n == aeDeleteFileEvent(ev, fd, m)
         IN  /\ EvOK(n)
             /\ n.sockets = ev.sockets
             /\ \A x \in Fd : n.events[x].mask = IF x = fd THEN ev.events[x].mask \ {m} ELSE ev.events[x].mask
<1> DEFINE mask == ev.events[fd].mask \ {m}
           below == {x \in 0 .. ev.maxfd - 1 : ev.events[x].mask # {}}
           n == aeDeleteFileEvent(ev, fd, m)
           e == [ev.events EXCEPT ![fd] = [mask |-> mask, data |-> ev.events[fd].data]]
<1>1. CASE ev.events[fd].mask = {}
  BY <1>1 DEF aeDeleteFileEvent
<1>2. CASE ev.events[fd].mask # {}
  <2>1. n = [events |-> e, maxfd |-> IF fd = ev.maxfd /\ mask = {} THEN Max(below \cup {-1}) ELSE ev.maxfd,
             epoll |-> aeApiDelEvent(ev, fd, mask), sockets |-> ev.sockets]
    BY <1>2 DEF aeDeleteFileEvent
  <2>2. fd \in Used(ev) /\ fd \in DOMAIN ev.sockets /\ mask \in Mask /\ ev.events[fd].data \in Nat
    BY <1>2 DEF Used, EvOK, FileEvent, Mask
  <2>3. aeApiDelEvent(ev, fd, mask) =
          IF mask = {} THEN [x \in DOMAIN ev.epoll \ {fd} |-> ev.epoll[x]]
          ELSE [x \in DOMAIN ev.epoll \cup {fd} |-> IF x = fd THEN mask ELSE ev.epoll[x]]
    <3>1. CtlOK(ev, IF mask = {} THEN "del" ELSE "mod", fd)
      BY <2>2 DEF CtlOK, EvOK
    <3> QED BY <3>1 DEF aeApiDelEvent, Ctl
  <2>4. /\ e \in [Fd -> FileEvent] /\ e[fd] = [mask |-> mask, data |-> ev.events[fd].data]
        /\ \A x \in Fd \ {fd} : e[x] = ev.events[x]
    BY <2>2 DEF EvOK, FileEvent
  <2>5. /\ n.events = e /\ n.sockets = ev.sockets /\ n.epoll = aeApiDelEvent(ev, fd, mask)
        /\ n.maxfd = IF fd = ev.maxfd /\ mask = {} THEN Max(below \cup {-1}) ELSE ev.maxfd
    BY ONLY <2>1
  <2> HIDE DEF n, e, mask
  <2>6. Used(n) = IF mask = {} THEN Used(ev) \ {fd} ELSE Used(ev)
    <3>1. n.events[fd].mask = mask /\ \A x \in Fd \ {fd} : n.events[x] = ev.events[x]
      BY <2>4, <2>5
    <3>2. Used(ev) \subseteq Fd /\ Used(n) \subseteq Fd
      BY DEF Used
    <3>3. \A x \in Fd : x \in Used(n) <=> n.events[x].mask # {}
      BY DEF Used
    <3>4. \A x \in Fd : x \in Used(ev) <=> ev.events[x].mask # {}
      BY DEF Used
    <3> QED BY <2>2, <3>1, <3>2, <3>3, <3>4
  <2>7. n.maxfd \in Used(n) /\ \A x \in Used(n) : x <= n.maxfd
    <3>1. CASE fd = ev.maxfd /\ mask = {}
      <4>1. below \subseteq 0 .. MaxFd /\ MaxFd \in Nat /\ ev.maxfd \in 1 .. MaxFd
        BY <3>1, EventsAssumption DEF Fd, EvOK
      <4>2. below = Used(n)
        BY <2>6, <3>1, <4>1 DEF Used, Fd, EvOK
      <4>3. 0 \in below
        BY <4>1 DEF EvOK
      <4> HIDE DEF below
      <4>4. Max(below) \in below /\ \A x \in below : x <= Max(below)
        BY <4>1, <4>3, GreatestNumber
      <4> DEFINE T == below \cup {-1}
      <4>5. Max(T) \in T /\ \A x \in T : Max(T) >= x
        <5>1. Max(below) \in T /\ \A x \in T : Max(below) >= x
          <6>1. below \subseteq Nat
            BY <4>1
          <6>2. Max(below) \in Nat /\ \A x \in below : x \in Nat /\ Max(below) >= x
            BY <4>4, <6>1
          <6> QED BY <4>4, <6>2
        <5> HIDE DEF T
        <5> QED BY <5>1 DEF Max
      <4>6. Max(T) # -1
        BY <4>3, <4>5
      <4>7. n.maxfd = Max(T)
        BY <2>5, <3>1
      <4>8. n.maxfd \in below /\ \A x \in below : n.maxfd >= x
        BY <4>5, <4>6, <4>7
      <4> QED BY <4>1, <4>2, <4>8
    <3>2. CASE ~(fd = ev.maxfd /\ mask = {})
      BY <2>5, <2>6, <3>2 DEF EvOK
    <3> QED BY <3>1, <3>2
  <2>8. n.epoll = [x \in Used(n) |-> n.events[x].mask]
    <3>1. DOMAIN ev.epoll = Used(ev) /\ \A x \in Used(ev) : ev.epoll[x] = ev.events[x].mask
      BY DEF EvOK
    <3>2. Used(ev) \subseteq Fd
      BY DEF Used
    <3>3. \A x \in Used(n) : n.events[x].mask = IF x = fd THEN mask ELSE ev.events[x].mask
      BY <2>4, <2>5, <2>6, <3>2
    <3>4. DOMAIN n.epoll = Used(n)
      BY <2>2, <2>3, <2>5, <2>6, <3>1
    <3>5. \A x \in Used(n) : n.epoll[x] = n.events[x].mask
      BY <2>2, <2>3, <2>5, <2>6, <3>1, <3>3
    <3>6. n.epoll = [x \in DOMAIN n.epoll |-> n.epoll[x]]
      BY <2>3, <2>5
    <3> QED BY <3>4, <3>5, <3>6
  <2>9. \A x \in Used(n) : n.events[x].data = n.sockets[x]
    BY <2>2, <2>4, <2>5, <2>6 DEF EvOK, Used
  <2>10. n.events \in [Fd -> FileEvent] /\ n.events[0].mask = {"r"}
    BY <2>4, <2>5 DEF EvOK, Fd
  <2>11. EvOK(n)
    BY <2>5, <2>6, <2>7, <2>8, <2>9, <2>10 DEF EvOK
  <2>12. \A x \in Fd : n.events[x].mask = IF x = fd THEN mask ELSE ev.events[x].mask
    BY <2>4, <2>5
  <2> QED BY <2>5, <2>11, <2>12 DEF n, mask
<1> QED BY <1>1, <1>2

\* What closing a socket that is not watched does.
LEMMA Closed ==
  ASSUME NEW ev, EvOK(ev), NEW fd \in Fd \ {0}, ev.events[fd].mask = {}
  PROVE  LET n == Closing(ev, fd)
         IN  /\ EvOK(n)
             /\ DOMAIN n.sockets = DOMAIN ev.sockets \ {fd}
             /\ \A x \in DOMAIN n.sockets : n.sockets[x] = ev.sockets[x]
             /\ n.events = ev.events
<1> DEFINE n == Closing(ev, fd)
<1>1. /\ n.events = ev.events /\ n.maxfd = ev.maxfd
      /\ n.epoll = [x \in DOMAIN ev.epoll \ {fd} |-> ev.epoll[x]]
      /\ n.sockets = [x \in DOMAIN ev.sockets \ {fd} |-> ev.sockets[x]]
  BY DEF Closing
<1> HIDE DEF n
<1>2. Used(n) = Used(ev) /\ fd \notin Used(ev) /\ DOMAIN ev.epoll = Used(ev)
  BY <1>1 DEF Used, EvOK
<1>3. n.epoll = ev.epoll
  BY <1>1, <1>2 DEF EvOK
<1>4. EvOK(n)
  BY <1>1, <1>2, <1>3 DEF EvOK
<1> QED BY <1>1, <1>4 DEF n

\* What freeing a client does.
LEMMA Freed ==
  ASSUME NEW ev, EvOK(ev), NEW fd \in Fd \ {0}
  PROVE  LET n == freeClient(ev, fd)
         IN  /\ EvOK(n)
             /\ DOMAIN n.sockets = DOMAIN ev.sockets \ {fd}
             /\ \A x \in DOMAIN n.sockets : n.sockets[x] = ev.sockets[x]
             /\ \A x \in Fd \ {fd} : n.events[x].mask = ev.events[x].mask
<1> DEFINE a == aeDeleteFileEvent(ev, fd, "r")
           b == aeDeleteFileEvent(a, fd, "w")
<1>1. /\ EvOK(a) /\ a.sockets = ev.sockets
      /\ \A x \in Fd : a.events[x].mask = IF x = fd THEN ev.events[x].mask \ {"r"} ELSE ev.events[x].mask
  BY Deleted
<1>0. EvOK(a) /\ fd \in Fd \ {0} /\ "w" \in {"r", "w"}
  BY <1>1
<1> HIDE DEF a
<1>2. /\ EvOK(b) /\ b.sockets = ev.sockets
      /\ \A x \in Fd : b.events[x].mask = IF x = fd THEN a.events[x].mask \ {"w"} ELSE a.events[x].mask
  <2> DEFINE n == aeDeleteFileEvent(a, fd, "w")
  <2>1. EvOK(n)
    BY ONLY <1>0, Deleted
  <2>2. n.sockets = a.sockets
    BY ONLY <1>0, Deleted
  <2>3. \A x \in Fd : n.events[x].mask = IF x = fd THEN a.events[x].mask \ {"w"} ELSE a.events[x].mask
    BY ONLY <1>0, Deleted
  <2> QED BY ONLY <1>1, <2>1, <2>2, <2>3
<1> HIDE DEF b
<1>3. b.events[fd].mask = {}
  <2>1. b.events[fd].mask = (ev.events[fd].mask \ {"r"}) \ {"w"}
    BY <1>1, <1>2
  <2>2. ev.events[fd].mask \subseteq {"r", "w"}
    BY DEF EvOK, FileEvent, Mask
  <2> QED BY ONLY <2>1, <2>2
<1>4. EvOK(b) /\ fd \in Fd \ {0} /\ b.events[fd].mask = {}
  BY <1>2, <1>3
<1> DEFINE n == Closing(b, fd)
<1>5. /\ EvOK(n) /\ n.events = b.events
      /\ DOMAIN n.sockets = DOMAIN b.sockets \ {fd}
      /\ \A x \in DOMAIN n.sockets : n.sockets[x] = b.sockets[x]
  BY ONLY <1>4, Closed
<1>6. freeClient(ev, fd) = n
  BY DEF freeClient, a, b
<1> HIDE DEF n
<1> QED BY <1>1, <1>2, <1>5, <1>6

\* What taking a connection does.
LEMMA Accepted ==
  ASSUME NEW ev, EvOK(ev), Fd \ DOMAIN ev.sockets # {}, NEW c \in Nat
  PROVE  LET fd == Min(Fd \ DOMAIN ev.sockets)
             n == createClient(ev, c)
         IN  /\ EvOK(n)
             /\ fd \in Fd \ DOMAIN ev.sockets
             /\ DOMAIN n.sockets = DOMAIN ev.sockets \cup {fd}
             /\ \A x \in Fd : n.events[x].mask = IF x = fd THEN {"r"} ELSE ev.events[x].mask
<1> DEFINE fd == Min(Fd \ DOMAIN ev.sockets)
           o == [events |-> ev.events, maxfd |-> ev.maxfd, epoll |-> ev.epoll,
                 sockets |-> [x \in DOMAIN ev.sockets \cup {fd} |-> IF x = fd THEN c ELSE ev.sockets[x]]]
           w == aeCreateFileEvent(o, fd, "r", c)
           n == createClient(ev, c)
<1>1. fd \in Fd \ DOMAIN ev.sockets
  <2>1. Fd \ DOMAIN ev.sockets \subseteq Nat
    BY EventsAssumption DEF Fd
  <2> QED BY <2>1, LeastNumber
<1>2. n = IF w = o THEN Closing(o, fd) ELSE w
  BY DEF createClient
<1> HIDE DEF fd, n, w
<1>3. /\ o.events = ev.events /\ o.maxfd = ev.maxfd /\ o.epoll = ev.epoll
      /\ DOMAIN o.sockets = DOMAIN ev.sockets \cup {fd}
      /\ o.sockets \in [DOMAIN o.sockets -> Nat] /\ o.sockets[fd] = c
      /\ \A x \in DOMAIN ev.sockets : o.sockets[x] = ev.sockets[x]
  BY <1>1 DEF EvOK
<1> HIDE DEF o
<1>4. Used(o) = Used(ev) /\ fd \notin Used(ev) /\ fd # 0
  BY <1>1, <1>3 DEF Used, EvOK
<1>5. EvOK(o)
  <2>1. o.events \in [Fd -> FileEvent] /\ o.events[0].mask = {"r"}
    BY <1>3 DEF EvOK
  <2>2. o.maxfd \in Used(o) /\ \A x \in Used(o) : x <= o.maxfd
    BY <1>3, <1>4 DEF EvOK
  <2>3. o.epoll = [x \in Used(o) |-> o.events[x].mask]
    BY <1>3, <1>4 DEF EvOK
  <2>4. DOMAIN o.sockets \subseteq Fd /\ 0 \in DOMAIN o.sockets /\ Used(o) \subseteq DOMAIN o.sockets
    BY <1>1, <1>3, <1>4 DEF EvOK
  <2>5. \A x \in Used(o) : o.events[x].data = o.sockets[x]
    BY <1>3, <1>4 DEF EvOK
  <2> QED BY <1>3, <2>1, <2>2, <2>3, <2>4, <2>5 DEF EvOK
<1>6. EvOK(o) /\ fd \in DOMAIN o.sockets \ {0} /\ c = o.sockets[fd]
  BY <1>3, <1>4, <1>5
<1>7. /\ EvOK(w) /\ w.sockets = o.sockets
      /\ \A x \in Fd : w.events[x].mask = IF x = fd THEN o.events[x].mask \cup {"r"} ELSE o.events[x].mask
  <2> DEFINE y == aeCreateFileEvent(o, fd, "r", o.sockets[fd])
  <2>1. /\ EvOK(y) /\ y.sockets = o.sockets
        /\ \A x \in Fd : y.events[x].mask = IF x = fd THEN o.events[x].mask \cup {"r"} ELSE o.events[x].mask
    BY ONLY <1>6, Created
  <2>2. w = y
    BY <1>6 DEF w
  <2> HIDE DEF y
  <2> QED BY <2>1, <2>2
<1>8. ev.events[fd].mask = {}
  BY <1>1, <1>4 DEF Used
<1>9. w.events[fd].mask = {"r"} /\ o.events[fd].mask = {}
  BY <1>1, <1>3, <1>7, <1>8
<1>10. n = w
  BY <1>2, <1>9
<1>11. /\ EvOK(n)
       /\ DOMAIN n.sockets = DOMAIN ev.sockets \cup {fd}
       /\ \A x \in Fd : n.events[x].mask = IF x = fd THEN {"r"} ELSE ev.events[x].mask
  BY <1>1, <1>3, <1>7, <1>9, <1>10
<1> QED BY <1>1, <1>11 DEF fd, n

-----------------------------------------------------------------------------
(* The clients that are resumed before the loop sleeps *)

\* f is what AllResumed computes, up to socket k.
Resumption(f, ev, fds, k) ==
  f = [n \in 0 .. k |-> IF n = 0 THEN ev ELSE IF n \in fds THEN Resumed(f[n - 1], n) ELSE f[n - 1]]

LEMMA ResumptionExists ==
  \A ev, fds : \A k \in Nat : \E f : Resumption(f, ev, fds, k)
<1> TAKE ev, fds
<1> DEFINE S == {k \in Nat : \E f : Resumption(f, ev, fds, k)}
<1>1. 0 \in S
  <2> DEFINE f == [n \in 0 .. 0 |-> ev]
  <2>1. f = [n \in 0 .. 0 |-> IF n = 0 THEN ev ELSE IF n \in fds THEN Resumed(f[n - 1], n) ELSE f[n - 1]]
    OBVIOUS
  <2> HIDE DEF f
  <2> QED BY <2>1 DEF Resumption
<1>2. ASSUME NEW k \in Nat, k \in S PROVE k + 1 \in S
  <2>1. PICK g : Resumption(g, ev, fds, k)
    BY <1>2
  <2> DEFINE f == [n \in 0 .. k + 1 |-> IF n = k + 1 THEN IF n \in fds THEN Resumed(g[k], n) ELSE g[k] ELSE g[n]]
  <2>2. ASSUME NEW n \in 0 .. k + 1
        PROVE  f[n] = IF n = 0 THEN ev ELSE IF n \in fds THEN Resumed(f[n - 1], n) ELSE f[n - 1]
    <3>1. CASE n = k + 1
      <4>1. f[n] = (IF n \in fds THEN Resumed(g[k], n) ELSE g[k]) /\ f[k] = g[k]
        BY <3>1
      <4>2. n # 0 /\ n - 1 = k
        BY <3>1
      <4> HIDE DEF f
      <4> QED BY <4>1, <4>2
    <3>2. CASE n \in 0 .. k
      <4>1. f[n] = g[n] /\ (n # 0 => f[n - 1] = g[n - 1])
        BY <3>2
      <4>2. g[n] = IF n = 0 THEN ev ELSE IF n \in fds THEN Resumed(g[n - 1], n) ELSE g[n - 1]
        BY <2>1, <3>2 DEF Resumption
      <4> HIDE DEF f
      <4> QED BY <4>1, <4>2
    <3> QED BY <3>1, <3>2
  <2>3. f = [n \in 0 .. k + 1 |-> f[n]]
    OBVIOUS
  <2> HIDE DEF f
  <2>4. Resumption(f, ev, fds, k + 1)
    BY <2>2, <2>3 DEF Resumption
  <2> QED BY <2>4
<1>3. Nat \subseteq S
  <2> HIDE DEF S
  <2> QED BY <1>1, <1>2, NumberInduction
<1> QED BY <1>3

\* What resuming one client does.
LEMMA OneResumed ==
  ASSUME NEW ev, EvOK(ev), NEW fd \in DOMAIN ev.sockets \ {0}
  PROVE  LET n == Resumed(ev, fd)
         IN  /\ EvOK(n)
             /\ n.sockets = ev.sockets
             /\ \A x \in Fd : ("r" \in n.events[x].mask) = (x = fd \/ "r" \in ev.events[x].mask)
<1> DEFINE c == ev.sockets[fd]
           a == aeCreateFileEvent(ev, fd, "r", c)
           b == aeCreateFileEvent(a, fd, "w", c)
<1>1. /\ EvOK(a) /\ a.sockets = ev.sockets
      /\ \A x \in Fd : a.events[x].mask = IF x = fd THEN ev.events[x].mask \cup {"r"} ELSE ev.events[x].mask
  BY Created
<1> HIDE DEF a
<1>2. EvOK(a) /\ fd \in DOMAIN a.sockets \ {0} /\ c = a.sockets[fd]
  BY <1>1
<1> HIDE DEF c
<1>3. /\ EvOK(b) /\ b.sockets = a.sockets
      /\ \A x \in Fd : b.events[x].mask = IF x = fd THEN a.events[x].mask \cup {"w"} ELSE a.events[x].mask
  <2> DEFINE y == aeCreateFileEvent(a, fd, "w", a.sockets[fd])
  <2>1. /\ EvOK(y) /\ y.sockets = a.sockets
        /\ \A x \in Fd : y.events[x].mask = IF x = fd THEN a.events[x].mask \cup {"w"} ELSE a.events[x].mask
    BY ONLY <1>2, Created
  <2>2. b = y
    BY <1>2
  <2> HIDE DEF y
  <2> QED BY <2>1, <2>2
<1> HIDE DEF b
<1>4. \A x \in Fd : ("r" \in b.events[x].mask) = (x = fd \/ "r" \in ev.events[x].mask)
  <2> TAKE x \in Fd
  <2>1. CASE x = fd
    BY <1>1, <1>3, <2>1
  <2>2. CASE x # fd
    <3>1. b.events[x].mask = ev.events[x].mask
      BY <1>1, <1>3, <2>2
    <3> QED BY <2>2, <3>1
  <2> QED BY <2>1, <2>2
<1>5. Resumed(ev, fd) = b
  BY DEF Resumed, a, b, c
<1> QED BY <1>1, <1>3, <1>4, <1>5

\* Those that are resumed are read from again, and nothing else changes about reading.
LEMMA Resumptions ==
  ASSUME NEW ev, EvOK(ev), NEW waiting, Readers(ev, waiting), NEW fds \in SUBSET waiting
  PROVE  LET n == AllResumed(ev, fds)
         IN  EvOK(n) /\ n.sockets = ev.sockets /\ Readers(n, waiting \ fds)
<1> DEFINE f == CHOOSE f : Resumption(f, ev, fds, MaxFd)
<1>1. Resumption(f, ev, fds, MaxFd)
  BY ResumptionExists, EventsAssumption
<1>2. AllResumed(ev, fds) = f[MaxFd]
  BY DEF AllResumed, Resumption, Fd
<1> HIDE DEF f
<1> DEFINE Good(k) ==
             /\ EvOK(f[k]) /\ f[k].sockets = ev.sockets
             /\ \A x \in Fd : ("r" \in f[k].events[x].mask) = ((x \in fds /\ x <= k) \/ "r" \in ev.events[x].mask)
           S == {k \in Nat : k <= MaxFd => Good(k)}
<1>3. fds \subseteq Fd \ {0} /\ fds \subseteq DOMAIN ev.sockets \ {0} /\ Fd \subseteq Nat
  BY EventsAssumption DEF Readers, EvOK, Fd
<1>4. 0 \in S
  <2>1. f[0] = ev
    BY <1>1, EventsAssumption DEF Resumption
  <2>2. \A x \in Fd : ~(x \in fds /\ x <= 0)
    BY <1>3
  <2> QED BY <2>1, <2>2
<1>5. ASSUME NEW k \in Nat, k \in S PROVE k + 1 \in S
  <2>1. SUFFICES ASSUME k + 1 <= MaxFd PROVE Good(k + 1)
    OBVIOUS
  <2>2. Good(k)
    BY <1>5, <2>1, EventsAssumption
  <2>3. f[k + 1] = IF k + 1 \in fds THEN Resumed(f[k], k + 1) ELSE f[k]
    BY <1>1, <2>1, EventsAssumption DEF Resumption
  <2>4. CASE k + 1 \in fds
    <3> DEFINE g == f[k]
    <3>1. EvOK(g) /\ k + 1 \in DOMAIN g.sockets \ {0}
      BY <1>3, <2>2, <2>4
    <3>2. /\ EvOK(Resumed(g, k + 1)) /\ Resumed(g, k + 1).sockets = g.sockets
          /\ \A x \in Fd : ("r" \in Resumed(g, k + 1).events[x].mask) = (x = k + 1 \/ "r" \in g.events[x].mask)
      <4> HIDE DEF g
      <4> QED BY ONLY <3>1, OneResumed
    <3>3. f[k + 1] = Resumed(g, k + 1)
      BY <2>3, <2>4
    <3>4. \A x \in Fd : (x \in fds /\ x <= k + 1) = (x = k + 1 \/ (x \in fds /\ x <= k))
      BY <1>3, <2>4
    <3> QED BY <2>2, <3>2, <3>3, <3>4
  <2>5. CASE k + 1 \notin fds
    <3>1. \A x \in Fd : (x \in fds /\ x <= k + 1) = (x \in fds /\ x <= k)
      BY <1>3, <2>5
    <3> QED BY <2>2, <2>3, <2>5, <3>1
  <2> QED BY <2>4, <2>5
<1>6. Good(MaxFd)
  <2>1. Nat \subseteq S
    <3> HIDE DEF S
    <3> QED BY <1>4, <1>5, NumberInduction
  <2> QED BY <2>1, EventsAssumption
<1>7. Readers(f[MaxFd], waiting \ fds)
  <2>1. \A x \in fds : x <= MaxFd
    BY <1>3, EventsAssumption DEF Fd
  <2>2. \A x \in DOMAIN ev.sockets : x \in Fd
    BY DEF EvOK
  <2> QED BY <1>6, <2>1, <2>2 DEF Readers
<1> QED BY <1>2, <1>6, <1>7

-----------------------------------------------------------------------------
(* The handlers *)

Timer == [next : Nat, maxId : Int, te : Nat \ {0}, ms : 0 .. Second - 1, wait : Int]

FilesInv == EvOK(Ev) /\ Readers(Ev, iowait)

TimeEvent == [id : Nat, left : Int]

TimesInv ==
  /\ timers \in Seq(TimeEvent)
  /\ timer \in Timer

EventInv ==
  /\ FilesInv
  /\ TimesInv
  /\ fired \in Seq([fd : Fd, mask : Mask]) /\ (loop = "write" => fired # << >>)
  /\ accepted \in Nat

LEMMA Became ==
  ASSUME NEW n, EvOK(n), Readers(n, iowait'), Becomes(n)
  PROVE  FilesInv'
<1>1. /\ Ev'.events = n.events /\ Ev'.maxfd = n.maxfd
      /\ Ev'.epoll = n.epoll /\ Ev'.sockets = n.sockets
  BY DEF Becomes, Ev
<1>2. Used(Ev') = Used(n)
  BY <1>1 DEF Used
<1>3. EvOK(Ev')
  BY <1>1, <1>2 DEF EvOK
<1>4. Readers(Ev', iowait')
  BY <1>1 DEF Readers
<1> QED BY <1>3, <1>4 DEF FilesInv

LEMMA FilesSame ==
  ASSUME FilesInv, UNCHANGED <<filevars, iowait>>
  PROVE  FilesInv'
<1>1. Ev' = Ev /\ iowait' = iowait
  BY DEF Ev, filevars
<1> QED BY <1>1 DEF FilesInv

\* A client is freed that does not wait, or waits no more.
LEMMA FreedKept ==
  ASSUME FilesInv, NEW fd \in Fd \ {0}, Becomes(freeClient(Ev, fd)), iowait' = iowait \ {fd}
  PROVE  FilesInv'
<1> DEFINE n == freeClient(Ev, fd)
<1>1. EvOK(Ev) /\ fd \in Fd \ {0}
  BY DEF FilesInv
<1>2. /\ EvOK(n)
      /\ DOMAIN n.sockets = DOMAIN Ev.sockets \ {fd}
      /\ \A x \in Fd \ {fd} : n.events[x].mask = Ev.events[x].mask
  BY ONLY <1>1, Freed
<1> HIDE DEF n
<1>3. Readers(n, iowait')
  BY <1>2 DEF FilesInv, Readers, EvOK
<1> QED BY <1>2, <1>3, Became DEF n

LEMMA AcceptKept ==
  ASSUME EventInv, acceptHandler
  PROVE  FilesInv' /\ accepted' \in Nat
<1>1. CASE 0 \in readable /\ Fd \ DOMAIN sockets # {}
  <2> DEFINE c == accepted + 1
             n == createClient(Ev, c)
             fd == Min(Fd \ DOMAIN Ev.sockets)
  <2>1. EvOK(Ev) /\ Fd \ DOMAIN Ev.sockets # {} /\ c \in Nat
    BY <1>1 DEF EventInv, FilesInv, Ev
  <2> HIDE DEF c
  <2>2. /\ EvOK(n)
        /\ fd \in Fd \ DOMAIN Ev.sockets
        /\ DOMAIN n.sockets = DOMAIN Ev.sockets \cup {fd}
        /\ \A x \in Fd : n.events[x].mask = IF x = fd THEN {"r"} ELSE Ev.events[x].mask
    BY ONLY <2>1, Accepted
  <2>3. Becomes(n) /\ accepted' = c /\ iowait' = iowait
    BY <1>1 DEF acceptHandler, c
  <2> HIDE DEF n, fd
  <2>4. Readers(n, iowait')
    <3>1. iowait \subseteq DOMAIN n.sockets \ {0}
      BY <2>2 DEF EventInv, FilesInv, Readers
    <3>2. ASSUME NEW x \in DOMAIN n.sockets \ {0}
          PROVE  ("r" \in n.events[x].mask) # (x \in iowait)
      <4>1. x \in Fd
        BY <2>2 DEF EvOK
      <4>2. CASE x = fd
        BY <2>2, <4>1, <4>2 DEF EventInv, FilesInv, Readers
      <4>3. CASE x # fd
        <5>1. x \in DOMAIN Ev.sockets \ {0} /\ n.events[x].mask = Ev.events[x].mask
          BY <2>2, <4>1, <4>3
        <5> QED BY <5>1 DEF EventInv, FilesInv, Readers
      <4> QED BY <4>2, <4>3
    <3> QED BY <2>3, <3>1, <3>2 DEF Readers
  <2> QED BY <2>1, <2>2, <2>3, <2>4, Became
<1>2. CASE ~(0 \in readable /\ Fd \ DOMAIN sockets # {})
  <2>1. UNCHANGED <<filevars, iowait>> /\ accepted' = accepted
    BY <1>2 DEF acceptHandler
  <2> QED BY <2>1, FilesSame DEF EventInv
<1> QED BY <1>1, <1>2

\* The event that is handled is of an open socket, and of the client that has it.
LEMMA EventOpen ==
  ASSUME EventInv, NEW h, NEW m, Half(h, m)
  PROVE  /\ Event.fd \in Fd /\ m \in Ev.events[Event.fd].mask
         /\ Event.fd \in DOMAIN Ev.sockets
         /\ fevents[Event.fd].data = Ev.sockets[Event.fd]
<1>1. fired # << >> /\ m \in Event.mask \cap fevents[Event.fd].mask
  BY DEF Half
<1>2. Event \in [fd : Fd, mask : Mask]
  <2>1. fired \in Seq([fd : Fd, mask : Mask])
    BY DEF EventInv
  <2> QED BY ONLY <1>1, <2>1, HeadTailProperties DEF Event
<1>3. Event.fd \in Used(Ev)
  BY <1>1, <1>2 DEF Used, Ev
<1> HIDE DEF Event
<1> QED BY <1>1, <1>2, <1>3 DEF EventInv, FilesInv, EvOK, Ev

LEMMA ReadKept ==
  ASSUME EventInv, NEW what \in {"gone", "answered", "swapped", "slaveof"}, NEW other \in ClientFds,
         readQueryFromClient(what, other)
  PROVE  FilesInv'
<1> DEFINE fd == Event.fd
           c == fevents[fd].data
<1>1. fd # 0 /\ fd \in Fd /\ "r" \in Ev.events[fd].mask /\ fd \in DOMAIN Ev.sockets /\ c = Ev.sockets[fd]
  BY EventOpen DEF readQueryFromClient
<1>2. FilesInv /\ EvOK(Ev) /\ fd \notin iowait
  BY <1>1 DEF EventInv, FilesInv, Readers
<1>3. other \in DOMAIN Ev.sockets \ {0} /\ other \in Fd
  BY <1>2 DEF ClientFds, Ev, EvOK
<1> HIDE DEF fd, c
<1>4. CASE fd \notin readable
  BY <1>2, <1>4, FilesSame DEF readQueryFromClient, fd
<1>5. CASE fd \in readable /\ what = "gone"
  <2>1. Becomes(freeClient(Ev, fd)) /\ iowait' = iowait
    BY <1>5 DEF readQueryFromClient, fd
  <2>2. iowait' = iowait \ {fd} /\ fd \in Fd \ {0}
    BY <1>1, <1>2, <2>1
  <2> QED BY <1>2, <2>1, <2>2, FreedKept
<1>6. CASE fd \in readable /\ what = "answered"
  <2> DEFINE n == aeCreateFileEvent(Ev, fd, "w", Ev.sockets[fd])
  <2>1. Becomes(n) /\ iowait' = iowait
    BY <1>1, <1>6 DEF readQueryFromClient, fd, c
  <2>2. EvOK(Ev) /\ fd \in DOMAIN Ev.sockets \ {0}
    BY <1>1, <1>2
  <2>3. /\ EvOK(n) /\ n.sockets = Ev.sockets
        /\ \A x \in Fd : n.events[x].mask = IF x = fd THEN Ev.events[x].mask \cup {"w"} ELSE Ev.events[x].mask
    BY ONLY <2>2, Created
  <2> HIDE DEF n
  <2>4. Readers(n, iowait')
    <3>1. \A x \in Fd : ("r" \in n.events[x].mask) <=> ("r" \in Ev.events[x].mask)
      <4> TAKE x \in Fd
      <4>1. n.events[x].mask = Ev.events[x].mask \/ n.events[x].mask = Ev.events[x].mask \cup {"w"}
        BY <2>3
      <4> QED BY <4>1
    <3> QED BY <1>2, <2>1, <2>3, <3>1 DEF FilesInv, Readers, EvOK
  <2> QED BY <2>1, <2>3, <2>4, Became
<1>7. CASE fd \in readable /\ what = "swapped"
  <2> DEFINE n == aeDeleteFileEvent(Ev, fd, "r")
  <2>1. Becomes(n) /\ iowait' = iowait \cup {fd}
    BY <1>7 DEF readQueryFromClient, fd
  <2>2. EvOK(Ev) /\ fd \in Fd \ {0}
    BY <1>1, <1>2
  <2>3. /\ EvOK(n) /\ n.sockets = Ev.sockets
        /\ \A x \in Fd : n.events[x].mask = IF x = fd THEN Ev.events[x].mask \ {"r"} ELSE Ev.events[x].mask
    BY ONLY <2>2, Deleted
  <2> HIDE DEF n
  <2>4. Readers(n, iowait')
    <3>1. \A x \in Fd : ("r" \in n.events[x].mask) <=> (x # fd /\ "r" \in Ev.events[x].mask)
      BY <2>3
    <3> QED BY <1>1, <1>2, <2>1, <2>3, <3>1 DEF FilesInv, Readers, EvOK
  <2> QED BY <2>1, <2>3, <2>4, Became
<1>8. CASE fd \in readable /\ what = "slaveof"
  <2> DEFINE a == freeClient(Ev, other)
             n == aeCreateFileEvent(a, fd, "w", a.sockets[fd])
  <2>1. EvOK(Ev) /\ other \in Fd \ {0}
    BY <1>2, <1>3
  <2>2. /\ EvOK(a)
        /\ DOMAIN a.sockets = DOMAIN Ev.sockets \ {other}
        /\ \A x \in DOMAIN a.sockets : a.sockets[x] = Ev.sockets[x]
        /\ \A x \in Fd \ {other} : a.events[x].mask = Ev.events[x].mask
    BY ONLY <2>1, Freed
  <2>3. other # fd /\ iowait' = iowait \ {other} /\ Becomes(aeCreateFileEvent(a, fd, "w", c))
    BY <1>8 DEF readQueryFromClient, fd, c
  <2> HIDE DEF a
  <2>4. EvOK(a) /\ fd \in DOMAIN a.sockets \ {0} /\ c = a.sockets[fd]
    BY <1>1, <2>2, <2>3
  <2>5. Becomes(n)
    BY <2>3, <2>4
  <2>6. /\ EvOK(n) /\ n.sockets = a.sockets
        /\ \A x \in Fd : n.events[x].mask = IF x = fd THEN a.events[x].mask \cup {"w"} ELSE a.events[x].mask
    BY ONLY <2>4, Created
  <2> HIDE DEF n
  <2>7. Readers(n, iowait')
    <3>1. \A x \in Fd \ {other} : ("r" \in n.events[x].mask) <=> ("r" \in Ev.events[x].mask)
      <4> TAKE x \in Fd \ {other}
      <4>1. n.events[x].mask = Ev.events[x].mask \/ n.events[x].mask = Ev.events[x].mask \cup {"w"}
        BY <2>2, <2>6
      <4> QED BY <4>1
    <3> QED BY <1>1, <1>2, <2>2, <2>3, <2>6, <3>1 DEF FilesInv, Readers, EvOK
  <2> QED BY <2>5, <2>6, <2>7, Became
<1> QED BY <1>4, <1>5, <1>6, <1>7, <1>8

LEMMA WriteKept ==
  ASSUME EventInv, NEW what \in {"all", "part", "gone"}, sendReplyToClient(what)
  PROVE  FilesInv'
<1> DEFINE fd == Event.fd
<1>1. fd \in Fd /\ "w" \in Ev.events[fd].mask
  BY EventOpen DEF sendReplyToClient
<1>2. FilesInv /\ EvOK(Ev) /\ fd \in Fd \ {0}
  BY <1>1 DEF EventInv, FilesInv, EvOK
<1> HIDE DEF fd
<1>3. CASE what = "all"
  <2> DEFINE n == aeDeleteFileEvent(Ev, fd, "w")
  <2>1. Becomes(n) /\ iowait' = iowait
    BY <1>3 DEF sendReplyToClient, fd
  <2>2. /\ EvOK(n) /\ n.sockets = Ev.sockets
        /\ \A x \in Fd : n.events[x].mask = IF x = fd THEN Ev.events[x].mask \ {"w"} ELSE Ev.events[x].mask
    BY ONLY <1>2, Deleted
  <2> HIDE DEF n
  <2>3. Readers(n, iowait')
    <3>1. \A x \in Fd : ("r" \in n.events[x].mask) <=> ("r" \in Ev.events[x].mask)
      BY <2>2
    <3> QED BY <1>2, <2>1, <2>2, <3>1 DEF FilesInv, Readers, EvOK
  <2> QED BY <2>1, <2>2, <2>3, Became
<1>4. CASE what = "part"
  BY <1>2, <1>4, FilesSame DEF sendReplyToClient
<1>5. CASE what = "gone"
  BY <1>2, <1>5, FreedKept DEF sendReplyToClient, fd
<1> QED BY <1>3, <1>4, <1>5

-----------------------------------------------------------------------------
(* The timers *)

LEMMA TimerFields ==
  ASSUME NEW x \in Timer, NEW a \in Nat, NEW b \in Int, NEW c \in Nat \ {0}, NEW m \in 0 .. Second - 1, NEW w \in Int
  PROVE  /\ [x EXCEPT !.maxId = b, !.te = c] \in Timer
         /\ [x EXCEPT !.te = c, !.next = a] \in Timer
         /\ [x EXCEPT !.ms = m, !.wait = w] \in Timer
         /\ [x EXCEPT !.te = c] \in Timer
         /\ [x EXCEPT !.wait = w] \in Timer
<1>1. \A y \in Timer : /\ [y EXCEPT !.maxId = b] \in Timer /\ [y EXCEPT !.te = c] \in Timer
                       /\ [y EXCEPT !.next = a] \in Timer /\ [y EXCEPT !.ms = m] \in Timer
                       /\ [y EXCEPT !.wait = w] \in Timer
  BY DEF Timer
<1>2. /\ [x EXCEPT !.maxId = b, !.te = c] = [[x EXCEPT !.maxId = b] EXCEPT !.te = c]
      /\ [x EXCEPT !.te = c, !.next = a] = [[x EXCEPT !.te = c] EXCEPT !.next = a]
      /\ [x EXCEPT !.ms = m, !.wait = w] = [[x EXCEPT !.ms = m] EXCEPT !.wait = w]
  OBVIOUS
<1>3. [x EXCEPT !.maxId = b] \in Timer /\ [x EXCEPT !.te = c] \in Timer /\ [x EXCEPT !.ms = m] \in Timer
  BY <1>1
<1> QED BY ONLY <1>1, <1>2, <1>3

\* One of the timers is the nearest.
LEMMA Nearest ==
  ASSUME TimesInv, timers # << >>
  PROVE  aeSearchNearestTimer \in TimeEvent
<1> DEFINE First(n) == \E i \in 1 .. n : \A j \in 1 .. n : timers[i].left <= timers[j].left
           S == {n \in Nat : 1 <= n /\ n <= Len(timers) => First(n)}
<1>1. \A i \in 1 .. Len(timers) : timers[i] \in TimeEvent /\ timers[i].left \in Int
  <2> TAKE i \in 1 .. Len(timers)
  <2>1. timers[i] \in TimeEvent
    BY DEF TimesInv
  <2> QED BY <2>1 DEF TimeEvent
<1>2. 0 \in S
  OBVIOUS
<1>3. ASSUME NEW n \in Nat, n \in S PROVE n + 1 \in S
  <2>1. SUFFICES ASSUME n + 1 <= Len(timers) PROVE First(n + 1)
    OBVIOUS
  <2>2. n + 1 \in 1 .. n + 1 /\ n + 1 \in 1 .. Len(timers)
    BY <2>1
  <2>3. CASE n = 0
    BY <1>1, <2>2, <2>3
  <2>4. CASE n # 0
    <3>1. PICK i \in 1 .. n : \A j \in 1 .. n : timers[i].left <= timers[j].left
      BY <1>3, <2>1, <2>4
    <3>2. i \in 1 .. n + 1 /\ i \in 1 .. Len(timers) /\ \A j \in 1 .. n + 1 : j \in 1 .. n \/ j = n + 1
      BY <2>1
    <3>3. CASE timers[i].left <= timers[n + 1].left
      BY <3>1, <3>2, <3>3
    <3>4. CASE timers[n + 1].left <= timers[i].left
      <4>1. \A j \in 1 .. n + 1 : timers[n + 1].left <= timers[j].left
        <5> TAKE j \in 1 .. n + 1
        <5>1. timers[j].left \in Int /\ timers[i].left \in Int /\ timers[n + 1].left \in Int
          BY <1>1, <2>1, <3>2
        <5>2. CASE j = n + 1
          BY <5>1, <5>2
        <5>3. CASE j \in 1 .. n
          BY <3>1, <3>4, <5>1, <5>3
        <5> QED BY <3>2, <5>2, <5>3
      <4> QED BY <2>2, <4>1
    <3>5. timers[i].left \in Int /\ timers[n + 1].left \in Int
      BY <1>1, <2>2, <3>2
    <3>6. timers[i].left <= timers[n + 1].left \/ timers[n + 1].left <= timers[i].left
      BY ONLY <3>5
    <3> QED BY <3>3, <3>4, <3>6
  <2> QED BY <2>3, <2>4
<1>4. Nat \subseteq S
  <2> HIDE DEF S
  <2> QED BY <1>2, <1>3, NumberInduction
<1>5. Len(timers) \in Nat /\ 1 <= Len(timers)
  BY DEF TimesInv
<1>6. PICK i \in 1 .. Len(timers) : \A j \in 1 .. Len(timers) : timers[i].left <= timers[j].left
  <2>1. Len(timers) \in S
    BY <1>4, <1>5
  <2> QED BY <1>5, <2>1
<1>7. timers[i] \in ToSet(timers) /\ \A u \in ToSet(timers) : timers[i].left <= u.left
  BY <1>6 DEF ToSet, TimesInv
<1>8. aeSearchNearestTimer \in ToSet(timers)
  BY <1>7 DEF aeSearchNearestTimer
<1> QED BY <1>1, <1>8 DEF ToSet, TimesInv

\* Seconds and milliseconds.
LEMMA Division ==
  ASSUME NEW due \in Int
  PROVE  /\ due \div Second \in Int /\ due % Second \in 0 .. Second - 1
         /\ due = (due \div Second) * Second + (due % Second)
BY EventsAssumption

LEMMA TimeoutInTime ==
  ASSUME TimesInv, NEW t \in TimeEvent
  PROVE  /\ Timeout(t) \in Int
         /\ IF t.left >= 0 THEN Timeout(t) = t.left ELSE Timeout(t) < Second
<1> DEFINE due == timer.ms + t.left
           sec == due \div Second
           ms == due % Second
<1>1. timer.ms \in 0 .. Second - 1 /\ t.left \in Int /\ due \in Int /\ Second \in Nat \ {0}
  BY EventsAssumption DEF TimesInv, Timer, TimeEvent
<1>2. sec \in Int /\ ms \in 0 .. Second - 1 /\ due = sec * Second + ms
  BY <1>1, Division
<1>3. Timeout(t) = IF ms < timer.ms THEN Max({0, sec - 1}) * Second + ms + Second - timer.ms
                   ELSE Max({0, sec}) * Second + ms - timer.ms
  BY DEF Timeout
<1>4. \A n \in Int : Max({0, n}) = IF n > 0 THEN n ELSE 0
  BY DEF Max
<1>5. due = timer.ms + t.left
  OBVIOUS
<1> HIDE DEF due, sec, ms
<1>6. /\ sec >= 0 => sec * Second >= 0
      /\ sec >= 1 => sec * Second >= Second
      /\ sec <= -1 => sec * Second <= -Second
      /\ sec * Second \in Int /\ (sec - 1) * Second = sec * Second - Second
      /\ 0 * Second = 0
  BY <1>1, <1>2
<1>7. CASE ms < timer.ms
  <2>1. Timeout(t) = (IF sec - 1 > 0 THEN sec - 1 ELSE 0) * Second + ms + Second - timer.ms
    BY <1>2, <1>3, <1>4, <1>7
  <2>2. CASE sec - 1 > 0
    BY <1>1, <1>2, <1>5, <1>6, <1>7, <2>1, <2>2
  <2>3. CASE ~(sec - 1 > 0)
    <3>1. Timeout(t) = ms + Second - timer.ms
      BY <1>1, <1>2, <1>6, <2>1, <2>3
    <3>2. sec = 1 \/ sec = 0 \/ sec <= -1
      BY <1>2, <2>3
    <3>3. sec = 1 => sec * Second = Second
      BY <1>1
    <3>4. sec = 0 => sec * Second = 0
      BY <1>1
    <3> QED BY <1>1, <1>2, <1>5, <1>6, <1>7, <3>1, <3>2, <3>3, <3>4
  <2> QED BY <2>2, <2>3
<1>8. CASE ~(ms < timer.ms)
  <2>1. Timeout(t) = (IF sec > 0 THEN sec ELSE 0) * Second + ms - timer.ms
    BY <1>2, <1>3, <1>4, <1>8
  <2>2. CASE sec > 0
    BY <1>1, <1>2, <1>5, <1>6, <1>8, <2>1, <2>2
  <2>3. CASE ~(sec > 0)
    <3>1. Timeout(t) = ms - timer.ms
      BY <1>1, <1>2, <1>6, <2>1, <2>3
    <3>2. sec = 0 \/ sec <= -1
      BY <1>2, <2>3
    <3>3. sec = 0 => sec * Second = 0
      BY <1>1
    <3> QED BY <1>1, <1>2, <1>5, <1>6, <1>8, <3>1, <3>2, <3>3
  <2> QED BY <2>2, <2>3
<1> QED BY <1>7, <1>8

-----------------------------------------------------------------------------
(* The invariant *)

LEMMA EventInvInit == EventsInit => EventInv
<1> SUFFICES ASSUME EventsInit PROVE EventInv
  OBVIOUS
<1>1. 0 \in Fd /\ Fd \subseteq Nat
  BY EventsAssumption DEF Fd
<1>2. Used(Ev) = {0}
  BY <1>1 DEF Used, Ev, EventsInit, NoEvent
<1>3. EvOK(Ev)
  <2>1. fevents \in [Fd -> FileEvent] /\ fevents[0].mask = {"r"} /\ fevents[0].data = 0
    BY <1>1 DEF EventsInit, FileEvent, Mask, NoEvent
  <2>2. epoll = [fd \in Used(Ev) |-> fevents[fd].mask]
    BY <1>2, <2>1 DEF EventsInit
  <2>3. DOMAIN sockets = {0} /\ sockets[0] = 0 /\ sockets \in [DOMAIN sockets -> Nat]
    BY DEF EventsInit
  <2> QED BY <1>1, <1>2, <2>1, <2>2, <2>3 DEF EvOK, Ev, EventsInit
<1>4. Readers(Ev, iowait)
  BY DEF Readers, Ev, EventsInit
<1>5. TimesInv
  <2>1. 0 \in 0 .. Second - 1
    BY EventsAssumption
  <2>2. timer \in Timer
    BY <2>1 DEF Timer, EventsInit
  <2>3. timers \in Seq(TimeEvent)
    <3>1. [id |-> 0, left |-> 1] \in TimeEvent
      BY DEF TimeEvent
    <3> QED BY <3>1 DEF EventsInit
  <2> QED BY <2>2, <2>3 DEF TimesInv
<1>6. fired \in Seq([fd : Fd, mask : Mask]) /\ accepted \in Nat /\ loop # "write"
  BY DEF EventsInit
<1> QED BY <1>3, <1>4, <1>5, <1>6 DEF EventInv, FilesInv

LEMMA PollKept ==
  ASSUME EventInv, NEW room, aeApiPoll(room)
  PROVE  fired' \in Seq([fd : Fd, mask : Mask])
<1> DEFINE found == {fd \in DOMAIN epoll : Ready(fd, room) # {}}
<1>1. PICK order \in Orders(found) :
        fired' = [n \in 1 .. Cardinality(found) |-> [fd |-> order[n], mask |-> Ready(order[n], room)]]
  BY DEF aeApiPoll
<1>2. \A x \in DOMAIN epoll : x \in Fd /\ epoll[x] \in Mask
  <2>1. fevents \in [Fd -> FileEvent] /\ epoll = [fd \in Used(Ev) |-> fevents[fd].mask]
    BY DEF EventInv, FilesInv, EvOK, Ev
  <2> QED BY <2>1 DEF Used, FileEvent
<1>3. \A x \in found : [fd |-> x, mask |-> Ready(x, room)] \in [fd : Fd, mask : Mask]
  BY <1>2 DEF Ready, Mask
<1>4. order \in [1 .. Cardinality(found) -> found]
  BY <1>1 DEF Orders
<1>5. Cardinality(found) \in Nat
  <2>1. IsFiniteSet(Fd)
    BY EventsAssumption, FS_Interval DEF Fd
  <2>2. found \subseteq Fd
    BY <1>2
  <2> HIDE DEF found
  <2> QED BY <2>1, <2>2, FS_Subset, FS_CardinalityType
<1> HIDE DEF found
<1> DEFINE E == [fd : Fd, mask : Mask]
<1>6. \A n \in 1 .. Cardinality(found) : [fd |-> order[n], mask |-> Ready(order[n], room)] \in E
  BY <1>3, <1>4
<1> HIDE DEF E
<1>7. fired' \in Seq(E)
  BY ONLY <1>1, <1>5, <1>6
<1> QED BY <1>7 DEF E

LEMMA TimeKept ==
  ASSUME EventInv, NEW close \in {0} \cup ClientFds, NEW create \in BOOLEAN, timeProc(close, create)
  PROVE  FilesInv' /\ TimesInv'
<1> DEFINE t == timers[timer.te]
           rest == IF t.id = 0 THEN Again(timer.te, CronPeriod) ELSE aeDeleteTimeEvent(timer.te)
           T == TimeEvent
<1>1. timers \in Seq(T) /\ timer \in Timer /\ timer.te \in Nat \ {0} /\ timer.next \in Nat /\ CronPeriod \in Int
  BY EventsAssumption DEF EventInv, TimesInv, Timer
<1>2. rest \in Seq(T)
  <2>0. timer.te \in 1 .. Len(timers)
    <3>1. timer.te <= Len(timers) /\ timer.te # 0
      BY <1>1 DEF timeProc
    <3> QED BY <1>1, <3>1
  <2>1. Again(timer.te, CronPeriod) \in Seq(T)
    <3>1. timers[timer.te] \in T
      BY <1>1, <2>0
    <3>2. [timers[timer.te] EXCEPT !.left = CronPeriod] \in T
      BY <1>1, <3>1 DEF TimeEvent
    <3>3. Again(timer.te, CronPeriod) = [timers EXCEPT ![timer.te] = [timers[timer.te] EXCEPT !.left = CronPeriod]]
      BY DEF Again
    <3> QED BY ONLY <1>1, <2>0, <3>2, <3>3
  <2>2. aeDeleteTimeEvent(timer.te) \in Seq(T)
    <3>1. SubSeq(timers, 1, timer.te - 1) \in Seq(T) /\ SubSeq(timers, timer.te + 1, Len(timers)) \in Seq(T)
      BY ONLY <1>1, <2>0, SubSeqProperties
    <3> QED BY ONLY <3>1, ConcatProperties DEF aeDeleteTimeEvent, RemoveAt
  <2> QED BY <2>1, <2>2
<1> HIDE DEF rest
<1>3. timers' = IF create THEN <<[id |-> timer.next, left |-> 0]>> \o rest ELSE rest
  BY DEF timeProc, rest
<1>4. timers' \in Seq(T)
  <2>1. <<[id |-> timer.next, left |-> 0]>> \in Seq(T)
    BY <1>1 DEF TimeEvent
  <2>2. <<[id |-> timer.next, left |-> 0]>> \o rest \in Seq(T)
    BY ONLY <1>2, <2>1, ConcatProperties
  <2> QED BY <1>2, <1>3, <2>2
<1>5. timer' \in Timer
  <2> DEFINE a == IF create THEN timer.next + 1 ELSE timer.next
  <2>1. a \in Nat /\ 1 \in Nat \ {0} /\ timer' = [timer EXCEPT !.te = 1, !.next = a]
    BY <1>1 DEF timeProc
  <2>2. timer.ms \in 0 .. Second - 1 /\ timer.wait \in Int
    BY <1>1 DEF Timer
  <2> HIDE DEF a
  <2> QED BY ONLY <1>1, <2>1, <2>2, TimerFields
<1>6. FilesInv'
  <2>1. CASE t.id = 0 /\ close # 0
    <3>1. close \in Fd \ {0} /\ FilesInv
      BY <2>1 DEF ClientFds, Ev, EvOK, EventInv, FilesInv
    <3> QED BY <2>1, <3>1, FreedKept DEF timeProc
  <2>2. CASE ~(t.id = 0 /\ close # 0)
    BY <2>2, FilesSame DEF timeProc, EventInv
  <2> QED BY <2>1, <2>2
<1> QED BY <1>4, <1>5, <1>6 DEF TimesInv

LEMMA TickKept ==
  ASSUME EventInv, tick
  PROVE  TimesInv'
<1> DEFINE T == TimeEvent
<1>1. timers \in Seq(T) /\ timer \in Timer /\ MaxLate \in Nat
  BY EventsAssumption DEF EventInv, TimesInv
<1>2. timers' \in Seq(T)
  <2>1. \A n \in DOMAIN timers : timers[n] \in T
    BY <1>1
  <2>2. \A a, b \in Int : Max({a, b}) \in Int
    BY DEF Max
  <2>3. \A n \in DOMAIN timers : [timers[n] EXCEPT !.left = Max({timers[n].left - 1, -MaxLate})] \in T
    <3> TAKE n \in DOMAIN timers
    <3>1. timers[n] \in [id : Nat, left : Int] /\ timers[n].left - 1 \in Int /\ -MaxLate \in Int
      BY <1>1, <2>1 DEF TimeEvent
    <3>2. Max({timers[n].left - 1, -MaxLate}) \in Int
      BY <2>2, <3>1
    <3> QED BY ONLY <3>1, <3>2 DEF TimeEvent
  <2>4. Len(timers) \in Nat /\ DOMAIN timers = 1 .. Len(timers)
    BY <1>1
  <2>5. timers' = [n \in DOMAIN timers |-> [timers[n] EXCEPT !.left = Max({timers[n].left - 1, -MaxLate})]]
    BY DEF tick
  <2>6. DOMAIN timers' = 1 .. Len(timers) /\ \A n \in 1 .. Len(timers) : timers'[n] \in T
    BY <2>3, <2>4, <2>5
  <2>7. timers' = [n \in 1 .. Len(timers) |-> timers'[n]]
    BY <2>4, <2>5
  <2> HIDE DEF T
  <2> QED BY ONLY <2>4, <2>6, <2>7
<1>3. timer' \in Timer
  <2> DEFINE m == (timer.ms + 1) % Second
             w == IF loop = "sleep" /\ timer.wait > 0 THEN timer.wait - 1 ELSE timer.wait
  <2>1. timer.ms \in 0 .. Second - 1 /\ timer.wait \in Int
    BY <1>1 DEF Timer
  <2>2. m \in 0 .. Second - 1 /\ w \in Int
    BY <2>1, EventsAssumption
  <2>3. timer' = [timer EXCEPT !.ms = m, !.wait = w]
    BY DEF tick
  <2> HIDE DEF m, w
  <2>4. 0 \in Nat /\ 0 \in Int /\ 1 \in Nat \ {0}
    OBVIOUS
  <2> QED BY ONLY <1>1, <2>2, <2>3, <2>4, TimerFields
<1> QED BY <1>2, <1>3 DEF TimesInv

LEMMA EventInvStep == EventInv /\ [EventsNext]_eventvars => EventInv'
<1> SUFFICES ASSUME EventInv, [EventsNext]_eventvars
             PROVE  EventInv'
  OBVIOUS
<1> DEFINE FiredInv == fired \in Seq([fd : Fd, mask : Mask]) /\ (loop = "write" => fired # << >>)
<1>0. FilesInv /\ TimesInv /\ FiredInv /\ accepted \in Nat
  BY DEF EventInv
<1>t. timer \in Timer /\ timer.ms \in 0 .. Second - 1 /\ timer.wait \in Int /\ timer.next \in Nat /\ timer.te \in Nat \ {0} /\ timer.maxId \in Int
  BY <1>0 DEF TimesInv, Timer
<1>1. ASSUME NEW fds \in SUBSET iowait, beforeSleep(fds) PROVE EventInv'
  <2> DEFINE n == AllResumed(Ev, fds)
  <2>1. EvOK(Ev) /\ Readers(Ev, iowait) /\ fds \in SUBSET iowait
    BY <1>0 DEF FilesInv
  <2>2. EvOK(n) /\ Readers(n, iowait \ fds)
    BY ONLY <2>1, Resumptions
  <2>3. Becomes(n) /\ iowait' = iowait \ fds
    BY <1>1 DEF beforeSleep
  <2> HIDE DEF n
  <2>4. FilesInv'
    BY <2>2, <2>3, Became
  <2> QED BY <1>0, <1>1, <2>4 DEF beforeSleep, EventInv, TimesInv
<1>2. CASE aeProcessEvents
  <2> DEFINE w == IF timers = << >> THEN Forever ELSE Timeout(aeSearchNearestTimer)
  <2>1. w \in Int
    BY <1>0, Nearest, TimeoutInTime DEF Forever
  <2>2. timer' = [timer EXCEPT !.wait = w] /\ timers' = timers
    BY <1>2 DEF aeProcessEvents
  <2> HIDE DEF w
  <2>3. TimesInv'
    BY <1>0, <1>t, <2>1, <2>2, TimerFields DEF TimesInv
  <2>4. FilesInv'
    BY <1>0, <1>2, FilesSame DEF aeProcessEvents
  <2> QED BY <1>0, <1>2, <2>3, <2>4 DEF aeProcessEvents, EventInv
<1>3. ASSUME NEW room, aeApiPoll(room) PROVE EventInv'
  <2>1. FilesInv'
    BY <1>0, <1>3, FilesSame DEF aeApiPoll
  <2>2. TimesInv'
    BY <1>0, <1>3 DEF aeApiPoll, TimesInv
  <2>3. accepted' = accepted /\ loop' = "read"
    BY <1>3 DEF aeApiPoll
  <2> QED BY <1>0, <1>3, <2>1, <2>2, <2>3, PollKept DEF EventInv
<1>4. CASE acceptHandler
  <2>1. TimesInv'
    BY <1>0, <1>4 DEF acceptHandler, TimesInv
  <2>2. fired' = fired /\ fired # << >>
    BY <1>4 DEF acceptHandler, Half
  <2> QED BY <1>0, <1>4, <2>1, <2>2, AcceptKept DEF EventInv
<1>5. ASSUME NEW what \in {"gone", "answered", "swapped", "slaveof"}, NEW other \in ClientFds,
             readQueryFromClient(what, other)
      PROVE  EventInv'
  <2>1. TimesInv'
    BY <1>0, <1>5 DEF readQueryFromClient, TimesInv
  <2>2. fired' = fired /\ accepted' = accepted /\ fired # << >>
    BY <1>5 DEF readQueryFromClient, Half
  <2> QED BY <1>0, <1>5, <2>1, <2>2, ReadKept DEF EventInv
<1>6. CASE readNothing
  BY <1>0, <1>6, FilesSame DEF readNothing, EventInv, TimesInv
<1>f. NextEvent /\ fired # << >> => FiredInv'
  BY <1>0, HeadTailProperties DEF NextEvent
<1>7. CASE writeNothing
  <2>1. FilesInv'
    BY <1>0, <1>7, FilesSame DEF writeNothing
  <2>2. FiredInv'
    BY <1>0, <1>7, <1>f DEF writeNothing
  <2>3. TimesInv' /\ accepted' = accepted
    BY <1>0, <1>7 DEF writeNothing, TimesInv
  <2> QED BY <1>0, <2>1, <2>2, <2>3 DEF EventInv
<1>8. ASSUME NEW what \in {"all", "part", "gone"}, sendReplyToClient(what) PROVE EventInv'
  <2>1. FilesInv'
    BY <1>8, WriteKept
  <2>2. FiredInv'
    BY <1>8, <1>f DEF sendReplyToClient, Half
  <2> QED BY <1>0, <1>8, <2>1, <2>2 DEF sendReplyToClient, EventInv, TimesInv
<1>9. CASE timeStart
  <2> DEFINE b == timer.next - 1
  <2>1. b \in Int /\ 1 \in Nat \ {0} /\ timer' = [timer EXCEPT !.maxId = b, !.te = 1]
    BY <1>9, <1>t DEF timeStart
  <2> HIDE DEF b
  <2>2. timer' \in Timer
    BY ONLY <1>t, <2>1, TimerFields
  <2>3. FilesInv'
    BY <1>0, <1>9, FilesSame DEF timeStart
  <2> QED BY <1>0, <1>9, <2>2, <2>3 DEF timeStart, EventInv, TimesInv
<1>10. CASE timeSkip
  <2> DEFINE c == timer.te + 1
  <2>1. c \in Nat \ {0} /\ timer' = [timer EXCEPT !.te = c]
    BY <1>10, <1>t DEF timeSkip
  <2> HIDE DEF c
  <2>2. timer' \in Timer
    BY ONLY <1>t, <2>1, TimerFields
  <2>3. FilesInv'
    BY <1>0, <1>10, FilesSame DEF timeSkip
  <2> QED BY <1>0, <1>10, <2>2, <2>3 DEF timeSkip, EventInv, TimesInv
<1>11. CASE timeEnd
  BY <1>0, <1>11, FilesSame DEF timeEnd, EventInv, TimesInv
<1>12. ASSUME NEW close \in {0} \cup ClientFds, NEW create \in BOOLEAN, timeProc(close, create)
       PROVE  EventInv'
  BY <1>0, <1>12, TimeKept DEF timeProc, EventInv
<1>13. CASE tick
  <2>1. FilesInv'
    BY <1>0, <1>13, FilesSame DEF tick
  <2> QED BY <1>0, <1>13, <2>1, TickKept DEF tick, EventInv
<1>14. ASSUME NEW fd \in Fd, arrive(fd) PROVE EventInv'
  BY <1>0, <1>14, FilesSame DEF arrive, EventInv, TimesInv
<1>15. CASE UNCHANGED eventvars
  BY <1>0, <1>15, FilesSame DEF eventvars, EventInv, TimesInv
<1> QED
  BY <1>1, <1>2, <1>3, <1>4, <1>5, <1>6, <1>7, <1>8, <1>9, <1>10, <1>11, <1>12, <1>13, <1>14, <1>15
  DEF EventsNext

LEMMA InvLoopSound == EventInv => EventLoopSound
<1> SUFFICES ASSUME EventInv PROVE EventLoopSound
  OBVIOUS
<1>1. EvOK(Ev) /\ Readers(Ev, iowait) /\ TimesInv
  BY DEF EventInv, FilesInv
<1>2. EventsAgree
  <2> DEFINE used == {fd \in Fd : fevents[fd].mask # {}}
             T == used \cup {-1}
  <2>1. used = Used(Ev) /\ maxfd \in used /\ (\A fd \in used : fd <= maxfd) /\ used \subseteq Nat
    BY <1>1, EventsAssumption DEF EvOK, Ev, Used, Fd
  <2>2. maxfd = Max(T)
    <3>1. maxfd \in T /\ \A x \in T : maxfd >= x
      BY <2>1
    <3>2. \A x, y \in T : x \in Int /\ y \in Int
      BY <2>1
    <3>3. \A x \in T : (\A y \in T : x >= y) => x = maxfd
      BY <3>1, <3>2
    <3> HIDE DEF T
    <3> QED BY <3>1, <3>3 DEF Max
  <2>3. DOMAIN epoll = used /\ \A fd \in used : epoll[fd] = fevents[fd].mask
    BY <1>1, <2>1 DEF EvOK, Ev
  <2>4. \A fd \in used : fd \in DOMAIN sockets /\ fevents[fd].data = sockets[fd]
    BY <1>1, <2>1 DEF EvOK, Ev
  <2>5. \A fd \in ClientFds : ("r" \in fevents[fd].mask) # (fd \in iowait)
    BY <1>1 DEF Readers, Ev, ClientFds
  <2> QED BY <2>2, <2>3, <2>4, <2>5 DEF EventsAgree
<1>3. SleepsInTime
  BY <1>1, Nearest, TimeoutInTime DEF SleepsInTime
<1> QED BY <1>2, <1>3 DEF EventLoopSound

\* Whatever handlers do under events that have fired already, freeing clients, their own or
\* others, taking new ones into the same numbers, ceasing to read and resuming, what the loop
\* has registered is what the kernel watches, and is of the client that has the socket now; and
\* the loop sleeps as long as its nearest timer allows: for any number of sockets, clients and
\* timers, and any length of a second.
THEOREM LoopSound == EventsSpec => []EventLoopSound
<1>1. EventsSpec => []EventInv
  BY EventInvInit, EventInvStep, PTL DEF EventsSpec
<1> QED BY <1>1, InvLoopSound, PTL
=============================================================================
