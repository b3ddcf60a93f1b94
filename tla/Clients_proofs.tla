---------------------------- MODULE Clients_proofs ----------------------------
(***************************************************************************)
(* Clients that wait for lists, elements and messages on their way to them *)
(* and transactions on theirs to the slaves, however commands run inside   *)
(* commands and connections end: for any number of clients, keys, channels *)
(* and elements, and any program of each client.                           *)
(***************************************************************************)
EXTENDS Clients, WellFoundedInduction, FiniteSetTheorems, SequenceTheorems, TLAPS

-----------------------------------------------------------------------------
(* Sequences *)

\* A set of numbers that has 0, and with each number the next, has all.
LEMMA NumberInduction ==
  ASSUME NEW S, 0 \in S, \A n \in Nat : n \in S => n + 1 \in S
  PROVE  Nat \subseteq S
<1> SUFFICES ASSUME Nat \ S # {} PROVE FALSE
  OBVIOUS
<1> DEFINE Less == {p \in Nat \X Nat : p[1] < p[2]}
<1>1. IsWellFoundedOn(Less, Nat)
  BY NatLessThanWellFounded DEF OpToRel
<1>2. \E x \in Nat \ S : \A y \in Nat \ S : <<y, x>> \notin Less
  <2> HIDE DEF Less
  <2> QED BY <1>1, WFMin
<1>3. PICK x \in Nat \ S : \A y \in Nat \ S : <<y, x>> \notin Less
  BY <1>2
<1>4. \A y \in Nat \ S : x <= y
  <2> TAKE y \in Nat \ S
  <2>1. <<y, x>> \in Nat \X Nat
    OBVIOUS
  <2> QED BY <1>3, <2>1
<1>5. x # 0 /\ x - 1 \in Nat /\ x - 1 \in S
  BY <1>3, <1>4
<1> QED BY <1>3, <1>5

-----------------------------------------------------------------------------
(* What is kept of a sequence *)

\* f is what Kept computes, up to place k.
Keeping(f, s, es, k) ==
  f = [n \in 0 .. k |->
         IF n = 0 THEN << >> ELSE IF s[n] \in es THEN Append(f[n - 1], s[n]) ELSE f[n - 1]]

\* There is one for every number of elements.
LEMMA KeepingExists ==
  \A s, es : \A k \in Nat : \E f : Keeping(f, s, es, k)
<1> TAKE s, es
<1> DEFINE S == {k \in Nat : \E f : Keeping(f, s, es, k)}
<1>1. 0 \in S
  <2> DEFINE f == [n \in 0 .. 0 |-> << >>]
  <2>1. f = [n \in 0 .. 0 |-> IF n = 0 THEN << >> ELSE IF s[n] \in es THEN Append(f[n - 1], s[n]) ELSE f[n - 1]]
    OBVIOUS
  <2> HIDE DEF f
  <2> QED BY <2>1 DEF Keeping
<1>2. ASSUME NEW k \in Nat, k \in S PROVE k + 1 \in S
  <2>1. PICK g : Keeping(g, s, es, k)
    BY <1>2
  <2> DEFINE f == [n \in 0 .. k + 1 |-> IF n = k + 1 THEN IF s[n] \in es THEN Append(g[k], s[n]) ELSE g[k] ELSE g[n]]
  <2>2. ASSUME NEW n \in 0 .. k + 1
        PROVE  f[n] = IF n = 0 THEN << >> ELSE IF s[n] \in es THEN Append(f[n - 1], s[n]) ELSE f[n - 1]
    <3>1. CASE n = k + 1
      <4>1. f[n] = (IF s[n] \in es THEN Append(g[k], s[n]) ELSE g[k]) /\ f[k] = g[k]
        BY <3>1
      <4>2. n # 0 /\ n - 1 = k
        BY <3>1
      <4> HIDE DEF f
      <4> QED BY <4>1, <4>2
    <3>2. CASE n \in 0 .. k
      <4>1. f[n] = g[n] /\ (n # 0 => f[n - 1] = g[n - 1])
        BY <3>2
      <4>2. g[n] = IF n = 0 THEN << >> ELSE IF s[n] \in es THEN Append(g[n - 1], s[n]) ELSE g[n - 1]
        BY <2>1, <3>2 DEF Keeping
      <4> HIDE DEF f
      <4> QED BY <4>1, <4>2
    <3> QED BY <3>1, <3>2
  <2>3. f = [n \in 0 .. k + 1 |-> f[n]]
    OBVIOUS
  <2> HIDE DEF f
  <2>4. Keeping(f, s, es, k + 1)
    BY <2>2, <2>3 DEF Keeping
  <2> QED BY <2>4
<1>3. Nat \subseteq S
  <2> HIDE DEF S
  <2> QED BY <1>1, <1>2, NumberInduction
<1> QED BY <1>3

\* t is what is kept of the first n of s, each from the place that h says.
KeptFrom(t, h, s, es, n) ==
  /\ h \in [1 .. Len(t) -> 1 .. n]
  /\ \A i, j \in 1 .. Len(t) : i < j => h[i] < h[j]
  /\ \A i \in 1 .. Len(t) : t[i] = s[h[i]] /\ s[h[i]] \in es
  /\ \A m \in 1 .. n : s[m] \in es => \E i \in 1 .. Len(t) : h[i] = m

\* Kept keeps the order, and the elements of es that s has.
LEMMA KeptIs ==
  ASSUME NEW S, NEW s \in Seq(S), NEW es
  PROVE  Kept(s, es) \in Seq(S) /\ \E h : KeptFrom(Kept(s, es), h, s, es, Len(s))
<1> DEFINE f == CHOOSE f : Keeping(f, s, es, Len(s))
           V(n) == {t \in Seq(S) : \E h : KeptFrom(t, h, s, es, n)}
           T == {k \in Nat : k <= Len(s) => f[k] \in V(k)}
<1>1. Len(s) \in Nat /\ \A n \in 1 .. Len(s) : s[n] \in S
  OBVIOUS
<1>2. Keeping(f, s, es, Len(s))
  BY <1>1, KeepingExists
<1>3. Kept(s, es) = f[Len(s)]
  BY DEF Kept, Keeping
<1> HIDE DEF f
<1>4. \A n \in 0 .. Len(s) : f[n] = IF n = 0 THEN << >> ELSE IF s[n] \in es THEN Append(f[n - 1], s[n]) ELSE f[n - 1]
  BY <1>2 DEF Keeping
<1>5. 0 \in T
  <2>1. f[0] = << >>
    BY <1>1, <1>4
  <2>2. KeptFrom(<< >>, [i \in 1 .. 0 |-> 0], s, es, 0)
    <3>1. Len(<< >>) = 0 /\ 1 .. 0 = {}
      OBVIOUS
    <3> QED BY <3>1 DEF KeptFrom
  <2>3. << >> \in Seq(S)
    OBVIOUS
  <2> QED BY <2>1, <2>2, <2>3
<1>6. ASSUME NEW k \in Nat, k \in T PROVE k + 1 \in T
  <2> SUFFICES ASSUME k + 1 <= Len(s) PROVE f[k + 1] \in V(k + 1)
    OBVIOUS
  <2> DEFINE t == f[k]
  <2>1. f[k] \in V(k)
    BY <1>6, <1>1
  <2>2. PICK h : KeptFrom(t, h, s, es, k)
    BY <2>1
  <2>3. f[k] \in Seq(S)
    BY <2>1
  <2>4. f[k + 1] = IF s[k + 1] \in es THEN Append(f[k], s[k + 1]) ELSE f[k]
    BY <1>1, <1>4
  <2> HIDE DEF t
  <2>a. t \in Seq(S) /\ Len(t) \in Nat /\ s[k + 1] \in S
    BY <2>3, <1>1 DEF t
  <2>5. CASE s[k + 1] \notin es
    <3>1. KeptFrom(t, h, s, es, k + 1)
      BY <2>2, <2>5, <2>a DEF KeptFrom
    <3> QED BY <3>1, <2>3, <2>4, <2>5 DEF t
  <2>6. CASE s[k + 1] \in es
    <3> DEFINE u == Append(t, s[k + 1])
               g == [i \in 1 .. Len(t) + 1 |-> IF i = Len(t) + 1 THEN k + 1 ELSE h[i]]
    <3>1. /\ u \in Seq(S) /\ Len(u) = Len(t) + 1 /\ u[Len(t) + 1] = s[k + 1]
          /\ \A i \in 1 .. Len(t) : u[i] = t[i]
      BY <2>a
    <3>2. /\ \A i \in 1 .. Len(t) : h[i] \in 1 .. k /\ t[i] = s[h[i]] /\ s[h[i]] \in es
          /\ \A i, j \in 1 .. Len(t) : i < j => h[i] < h[j]
          /\ \A m \in 1 .. k : s[m] \in es => \E i \in 1 .. Len(t) : h[i] = m
      BY <2>2 DEF KeptFrom
    <3>3. /\ DOMAIN g = 1 .. Len(t) + 1 /\ g[Len(t) + 1] = k + 1
          /\ \A i \in 1 .. Len(t) : g[i] = h[i]
      BY <2>a
    <3>6. g = [i \in 1 .. Len(t) + 1 |-> g[i]]
      OBVIOUS
    <3> HIDE DEF u, g
    <3>4. KeptFrom(u, g, s, es, k + 1)
      <4>1. g \in [1 .. Len(u) -> 1 .. k + 1]
        <5>1. \A i \in 1 .. Len(t) + 1 : g[i] \in 1 .. k + 1
          <6> TAKE i \in 1 .. Len(t) + 1
          <6>1. CASE i = Len(t) + 1
            BY <6>1, <3>3
          <6>2. CASE i \in 1 .. Len(t)
            <7>1. g[i] \in 1 .. k
              BY <3>2, <3>3, <6>2
            <7> QED BY <7>1
          <6> QED BY <6>1, <6>2, <2>a
        <5> QED BY <5>1, <3>1, <3>6
      <4>2. \A i, j \in 1 .. Len(u) : i < j => g[i] < g[j]
        <5> TAKE i, j \in 1 .. Len(u)
        <5> HAVE i < j
        <5>1. i \in 1 .. Len(t) /\ g[i] = h[i] /\ h[i] \in 1 .. k
          BY <2>a, <3>1, <3>2, <3>3
        <5>2. CASE j \in 1 .. Len(t)
          BY <2>a, <3>2, <3>3, <5>1, <5>2
        <5>3. CASE j = Len(t) + 1
          <6>1. g[j] = k + 1
            BY <3>3, <5>3
          <6>2. \A x \in 1 .. k : x < k + 1
            OBVIOUS
          <6> QED BY <6>1, <6>2, <5>1
        <5>4. j \in 1 .. Len(t) \/ j = Len(t) + 1
          BY <3>1, <2>a
        <5> QED BY <5>2, <5>3, <5>4
      <4>3. \A i \in 1 .. Len(u) : u[i] = s[g[i]] /\ s[g[i]] \in es
        <5> TAKE i \in 1 .. Len(u)
        <5>1. CASE i \in 1 .. Len(t)
          BY <3>1, <3>2, <3>3, <5>1
        <5>2. CASE i = Len(t) + 1
          BY <3>1, <3>3, <5>2, <2>6
        <5> QED BY <5>1, <5>2, <3>1, <2>a
      <4>4. \A m \in 1 .. k + 1 : s[m] \in es => \E i \in 1 .. Len(u) : g[i] = m
        <5> TAKE m \in 1 .. k + 1
        <5> HAVE s[m] \in es
        <5>1. CASE m = k + 1
          BY <5>1, <3>1, <3>3, <2>a
        <5>2. CASE m \in 1 .. k
          <6>1. PICK i \in 1 .. Len(t) : h[i] = m
            BY <3>2, <5>2
          <6> QED BY <6>1, <3>1, <3>3, <2>a
        <5> QED BY <5>1, <5>2
      <4> QED BY <4>1, <4>2, <4>3, <4>4 DEF KeptFrom
    <3>5. f[k + 1] = u
      BY <2>4, <2>6 DEF u, t
    <3> QED BY <3>1, <3>4, <3>5
  <2> QED BY <2>5, <2>6
<1>7. Nat \subseteq T
  <2> HIDE DEF T
  <2> QED BY <1>5, <1>6, NumberInduction
<1>8. f[Len(s)] \in V(Len(s))
  BY <1>1, <1>7
<1> QED BY <1>3, <1>8

\* A bijection says that two sets have as many elements.
LEMMA AsMany ==
  ASSUME NEW A, NEW B, IsFiniteSet(A), NEW f \in [A -> B],
         \A x, y \in A : f[x] = f[y] => x = y,
         \A b \in B : \E a \in A : f[a] = b
  PROVE  IsFiniteSet(B) /\ Cardinality(B) = Cardinality(A)
<1>1. f \in Bijection(A, B)
  BY DEF Bijection, Injection, Surjection, IsInjective
<1>2. ExistsBijection(A, B)
  BY ONLY <1>1 DEF ExistsBijection
<1> QED BY ONLY <1>2, FS_Bijection, IsFiniteSet(A)

\* Where e is in s.
Places(s, e) == {n \in DOMAIN s : s[n] = e}

\* Count counts places.
LEMMA PlacesFinite ==
  ASSUME NEW S, NEW s \in Seq(S), NEW e
  PROVE  IsFiniteSet(Places(s, e)) /\ Count(s, e) = Cardinality(Places(s, e)) /\ Count(s, e) \in Nat
<1>1. Len(s) \in Nat /\ DOMAIN s = 1 .. Len(s)
  OBVIOUS
<1>2. IsFiniteSet(1 .. Len(s))
  BY <1>1, FS_Interval
<1>3. Places(s, e) \in SUBSET (1 .. Len(s))
  BY <1>1 DEF Places
<1>4. IsFiniteSet(Places(s, e))
  BY ONLY <1>2, <1>3, FS_Subset
<1>5. Cardinality(Places(s, e)) \in Nat
  BY ONLY <1>4, FS_CardinalityType
<1> QED BY <1>4, <1>5 DEF Count, Places

\* What is not there is counted zero times, and what is there at least once.
LEMMA CountIs ==
  ASSUME NEW S, NEW s \in Seq(S), NEW e
  PROVE  /\ Count(s, e) \in Nat
         /\ (Count(s, e) = 0) <=> (e \notin ToSet(s))
         /\ IsInjective(s) => Count(s, e) = IF e \in ToSet(s) THEN 1 ELSE 0
<1>1. IsFiniteSet(Places(s, e)) /\ Count(s, e) = Cardinality(Places(s, e)) /\ Count(s, e) \in Nat
  BY PlacesFinite
<1>2. Places(s, e) = {} <=> e \notin ToSet(s)
  BY DEF Places, ToSet
<1>3. Count(s, e) = 0 <=> Places(s, e) = {}
  BY ONLY <1>1, FS_EmptySet
<1>4. ASSUME IsInjective(s), e \in ToSet(s) PROVE Count(s, e) = 1
  <2>1. PICK k \in DOMAIN s : s[k] = e
    BY <1>4 DEF ToSet
  <2>2. Places(s, e) = {k}
    BY ONLY <2>1, <1>4 DEF IsInjective, Places
  <2> QED BY ONLY <1>1, <2>2, FS_Singleton
<1> QED BY <1>1, <1>2, <1>3, <1>4

\* Counts add up.
LEMMA CountConcat ==
  ASSUME NEW S, NEW s \in Seq(S), NEW t \in Seq(S), NEW e
  PROVE  Count(s \o t, e) = Count(s, e) + Count(t, e)
<1> DEFINE u == s \o t
           A == Places(s, e)
           B == Places(t, e)
           C == {n + Len(s) : n \in B}
           f == [n \in B |-> n + Len(s)]
<1>1. /\ u \in Seq(S) /\ Len(s) \in Nat /\ Len(t) \in Nat /\ Len(u) = Len(s) + Len(t)
      /\ DOMAIN s = 1 .. Len(s) /\ DOMAIN t = 1 .. Len(t) /\ DOMAIN u = 1 .. Len(s) + Len(t)
      /\ \A i \in 1 .. Len(s) : u[i] = s[i]
      /\ \A i \in 1 .. Len(t) : u[i + Len(s)] = t[i]
  OBVIOUS
<1> HIDE DEF u
<1>2. /\ IsFiniteSet(A) /\ Count(s, e) = Cardinality(A) /\ Count(s, e) \in Nat
      /\ IsFiniteSet(B) /\ Count(t, e) = Cardinality(B) /\ Count(t, e) \in Nat
  BY PlacesFinite
<1>3. Count(u, e) = Cardinality(Places(u, e))
  BY <1>1, PlacesFinite
<1>4. Places(u, e) = A \cup C
  <2>1. ASSUME NEW n \in Places(u, e) PROVE n \in A \cup C
    <3>1. n \in 1 .. Len(s) + Len(t) /\ u[n] = e
      BY <1>1 DEF Places
    <3>2. CASE n \in 1 .. Len(s)
      BY <1>1, <3>1, <3>2 DEF Places
    <3>3. CASE n \notin 1 .. Len(s)
      <4>1. n - Len(s) \in 1 .. Len(t) /\ (n - Len(s)) + Len(s) = n
        BY <1>1, <3>1, <3>3
      <4>2. n - Len(s) \in B
        BY <1>1, <3>1, <4>1 DEF Places
      <4> QED BY <4>1, <4>2
    <3> QED BY <3>2, <3>3
  <2>2. ASSUME NEW n \in A PROVE n \in Places(u, e)
    BY <1>1 DEF Places
  <2>3. ASSUME NEW n \in B PROVE n + Len(s) \in Places(u, e)
    BY <1>1 DEF Places
  <2> QED BY <2>1, <2>2, <2>3
<1>5. A \cap C = {}
  BY <1>1 DEF Places
<1>6. IsFiniteSet(C) /\ Cardinality(C) = Cardinality(B)
  <2>1. f \in [B -> C]
    OBVIOUS
  <2>2. \A x, y \in B : f[x] = f[y] => x = y
    BY <1>1 DEF Places
  <2>3. \A b \in C : \E a \in B : f[a] = b
    OBVIOUS
  <2> HIDE DEF f, C, B
  <2> QED BY <1>2, <2>1, <2>2, <2>3, AsMany
<1>7. Cardinality(A \cup C) = Cardinality(A) + Cardinality(C) - Cardinality(A \cap C)
  <2> HIDE DEF A, C
  <2> QED BY ONLY <1>2, <1>6, FS_Union
<1>8. Cardinality(A \cap C) = 0
  BY ONLY <1>5, FS_EmptySet
<1> QED
  <2> HIDE DEF A, B, C
  <2> QED BY <1>2, <1>3, <1>4, <1>6, <1>7, <1>8 DEF u

\* The same element m times.
LEMMA CountSame ==
  ASSUME NEW S, NEW c \in S, NEW m \in Nat, NEW e
  PROVE  /\ [n \in 1 .. m |-> c] \in Seq(S)
         /\ Count([n \in 1 .. m |-> c], e) = IF c = e THEN m ELSE 0
<1> DEFINE t == [n \in 1 .. m |-> c]
<1>1. t \in Seq(S) /\ DOMAIN t = 1 .. m /\ \A n \in 1 .. m : t[n] = c
  <2>1. t \in [1 .. m -> S]
    OBVIOUS
  <2>2. t \in Seq(S)
    BY <2>1, SeqDef
  <2> QED BY <2>2
<1> HIDE DEF t
<1>2. Count(t, e) = Cardinality(Places(t, e))
  BY <1>1, PlacesFinite
<1>3. CASE c = e
  <2>1. Places(t, e) = 1 .. m
    BY <1>1, <1>3 DEF Places
  <2>2. Cardinality(1 .. m) = m
    BY FS_Interval
  <2> QED BY <1>1, <1>2, <1>3, <2>1, <2>2 DEF t
<1>4. CASE c # e
  <2>1. Places(t, e) = {}
    BY <1>1, <1>4 DEF Places
  <2> QED BY <1>1, <1>2, <1>4, <2>1, FS_EmptySet DEF t
<1> QED BY <1>3, <1>4

\* What Kept keeps: the elements of es, in their order, as often as they were there.
LEMMA KeptHas ==
  ASSUME NEW S, NEW s \in Seq(S), NEW es
  PROVE  LET t == Kept(s, es)
         IN  /\ t \in Seq(S)
             /\ ToSet(t) = ToSet(s) \cap es
             /\ \A i, j \in DOMAIN t : i < j => \E m, n \in DOMAIN s : m < n /\ t[i] = s[m] /\ t[j] = s[n]
             /\ \A e : Count(t, e) = IF e \in es THEN Count(s, e) ELSE 0
<1> DEFINE t == Kept(s, es)
<1>1. t \in Seq(S) /\ \E h : KeptFrom(t, h, s, es, Len(s))
  BY KeptIs
<1> HIDE DEF t
<1>2. PICK h : KeptFrom(t, h, s, es, Len(s))
  BY <1>1
<1>3. /\ DOMAIN t = 1 .. Len(t) /\ DOMAIN s = 1 .. Len(s) /\ Len(t) \in Nat /\ Len(s) \in Nat
      /\ h \in [1 .. Len(t) -> 1 .. Len(s)]
  BY <1>1, <1>2 DEF KeptFrom
<1>4. /\ \A i, j \in DOMAIN t : i < j => h[i] < h[j]
      /\ \A i \in DOMAIN t : h[i] \in DOMAIN s /\ t[i] = s[h[i]] /\ t[i] \in es
      /\ \A n \in DOMAIN s : s[n] \in es => \E i \in DOMAIN t : h[i] = n
  BY <1>2, <1>3 DEF KeptFrom
<1>5. ToSet(t) = ToSet(s) \cap es
  <2>1. ASSUME NEW x \in ToSet(t) PROVE x \in ToSet(s) \cap es
    BY <1>4 DEF ToSet
  <2>2. ASSUME NEW x \in ToSet(s) \cap es PROVE x \in ToSet(t)
    <3>1. PICK n \in DOMAIN s : s[n] = x
      BY DEF ToSet
    <3>2. PICK i \in DOMAIN t : h[i] = n
      BY <1>4, <3>1
    <3> QED BY <1>4, <3>1, <3>2 DEF ToSet
  <2> QED BY <2>1, <2>2
<1>6. \A i, j \in DOMAIN t : i < j => \E m, n \in DOMAIN s : m < n /\ t[i] = s[m] /\ t[j] = s[n]
  BY <1>4
<1>7. ASSUME NEW e PROVE Count(t, e) = IF e \in es THEN Count(s, e) ELSE 0
  <2>1. CASE e \notin es
    <3>1. e \notin ToSet(t)
      BY <1>5, <2>1
    <3> QED BY <1>1, <2>1, <3>1, CountIs
  <2>2. CASE e \in es
    <3> DEFINE f == [i \in Places(t, e) |-> h[i]]
    <3>1. f \in [Places(t, e) -> Places(s, e)]
      BY <1>4 DEF Places
    <3>2. \A i, j \in Places(t, e) : f[i] = f[j] => i = j
      <4> SUFFICES ASSUME NEW i \in Places(t, e), NEW j \in Places(t, e), f[i] = f[j], i # j PROVE FALSE
        OBVIOUS
      <4>1. i \in DOMAIN t /\ j \in DOMAIN t /\ h[i] = h[j]
        BY DEF Places
      <4>2. i < j \/ j < i
        BY <1>3, <4>1
      <4>3. h[i] \in Int /\ h[j] \in Int /\ (h[i] < h[j] \/ h[j] < h[i])
        BY <1>3, <1>4, <4>1, <4>2
      <4> QED BY <4>1, <4>3
    <3>3. \A n \in Places(s, e) : \E i \in Places(t, e) : f[i] = n
      <4> TAKE n \in Places(s, e)
      <4>1. n \in DOMAIN s /\ s[n] = e
        BY DEF Places
      <4>2. PICK i \in DOMAIN t : h[i] = n
        BY <1>4, <2>2, <4>1
      <4>3. i \in Places(t, e)
        BY <1>4, <4>1, <4>2 DEF Places
      <4> QED BY <4>2, <4>3
    <3>4. /\ IsFiniteSet(Places(t, e)) /\ Count(t, e) = Cardinality(Places(t, e))
          /\ Count(s, e) = Cardinality(Places(s, e))
      BY <1>1, PlacesFinite
    <3> HIDE DEF f
    <3>5. Cardinality(Places(s, e)) = Cardinality(Places(t, e))
      BY ONLY <3>1, <3>2, <3>3, <3>4, AsMany
    <3> QED BY <2>2, <3>4, <3>5
  <2> QED BY <2>1, <2>2
<1> QED BY <1>1, <1>5, <1>6, <1>7 DEF t

\* What is left, its order and how often each element is in it.
LEMMA WithoutHas ==
  ASSUME NEW S, NEW s \in Seq(S), NEW es
  PROVE  LET t == Without(s, es)
         IN  /\ t \in Seq(S)
             /\ ToSet(t) = ToSet(s) \ es
             /\ \A i, j \in DOMAIN t : i < j => \E m, n \in DOMAIN s : m < n /\ t[i] = s[m] /\ t[j] = s[n]
             /\ \A e : Count(t, e) = IF e \in es THEN 0 ELSE Count(s, e)
             /\ IsInjective(s) => IsInjective(t)
<1> DEFINE t == Without(s, es)
           others == ToSet(s) \ es
<1>0. LET u == Kept(s, others)
      IN  /\ u \in Seq(S)
          /\ ToSet(u) = ToSet(s) \cap others
          /\ \A i, j \in DOMAIN u : i < j => \E m, n \in DOMAIN s : m < n /\ u[i] = s[m] /\ u[j] = s[n]
          /\ \A e : Count(u, e) = IF e \in others THEN Count(s, e) ELSE 0
  <2> HIDE DEF others
  <2> QED BY KeptHas
<1>1. /\ t \in Seq(S)
      /\ ToSet(t) = ToSet(s) \cap (ToSet(s) \ es)
      /\ \A i, j \in DOMAIN t : i < j => \E m, n \in DOMAIN s : m < n /\ t[i] = s[m] /\ t[j] = s[n]
      /\ \A e : Count(t, e) = IF e \in ToSet(s) \ es THEN Count(s, e) ELSE 0
  BY <1>0 DEF Without
<1> HIDE DEF t
<1>2. \A e : Count(t, e) = IF e \in es THEN 0 ELSE Count(s, e)
  <2> TAKE e
  <2>1. e \notin ToSet(s) => Count(s, e) = 0
    BY CountIs
  <2> QED BY <1>1, <2>1
<1>3. ASSUME IsInjective(s) PROVE IsInjective(t)
  <2> SUFFICES ASSUME NEW i \in DOMAIN t, NEW j \in DOMAIN t, t[i] = t[j], i # j PROVE FALSE
    BY DEF IsInjective
  <2>1. DOMAIN t = 1 .. Len(t) /\ Len(t) \in Nat /\ DOMAIN s = 1 .. Len(s)
    BY <1>1
  <2>2. ASSUME NEW x \in DOMAIN t, NEW y \in DOMAIN t, x < y, t[x] = t[y] PROVE FALSE
    <3>1. PICK m, n \in DOMAIN s : m < n /\ t[x] = s[m] /\ t[y] = s[n]
      BY <1>1, <2>2
    <3>2. m = n
      BY <1>3, <2>2, <3>1 DEF IsInjective
    <3> QED BY <3>1, <3>2, <2>1
  <2>3. i < j \/ j < i
    BY <2>1
  <2> QED BY <2>2, <2>3
<1>4. ToSet(t) = ToSet(s) \ es
  BY <1>1
<1> QED BY <1>1, <1>2, <1>3, <1>4 DEF t

\* The first element, and the others.
LEMMA HeadIs ==
  ASSUME NEW S, NEW s \in Seq(S), s # << >>
  PROVE  /\ Head(s) \in S /\ Head(s) \in ToSet(s) /\ 1 \in DOMAIN s /\ Head(s) = s[1]
         /\ Last(s) \in S /\ Last(s) \in ToSet(s) /\ Len(s) \in DOMAIN s /\ Last(s) = s[Len(s)]
<1>1. Len(s) \in Nat /\ Len(s) # 0 /\ DOMAIN s = 1 .. Len(s)
  BY EmptySeq
<1> QED BY <1>1 DEF ToSet, Last

\* What Front is, place by place.
LEMMA FrontIs ==
  ASSUME NEW S, NEW s \in Seq(S), s # << >>
  PROVE  /\ Front(s) \in Seq(S) /\ Len(Front(s)) = Len(s) - 1
         /\ DOMAIN Front(s) = 1 .. Len(s) - 1
         /\ \A n \in 1 .. Len(s) - 1 : Front(s)[n] = s[n]
<1>1. Len(s) \in Nat /\ Len(s) # 0 /\ DOMAIN s = 1 .. Len(s)
  BY EmptySeq
<1>2. \A n \in 1 .. Len(s) : s[n] \in S
  OBVIOUS
<1>3. /\ SubSeq(s, 1, Len(s) - 1) \in Seq(S)
      /\ Len(SubSeq(s, 1, Len(s) - 1)) = IF 1 <= Len(s) - 1 THEN (Len(s) - 1) - 1 + 1 ELSE 0
      /\ \A n \in 1 .. (Len(s) - 1) - 1 + 1 : SubSeq(s, 1, Len(s) - 1)[n] = s[1 + n - 1]
  <2>1. \A n \in 1 .. Len(s) - 1 : s[n] \in S
    BY <1>1, <1>2
  <2> QED BY <1>1, <2>1, SubSeqProperties
<1> QED BY <1>1, <1>3 DEF Front

-----------------------------------------------------------------------------
(* The inductive invariant *)

\* The structures of clients.
ClientRec == [buf : Seq(Command), multi : BOOLEAN, queue : Seq(Command), bkeys : Seq(Key), timed : BOOLEAN,
              chans : SUBSET Channel, pats : SUBSET Pattern]

\* The structures of the clients: no EXEC, DISCARD or QUIT is queued in a transaction.
ClientsOK(cls, cl) ==
  /\ cls \in Seq(Client) /\ IsInjective(cls)
  /\ cl \in [Client -> ClientRec]
  /\ \A c \in Client : /\ Len(cl[c].buf) <= MaxBuf
                       /\ \A cmd \in ToSet(cl[c].queue) : cmd[1] \notin {"exec", "discard", "quit"}

\* The calls.
Frame == ({"input"} \X Client) \cup ({"call"} \X Client \X Command \X BOOLEAN)
         \cup ({"exec"} \X Client \X (Nat \ {0}))
         \cup ({"rpoplpush"} \X Client \X Key \X (1 .. MaxPushed) \X BOOLEAN)
         \cup ({"cron"} \X (Client \cup {NIL})) \cup {<<"undefined">>}

\* f is a call for a client.
Owned(f) == f[1] \in {"input", "call", "exec", "rpoplpush"}

\* The calls under way.  A client is read from in its first call only, and executes one
\* transaction; when it has just been blocked, its call is the innermost.
StackOK(cls, cl, st) ==
  /\ st \in Seq(Frame)
  /\ \A n \in DOMAIN st : st[n][1] = "undefined" => Len(st) = 1
  /\ \A n \in DOMAIN st : st[n][1] = "cron" => n = 1
  /\ \A n \in DOMAIN st : Owned(st[n]) => st[n][2] \in ToSet(cls)
  /\ \A n \in DOMAIN st : st[n][1] = "input" =>
       /\ cl[st[n][2]].buf # << >>
       /\ \A m \in DOMAIN st : m < n /\ Owned(st[m]) => st[m][2] # st[n][2]
  /\ \A n \in DOMAIN st : st[n][1] = "exec" =>
       /\ n - 1 \in DOMAIN st /\ st[n - 1][1] = "call" /\ st[n - 1][3][1] = "exec"
       /\ cl[st[n][2]].multi /\ st[n][3] \in 1 .. Len(cl[st[n][2]].queue) + 1
       /\ \A m \in DOMAIN st : m < n /\ st[m][1] = "exec" => st[m][2] # st[n][2]
  /\ \A n \in DOMAIN st : Owned(st[n]) /\ cl[st[n][2]].bkeys # << >> =>
       /\ st[n][1] \in {"input", "call"}
       /\ \A m \in DOMAIN st : n < m => m = Len(st) /\ m = n + 1 /\ st[m][1] = "call" /\ st[m][2] = st[n][2]

\* Who waits for which key, and since when; nobody waits for what is there, unless it was renamed.
BlockOK(cls, cl, ls, bk, ord, ren) ==
  /\ bk \in [Key -> Seq(Client)] /\ ord \in Seq(Client) /\ IsInjective(ord) /\ ren \subseteq Key
  /\ \A c \in Client, k \in Key : Count(bk[k], c) = Count(cl[c].bkeys, k)
  /\ \A c \in Client : cl[c].bkeys # << >> => c \in ToSet(cls) /\ ~cl[c].multi
  /\ \A c \in Client : c \in ToSet(ord) <=> cl[c].bkeys # << >>
  /\ \A k \in Key : \A i, j \in DOMAIN bk[k] : i < j =>
       \A p, q \in DOMAIN ord : ord[p] = bk[k][i] /\ ord[q] = bk[k][j] => p <= q
  /\ \A k \in Key : ls[k] # << >> /\ bk[k] # << >> => k \in ren

\* f has the node of e in its hands.
Holds(f, e) == f[1] = "rpoplpush" /\ f[4] = e
\* e is in one of the lists.
InList(ls, e) == \E k \in Key : e \in ToSet(ls[k])

\* An element that was given away g times.  One that rpoplpush gave away is in its list until
\* rpoplpush ends; what is freed before is found freed by then.
ElementOK(st, ls, pu, g, e) ==
  /\ pu < e => ~InList(ls, e) /\ g = 0 /\ \A n \in DOMAIN st : ~Holds(st[n], e)
  /\ e <= pu /\ st # Undefined =>
       /\ (\A n \in DOMAIN st : ~Holds(st[n], e)) => g = IF InList(ls, e) THEN 0 ELSE 1
       /\ \A n \in DOMAIN st : Holds(st[n], e) /\ ~st[n][5] =>
            /\ InList(ls, e)
            /\ (\A m \in DOMAIN st : m # n => ~Holds(st[m], e)) => g = 1

\* No element is in two places.
ListsOK(ls) ==
  /\ ls \in [Key -> Seq(1 .. MaxPushed)]
  /\ \A k, j \in Key : \A n \in DOMAIN ls[k], m \in DOMAIN ls[j] : ls[k][n] = ls[j][m] => k = j /\ n = m

\* The elements are in lists or were given away.
DataOK(st, ls, pu, go) ==
  /\ ListsOK(ls) /\ pu \in 0 .. MaxPushed /\ go \in [1 .. MaxPushed -> Nat]
  /\ \A e \in 1 .. MaxPushed : ElementOK(st, ls, pu, go[e], e)

\* Who is subscribed to what.
PubOK(cls, cl, pc, pp) ==
  /\ pc \in [Channel -> Seq(Client)] /\ pp \in Seq(Client \X Pattern) /\ IsInjective(pp)
  /\ \A ch \in Channel : /\ IsInjective(pc[ch])
                         /\ \A c \in Client : c \in ToSet(pc[ch]) <=> ch \in cl[c].chans
  /\ \A c \in Client, p \in Pattern : <<c, p>> \in ToSet(pp) <=> p \in cl[c].pats
  /\ \A c \in Client : cl[c].chans # {} \/ cl[c].pats # {} => c \in ToSet(cls)

\* While a slave is in a transaction, an EXEC is under way that will be propagated.
MultiOK(st, sm) ==
  /\ sm \in BOOLEAN
  /\ sm /\ st # Undefined =>
       \E n \in DOMAIN st : /\ st[n][1] = "call" /\ st[n][3][1] = "exec"
                            /\ st[n][4] \/ (n + 1 \in DOMAIN st /\ st[n + 1][1] = "exec")

\* The whole state, with s for the stack and cl for the structures of the clients.
At(s, cl) ==
  /\ ClientsOK(clients, cl)
  /\ StackOK(clients, cl, s)
  /\ BlockOK(clients, cl, lists, blockingkeys, order, renamed)
  /\ DataOK(s, lists, pushed, got)
  /\ PubOK(clients, cl, pubsub_channels, pubsub_patterns)
  /\ MultiOK(s, slaveMulti)

\* All of it, of the server between two steps; programs are what is left to be sent.
CInv == At(stack, client) /\ todo \in [Client -> Seq(Command)]

-----------------------------------------------------------------------------
(* The stack *)

\* The kinds of calls, and what each of them has.
LEMMA FrameKinds ==
  ASSUME NEW f \in Frame
  PROVE  /\ f[1] \in {"input", "call", "exec", "rpoplpush", "cron", "undefined"}
         /\ Owned(f) => f[2] \in Client
         /\ f[1] = "input" => f = <<"input", f[2]>>
         /\ f[1] = "call" => f[3] \in Command /\ f[4] \in BOOLEAN /\ f = <<"call", f[2], f[3], f[4]>>
         /\ f[1] = "exec" => f[3] \in Nat \ {0} /\ f = <<"exec", f[2], f[3]>>
         /\ f[1] = "rpoplpush" => /\ f[3] \in Key /\ f[4] \in 1 .. MaxPushed /\ f[5] \in BOOLEAN
                                  /\ f = <<"rpoplpush", f[2], f[3], f[4], f[5]>>
         /\ f[1] = "cron" => f[2] \in Client \cup {NIL} /\ f = <<"cron", f[2]>>
         /\ f[1] = "undefined" => f = <<"undefined">>
<1>1. CASE f \in {"input"} \X Client
  BY <1>1 DEF Owned
<1>2. CASE f \in {"call"} \X Client \X Command \X BOOLEAN
  BY <1>2 DEF Owned
<1>3. CASE f \in {"exec"} \X Client \X (Nat \ {0})
  BY <1>3 DEF Owned
<1>4. CASE f \in {"rpoplpush"} \X Client \X Key \X (1 .. MaxPushed) \X BOOLEAN
  BY <1>4 DEF Owned
<1>5. CASE f \in {"cron"} \X (Client \cup {NIL})
  BY <1>5 DEF Owned
<1>6. CASE f = <<"undefined">>
  BY <1>6 DEF Owned
<1> QED BY <1>1, <1>2, <1>3, <1>4, <1>5, <1>6 DEF Frame

\* Calls of every kind are calls.
LEMMA FramesAre ==
  /\ \A c \in Client : <<"input", c>> \in Frame
  /\ \A c \in Client, cmd \in Command, b \in BOOLEAN : <<"call", c, cmd, b>> \in Frame
  /\ \A c \in Client, n \in Nat \ {0} : <<"exec", c, n>> \in Frame
  /\ \A c \in Client, k \in Key, e \in 1 .. MaxPushed, b \in BOOLEAN : <<"rpoplpush", c, k, e, b>> \in Frame
  /\ \A c \in Client \cup {NIL} : <<"cron", c>> \in Frame
  /\ <<"undefined">> \in Frame
BY DEF Frame

\* g is f, perhaps with the mark that the dataset has changed, or that the node is freed.
Marked(g, f) ==
  \/ g = f
  \/ f[1] = "call" /\ g = <<"call", f[2], f[3], TRUE>>
  \/ f[1] = "rpoplpush" /\ g = <<"rpoplpush", f[2], f[3], f[4], TRUE>>

\* What a mark leaves as it was.
LEMMA MarkKeeps ==
  ASSUME NEW f \in Frame, NEW g, Marked(g, f)
  PROVE  /\ g \in Frame /\ g[1] = f[1] /\ g[2] = f[2]
         /\ f[1] \in {"call", "exec", "rpoplpush"} => g[3] = f[3]
         /\ f[1] = "rpoplpush" => g[4] = f[4] /\ (f[5] => g[5])
         /\ f[1] = "call" /\ f[4] => g[4]
         /\ f[1] = "undefined" => g = f
         /\ f[1] = "cron" => g = f
<1>1. CASE g = f
  BY <1>1
<1>2. CASE f[1] = "call" /\ g = <<"call", f[2], f[3], TRUE>>
  <2>1. f[2] \in Client /\ f[3] \in Command
    BY <1>2, FrameKinds DEF Owned
  <2>2. g \in Frame
    BY <1>2, <2>1, FramesAre
  <2> QED BY <1>2, <2>2
<1>3. CASE f[1] = "rpoplpush" /\ g = <<"rpoplpush", f[2], f[3], f[4], TRUE>>
  <2>1. f[2] \in Client /\ f[3] \in Key /\ f[4] \in 1 .. MaxPushed
    BY <1>3, FrameKinds DEF Owned
  <2>2. g \in Frame
    BY <1>3, <2>1, FramesAre
  <2> QED BY <1>3, <2>2
<1> QED BY <1>1, <1>2, <1>3 DEF Marked

\* The same calls, perhaps with marks.
Alike(t, s) == t \in Seq(Frame) /\ Len(t) = Len(s) /\ \A n \in DOMAIN s : Marked(t[n], s[n])

\* Dirtied marks the calls of commands and changes nothing else.
LEMMA DirtiedAlike ==
  ASSUME NEW s \in Seq(Frame)
  PROVE  /\ Alike(Dirtied(s), s)
         /\ \A n \in DOMAIN s : /\ s[n][1] = "call" => Dirtied(s)[n][4]
                                /\ s[n][1] # "call" => Dirtied(s)[n] = s[n]
<1> DEFINE t == Dirtied(s)
<1>1. DOMAIN s = 1 .. Len(s) /\ Len(s) \in Nat
  OBVIOUS
<1>2. t = [n \in 1 .. Len(s) |-> IF s[n][1] = "call" THEN <<"call", s[n][2], s[n][3], TRUE>> ELSE s[n]]
  BY <1>1 DEF Dirtied
<1>3. \A n \in DOMAIN s : Marked(t[n], s[n])
  BY <1>1, <1>2 DEF Marked
<1>4. \A n \in 1 .. Len(s) : t[n] \in Frame
  <2> TAKE n \in 1 .. Len(s)
  <2>1. s[n] \in Frame
    OBVIOUS
  <2> HIDE DEF t
  <2> QED BY <1>1, <1>3, <2>1, MarkKeeps
<1>5. \A n \in DOMAIN s : /\ s[n][1] = "call" => t[n][4]
                          /\ s[n][1] # "call" => t[n] = s[n]
  <2> TAKE n \in DOMAIN s
  <2>1. t[n] = IF s[n][1] = "call" THEN <<"call", s[n][2], s[n][3], TRUE>> ELSE s[n]
    BY <1>1, <1>2
  <2> HIDE DEF t
  <2>2. <<"call", s[n][2], s[n][3], TRUE>>[4]
    OBVIOUS
  <2> QED BY <2>1, <2>2
<1>6. DOMAIN t = 1 .. Len(s)
  BY <1>2
<1> HIDE DEF t
<1>7. t \in [1 .. Len(s) -> Frame]
  BY <1>2, <1>4, <1>6
<1>8. t \in Seq(Frame) /\ Len(t) = Len(s)
  BY <1>1, <1>7, SeqDef
<1> QED BY <1>3, <1>5, <1>8 DEF Alike, t

\* Freed marks the calls of rpoplpush that hold a freed node and changes nothing else.
LEMMA FreedAlike ==
  ASSUME NEW s \in Seq(Frame), NEW es
  PROVE  /\ Alike(Freed(s, es), s)
         /\ \A n \in DOMAIN s : /\ s[n][1] = "rpoplpush" /\ s[n][4] \in es => Freed(s, es)[n][5]
                                /\ ~(s[n][1] = "rpoplpush" /\ s[n][4] \in es) => Freed(s, es)[n] = s[n]
<1> DEFINE t == Freed(s, es)
<1>1. DOMAIN s = 1 .. Len(s) /\ Len(s) \in Nat
  OBVIOUS
<1>2. t = [n \in 1 .. Len(s) |-> IF s[n][1] = "rpoplpush" /\ s[n][4] \in es
                                 THEN <<"rpoplpush", s[n][2], s[n][3], s[n][4], TRUE>> ELSE s[n]]
  BY <1>1 DEF Freed
<1>3. \A n \in DOMAIN s : Marked(t[n], s[n])
  BY <1>1, <1>2 DEF Marked
<1>4. \A n \in 1 .. Len(s) : t[n] \in Frame
  <2> TAKE n \in 1 .. Len(s)
  <2>1. s[n] \in Frame
    OBVIOUS
  <2> HIDE DEF t
  <2> QED BY <1>1, <1>3, <2>1, MarkKeeps
<1>5. \A n \in DOMAIN s : /\ s[n][1] = "rpoplpush" /\ s[n][4] \in es => t[n][5]
                          /\ ~(s[n][1] = "rpoplpush" /\ s[n][4] \in es) => t[n] = s[n]
  <2> TAKE n \in DOMAIN s
  <2>1. t[n] = IF s[n][1] = "rpoplpush" /\ s[n][4] \in es
               THEN <<"rpoplpush", s[n][2], s[n][3], s[n][4], TRUE>> ELSE s[n]
    BY <1>1, <1>2
  <2> HIDE DEF t
  <2>2. <<"rpoplpush", s[n][2], s[n][3], s[n][4], TRUE>>[5]
    OBVIOUS
  <2> QED BY <2>1, <2>2
<1>6. DOMAIN t = 1 .. Len(s)
  BY <1>2
<1> HIDE DEF t
<1>7. t \in [1 .. Len(s) -> Frame]
  BY <1>2, <1>4, <1>6
<1>8. t \in Seq(Frame) /\ Len(t) = Len(s)
  BY <1>1, <1>7, SeqDef
<1> QED BY <1>3, <1>5, <1>8 DEF Alike, t

\* Both marks: nodes of elements of es are freed.
LEMMA NotedAlike ==
  ASSUME NEW s \in Seq(Frame), NEW es
  PROVE  LET t == Freed(Dirtied(s), es)
         IN  /\ Alike(t, s)
             /\ \A n \in DOMAIN s : /\ s[n][1] = "rpoplpush" /\ s[n][4] \in es => t[n][5]
                                    /\ s[n][1] = "rpoplpush" /\ s[n][4] \notin es => t[n] = s[n]
                                    /\ s[n][1] = "call" => t[n][4]
<1> DEFINE d == Dirtied(s)
           t == Freed(d, es)
<1>1. /\ Alike(d, s)
      /\ \A n \in DOMAIN s : /\ s[n][1] = "call" => d[n][4]
                             /\ s[n][1] # "call" => d[n] = s[n]
  BY DirtiedAlike
<1> HIDE DEF d
<1>2. d \in Seq(Frame) /\ DOMAIN d = DOMAIN s
  BY <1>1 DEF Alike
<1>3. /\ Alike(t, d)
      /\ \A n \in DOMAIN d : /\ d[n][1] = "rpoplpush" /\ d[n][4] \in es => t[n][5]
                             /\ ~(d[n][1] = "rpoplpush" /\ d[n][4] \in es) => t[n] = d[n]
  BY <1>2, FreedAlike
<1> HIDE DEF t
<1>4. ASSUME NEW n \in DOMAIN s
      PROVE  /\ Marked(t[n], s[n])
             /\ s[n][1] = "rpoplpush" /\ s[n][4] \in es => t[n][5]
             /\ s[n][1] = "rpoplpush" /\ s[n][4] \notin es => t[n] = s[n]
             /\ s[n][1] = "call" => t[n][4]
  <2>1. s[n] \in Frame
    OBVIOUS
  <2>2. CASE s[n][1] = "call"
    <3>1. d[n][1] = "call" /\ d[n][4]
      BY <1>1, <2>1, <2>2, MarkKeeps DEF Alike
    <3>2. t[n] = d[n]
      BY <1>2, <1>3, <3>1
    <3> QED BY <1>1, <2>2, <3>1, <3>2 DEF Alike
  <2>3. CASE s[n][1] # "call"
    <3>1. d[n] = s[n]
      BY <1>1, <2>3
    <3> QED BY <1>2, <1>3, <2>3, <3>1 DEF Alike
  <2> QED BY <2>2, <2>3
<1> QED BY <1>1, <1>2, <1>3, <1>4 DEF Alike, t, d

\* Marks change neither what a stack says about clients, nor what is true of transactions.
LEMMA StackAlike ==
  ASSUME NEW cls, NEW cl, NEW s, NEW t, StackOK(cls, cl, s), Alike(t, s)
  PROVE  StackOK(cls, cl, t)
<1>1. /\ s \in Seq(Frame) /\ t \in Seq(Frame) /\ Len(t) = Len(s) /\ DOMAIN t = DOMAIN s
      /\ DOMAIN s = 1 .. Len(s)
  BY DEF StackOK, Alike
<1>2. ASSUME NEW n \in DOMAIN s
      PROVE  /\ t[n][1] = s[n][1] /\ t[n][2] = s[n][2] /\ (Owned(t[n]) <=> Owned(s[n]))
             /\ s[n][1] \in {"call", "exec"} => t[n][3] = s[n][3]
  <2>1. s[n] \in Frame
    BY <1>1
  <2>2. Marked(t[n], s[n])
    BY DEF Alike
  <2> QED BY <2>1, <2>2, MarkKeeps DEF Owned
<1>3. /\ \A n \in DOMAIN t : t[n][1] = "undefined" => Len(t) = 1
      /\ \A n \in DOMAIN t : t[n][1] = "cron" => n = 1
      /\ \A n \in DOMAIN t : Owned(t[n]) => t[n][2] \in ToSet(cls)
  BY <1>1, <1>2 DEF StackOK
<1>4. ASSUME NEW n \in DOMAIN t, t[n][1] = "input"
      PROVE  /\ cl[t[n][2]].buf # << >>
             /\ \A m \in DOMAIN t : m < n /\ Owned(t[m]) => t[m][2] # t[n][2]
  BY <1>1, <1>2, <1>4 DEF StackOK
<1>5. ASSUME NEW n \in DOMAIN t, t[n][1] = "exec"
      PROVE  /\ n - 1 \in DOMAIN t /\ t[n - 1][1] = "call" /\ t[n - 1][3][1] = "exec"
             /\ cl[t[n][2]].multi /\ t[n][3] \in 1 .. Len(cl[t[n][2]].queue) + 1
             /\ \A m \in DOMAIN t : m < n /\ t[m][1] = "exec" => t[m][2] # t[n][2]
  <2>1. n \in DOMAIN s /\ s[n][1] = "exec" /\ t[n][2] = s[n][2] /\ t[n][3] = s[n][3]
    BY <1>1, <1>2, <1>5
  <2>2. /\ n - 1 \in DOMAIN s /\ s[n - 1][1] = "call" /\ s[n - 1][3][1] = "exec"
        /\ cl[s[n][2]].multi /\ s[n][3] \in 1 .. Len(cl[s[n][2]].queue) + 1
        /\ \A m \in DOMAIN s : m < n /\ s[m][1] = "exec" => s[m][2] # s[n][2]
    BY <2>1 DEF StackOK
  <2>3. t[n - 1][1] = "call" /\ t[n - 1][3] = s[n - 1][3]
    BY <1>2, <2>2
  <2> QED BY <1>1, <1>2, <2>1, <2>2, <2>3
<1>6. ASSUME NEW n \in DOMAIN t, Owned(t[n]), cl[t[n][2]].bkeys # << >>
      PROVE  /\ t[n][1] \in {"input", "call"}
             /\ \A m \in DOMAIN t : n < m => m = Len(t) /\ m = n + 1 /\ t[m][1] = "call" /\ t[m][2] = t[n][2]
  BY <1>1, <1>2, <1>6 DEF StackOK
<1> QED BY <1>1, <1>3, <1>4, <1>5, <1>6 DEF StackOK

\* The calls that are marked propagate transactions as they did.
LEMMA MultiAlike ==
  ASSUME NEW s \in Seq(Frame), NEW t, Alike(t, s), NEW sm, MultiOK(s, sm)
  PROVE  MultiOK(t, sm)
<1>1. DOMAIN t = DOMAIN s /\ t \in Seq(Frame) /\ DOMAIN s = 1 .. Len(s) /\ Len(t) = Len(s)
  BY DEF Alike
<1>2. ASSUME NEW n \in DOMAIN s
      PROVE  /\ t[n][1] = s[n][1]
             /\ s[n][1] = "call" => t[n][3] = s[n][3] /\ (s[n][4] => t[n][4])
             /\ s[n][1] = "undefined" => t[n] = s[n]
  <2>1. s[n] \in Frame
    BY <1>1
  <2>2. Marked(t[n], s[n])
    BY DEF Alike
  <2> QED BY <2>1, <2>2, MarkKeeps
<1>3. s = Undefined => t = Undefined
  <2> HAVE s = Undefined
  <2>1. Len(s) = 1 /\ s[1] = <<"undefined">> /\ 1 \in DOMAIN s
    BY DEF Undefined
  <2>2. t[1] = <<"undefined">>
    BY <1>2, <2>1
  <2>3. Len(Undefined) = 1 /\ Undefined \in Seq(Frame) /\ Undefined[1] = <<"undefined">>
    BY FramesAre DEF Undefined
  <2>4. \A i \in 1 .. Len(t) : t[i] = Undefined[i]
    BY <1>1, <2>1, <2>2, <2>3
  <2> QED BY <1>1, <2>1, <2>3, <2>4, SeqEqual
<1>4. ASSUME sm, t # Undefined
      PROVE  \E n \in DOMAIN t : /\ t[n][1] = "call" /\ t[n][3][1] = "exec"
                                 /\ t[n][4] \/ (n + 1 \in DOMAIN t /\ t[n + 1][1] = "exec")
  <2>1. PICK n \in DOMAIN s : /\ s[n][1] = "call" /\ s[n][3][1] = "exec"
                              /\ s[n][4] \/ (n + 1 \in DOMAIN s /\ s[n + 1][1] = "exec")
    BY <1>3, <1>4 DEF MultiOK
  <2>2. t[n][1] = "call" /\ t[n][3][1] = "exec" /\ n \in DOMAIN t
    BY <1>1, <1>2, <2>1
  <2>3. t[n][4] \/ (n + 1 \in DOMAIN t /\ t[n + 1][1] = "exec")
    BY <1>1, <1>2, <2>1
  <2> QED BY <2>2, <2>3
<1> QED BY <1>4 DEF MultiOK

\* None of the clients with calls under way is blocked.
NoneBlocked(cl, st) == \A n \in DOMAIN st : Owned(st[n]) => cl[st[n][2]].bkeys = << >>

\* Clients may change in what the stack says nothing of.
LEMMA StackClients ==
  ASSUME NEW cls, NEW cl, NEW s, StackOK(cls, cl, s), NEW cls2, NEW cl2,
         \A n \in DOMAIN s : Owned(s[n]) =>
           /\ s[n][2] \in ToSet(cls2)
           /\ cl2[s[n][2]].bkeys # << >> => cl[s[n][2]].bkeys # << >>
           /\ s[n][1] = "input" => cl2[s[n][2]].buf # << >>
           /\ s[n][1] = "exec" => cl2[s[n][2]].multi /\ Len(cl2[s[n][2]].queue) = Len(cl[s[n][2]].queue)
  PROVE  StackOK(cls2, cl2, s)
<1>1. /\ s \in Seq(Frame)
      /\ \A n \in DOMAIN s : s[n][1] = "undefined" => Len(s) = 1
      /\ \A n \in DOMAIN s : s[n][1] = "cron" => n = 1
      /\ \A n \in DOMAIN s : Owned(s[n]) => s[n][2] \in ToSet(cls2)
  BY DEF StackOK
<1>2. ASSUME NEW n \in DOMAIN s, s[n][1] = "input"
      PROVE  /\ cl2[s[n][2]].buf # << >>
             /\ \A m \in DOMAIN s : m < n /\ Owned(s[m]) => s[m][2] # s[n][2]
  BY <1>2 DEF StackOK, Owned
<1>3. ASSUME NEW n \in DOMAIN s, s[n][1] = "exec"
      PROVE  /\ n - 1 \in DOMAIN s /\ s[n - 1][1] = "call" /\ s[n - 1][3][1] = "exec"
             /\ cl2[s[n][2]].multi /\ s[n][3] \in 1 .. Len(cl2[s[n][2]].queue) + 1
             /\ \A m \in DOMAIN s : m < n /\ s[m][1] = "exec" => s[m][2] # s[n][2]
  BY <1>3 DEF StackOK, Owned
<1>4. ASSUME NEW n \in DOMAIN s, Owned(s[n]), cl2[s[n][2]].bkeys # << >>
      PROVE  /\ s[n][1] \in {"input", "call"}
             /\ \A m \in DOMAIN s : n < m => m = Len(s) /\ m = n + 1 /\ s[m][1] = "call" /\ s[m][2] = s[n][2]
  BY <1>4 DEF StackOK
<1> QED BY <1>1, <1>2, <1>3, <1>4 DEF StackOK

\* The innermost call has ended.
LEMMA StackPop ==
  ASSUME NEW cls, NEW cl, NEW s, StackOK(cls, cl, s), s # << >>
  PROVE  StackOK(cls, cl, Front(s))
<1> DEFINE t == Front(s)
<1>1. /\ s \in Seq(Frame) /\ DOMAIN s = 1 .. Len(s) /\ Len(s) \in Nat \ {0}
  BY EmptySeq DEF StackOK
<1>2. /\ t \in Seq(Frame) /\ Len(t) = Len(s) - 1 /\ DOMAIN t = 1 .. Len(s) - 1
      /\ \A n \in DOMAIN t : n \in DOMAIN s /\ t[n] = s[n]
  <2>1. /\ t \in Seq(Frame) /\ Len(t) = Len(s) - 1 /\ DOMAIN t = 1 .. Len(s) - 1
        /\ \A n \in 1 .. Len(s) - 1 : t[n] = s[n]
    BY <1>1, FrontIs
  <2>2. \A l \in Nat \ {0} : \A n \in 1 .. l - 1 : n \in 1 .. l
    OBVIOUS
  <2> HIDE DEF t
  <2> QED BY <1>1, <2>1, <2>2
<1> HIDE DEF t
<1>3. ASSUME NEW n \in DOMAIN t
      PROVE  /\ t[n][1] = "undefined" => Len(t) = 1
             /\ t[n][1] = "cron" => n = 1
             /\ Owned(t[n]) => t[n][2] \in ToSet(cls)
  <2>1. n \in DOMAIN s /\ t[n] = s[n] /\ n < Len(s) /\ n >= 1
    BY <1>1, <1>2
  <2>2. t[n][1] # "undefined"
    BY <1>1, <2>1 DEF StackOK
  <2> QED BY <2>1, <2>2 DEF StackOK
<1>4. ASSUME NEW n \in DOMAIN t, t[n][1] = "input"
      PROVE  /\ cl[t[n][2]].buf # << >>
             /\ \A m \in DOMAIN t : m < n /\ Owned(t[m]) => t[m][2] # t[n][2]
  BY <1>2, <1>4 DEF StackOK
<1>5. ASSUME NEW n \in DOMAIN t, t[n][1] = "exec"
      PROVE  /\ n - 1 \in DOMAIN t /\ t[n - 1][1] = "call" /\ t[n - 1][3][1] = "exec"
             /\ cl[t[n][2]].multi /\ t[n][3] \in 1 .. Len(cl[t[n][2]].queue) + 1
             /\ \A m \in DOMAIN t : m < n /\ t[m][1] = "exec" => t[m][2] # t[n][2]
  <2>1. n \in DOMAIN s /\ t[n] = s[n]
    BY <1>2
  <2>2. /\ n - 1 \in DOMAIN s /\ s[n - 1][1] = "call" /\ s[n - 1][3][1] = "exec"
        /\ cl[s[n][2]].multi /\ s[n][3] \in 1 .. Len(cl[s[n][2]].queue) + 1
        /\ \A m \in DOMAIN s : m < n /\ s[m][1] = "exec" => s[m][2] # s[n][2]
    BY <1>5, <2>1 DEF StackOK
  <2>3. n - 1 \in DOMAIN t
    BY <1>1, <1>2, <2>2
  <2> QED BY <1>2, <2>1, <2>2, <2>3
<1>6. ASSUME NEW n \in DOMAIN t, Owned(t[n]), cl[t[n][2]].bkeys # << >>
      PROVE  /\ t[n][1] \in {"input", "call"}
             /\ \A m \in DOMAIN t : n < m => m = Len(t) /\ m = n + 1 /\ t[m][1] = "call" /\ t[m][2] = t[n][2]
  <2>1. n \in DOMAIN s /\ t[n] = s[n]
    BY <1>2
  <2>2. /\ s[n][1] \in {"input", "call"}
        /\ \A m \in DOMAIN s : n < m => m = Len(s)
    BY <1>6, <2>1 DEF StackOK
  <2>3. \A m \in DOMAIN t : ~(n < m)
    BY <1>1, <1>2, <2>2
  <2> QED BY <2>1, <2>2, <2>3
<1> QED BY <1>2, <1>3, <1>4, <1>5, <1>6 DEF StackOK, t

\* A call begins.
LEMMA StackAppend ==
  ASSUME NEW cls, NEW cl, NEW s, StackOK(cls, cl, s), NoneBlocked(cl, s), s # Undefined,
         NEW f \in Frame, Owned(f), f[2] \in ToSet(cls), cl[f[2]].bkeys = << >>,
         f[1] = "input" => cl[f[2]].buf # << >> /\ \A n \in DOMAIN s : Owned(s[n]) => s[n][2] # f[2],
         f[1] = "exec" => /\ s # << >> /\ s[Len(s)][1] = "call" /\ s[Len(s)][3][1] = "exec"
                          /\ cl[f[2]].multi /\ f[3] \in 1 .. Len(cl[f[2]].queue) + 1
                          /\ \A n \in DOMAIN s : s[n][1] = "exec" => s[n][2] # f[2]
  PROVE  StackOK(cls, cl, Append(s, f)) /\ NoneBlocked(cl, Append(s, f)) /\ Append(s, f) # Undefined
<1> DEFINE t == Append(s, f)
<1>1. /\ s \in Seq(Frame) /\ DOMAIN s = 1 .. Len(s) /\ Len(s) \in Nat
  BY DEF StackOK
<1>2. /\ t \in Seq(Frame) /\ Len(t) = Len(s) + 1 /\ DOMAIN t = 1 .. Len(s) + 1
      /\ t[Len(s) + 1] = f /\ \A n \in DOMAIN s : t[n] = s[n]
  BY <1>1, AppendProperties
<1> HIDE DEF t
<1>3. \A n \in DOMAIN t : n \in DOMAIN s \/ n = Len(s) + 1
  BY <1>1, <1>2
<1>4. f[1] # "undefined" /\ f[1] # "cron"
  BY DEF Owned
<1>5. ASSUME NEW n \in DOMAIN s PROVE s[n][1] # "undefined"
  <2> SUFFICES ASSUME s[n][1] = "undefined" PROVE FALSE
    OBVIOUS
  <2>1. Len(s) = 1 /\ n = 1
    BY <1>1 DEF StackOK
  <2>2. s[1] = <<"undefined">>
    BY <1>1, <2>1, FrameKinds
  <2>3. Len(Undefined) = 1 /\ Undefined \in Seq(Frame) /\ Undefined[1] = <<"undefined">>
    BY FramesAre DEF Undefined
  <2>4. \A i \in 1 .. Len(s) : s[i] = Undefined[i]
    BY <2>1, <2>2, <2>3
  <2>5. s = Undefined
    BY <1>1, <2>1, <2>3, <2>4, SeqEqual
  <2> QED BY <2>5
<1>6. ASSUME NEW n \in DOMAIN t
      PROVE  /\ t[n][1] # "undefined"
             /\ t[n][1] = "cron" => n = 1
             /\ Owned(t[n]) => t[n][2] \in ToSet(cls) /\ cl[t[n][2]].bkeys = << >>
  <2>1. CASE n \in DOMAIN s
    BY <1>2, <1>5, <2>1 DEF StackOK, NoneBlocked
  <2>2. CASE n = Len(s) + 1
    BY <1>2, <1>4, <2>2
  <2> QED BY <1>3, <2>1, <2>2
<1>7. ASSUME NEW n \in DOMAIN t, t[n][1] = "input"
      PROVE  /\ cl[t[n][2]].buf # << >>
             /\ \A m \in DOMAIN t : m < n /\ Owned(t[m]) => t[m][2] # t[n][2]
  <2>1. CASE n \in DOMAIN s
    <3>1. t[n] = s[n] /\ \A m \in DOMAIN t : m < n => m \in DOMAIN s /\ t[m] = s[m]
      BY <1>1, <1>2, <2>1
    <3>2. /\ cl[s[n][2]].buf # << >>
          /\ \A m \in DOMAIN s : m < n /\ Owned(s[m]) => s[m][2] # s[n][2]
      BY <1>7, <2>1, <3>1 DEF StackOK
    <3> QED BY <3>1, <3>2
  <2>2. CASE n = Len(s) + 1
    <3>1. t[n] = f /\ \A m \in DOMAIN t : m < n => m \in DOMAIN s /\ t[m] = s[m]
      BY <1>1, <1>2, <2>2
    <3> QED BY <1>7, <3>1
  <2> QED BY <1>3, <2>1, <2>2
<1>8. ASSUME NEW n \in DOMAIN t, t[n][1] = "exec"
      PROVE  /\ n - 1 \in DOMAIN t /\ t[n - 1][1] = "call" /\ t[n - 1][3][1] = "exec"
             /\ cl[t[n][2]].multi /\ t[n][3] \in 1 .. Len(cl[t[n][2]].queue) + 1
             /\ \A m \in DOMAIN t : m < n /\ t[m][1] = "exec" => t[m][2] # t[n][2]
  <2>1. CASE n \in DOMAIN s
    <3>1. t[n] = s[n] /\ \A m \in DOMAIN t : m < n => m \in DOMAIN s /\ t[m] = s[m]
      BY <1>1, <1>2, <2>1
    <3>2. /\ n - 1 \in DOMAIN s /\ s[n - 1][1] = "call" /\ s[n - 1][3][1] = "exec"
          /\ cl[s[n][2]].multi /\ s[n][3] \in 1 .. Len(cl[s[n][2]].queue) + 1
          /\ \A m \in DOMAIN s : m < n /\ s[m][1] = "exec" => s[m][2] # s[n][2]
      BY <1>8, <2>1, <3>1 DEF StackOK
    <3>3. n - 1 \in DOMAIN t /\ t[n - 1] = s[n - 1]
      BY <1>1, <1>2, <3>2
    <3> QED BY <3>1, <3>2, <3>3
  <2>2. CASE n = Len(s) + 1
    <3>1. t[n] = f /\ \A m \in DOMAIN t : m < n => m \in DOMAIN s /\ t[m] = s[m]
      BY <1>1, <1>2, <2>2
    <3>2. Len(s) # 0
      BY <1>1, <1>8, <3>1
    <3>3. n - 1 = Len(s) /\ n - 1 \in DOMAIN s /\ n - 1 \in DOMAIN t /\ t[n - 1] = s[Len(s)]
      BY <1>1, <1>2, <2>2, <3>2
    <3> QED BY <1>8, <3>1, <3>3
  <2> QED BY <1>3, <2>1, <2>2
<1>9. Len(s) # 0 \/ Len(s) = 0
  OBVIOUS
<1>10. t # Undefined
  <2>1. Len(t) \in DOMAIN t
    BY <1>1, <1>2
  <2>2. Len(Undefined) = 1 /\ Undefined[1][1] = "undefined"
    BY DEF Undefined
  <2> QED BY <1>6, <2>1, <2>2
<1>11. NoneBlocked(cl, t)
  BY <1>6 DEF NoneBlocked
<1>12. StackOK(cls, cl, t)
  BY <1>2, <1>6, <1>7, <1>8 DEF StackOK
<1> QED BY <1>10, <1>11, <1>12 DEF t

\* A stack without its innermost call, and with it again.
LEMMA Recombined ==
  ASSUME NEW s \in Seq(Frame), s # << >>
  PROVE  /\ Front(s) \in Seq(Frame) /\ Last(s) \in Frame /\ Last(s) = s[Len(s)] /\ Len(s) \in DOMAIN s
         /\ s = Append(Front(s), Last(s)) /\ Len(Front(s)) = Len(s) - 1 /\ DOMAIN Front(s) = 1 .. Len(s) - 1
         /\ \A n \in DOMAIN Front(s) : n \in DOMAIN s /\ Front(s)[n] = s[n]
<1>1. Len(s) \in Nat \ {0} /\ DOMAIN s = 1 .. Len(s)
  BY EmptySeq
<1>2. /\ Front(s) \in Seq(Frame) /\ Len(Front(s)) = Len(s) - 1
      /\ DOMAIN Front(s) = 1 .. Len(s) - 1
      /\ \A n \in 1 .. Len(s) - 1 : Front(s)[n] = s[n]
  BY FrontIs
<1>3. Last(s) \in Frame /\ Last(s) = s[Len(s)]
  BY HeadIs
<1> DEFINE t == Append(Front(s), Last(s))
<1>4. /\ t \in Seq(Frame) /\ Len(t) = Len(s)
      /\ t[Len(s)] = s[Len(s)] /\ \A n \in 1 .. Len(s) - 1 : t[n] = s[n]
  <2> DEFINE u == Front(s)
  <2>1. /\ Append(u, Last(s)) \in Seq(Frame) /\ Len(Append(u, Last(s))) = Len(u) + 1
        /\ \A i \in 1 .. Len(u) : Append(u, Last(s))[i] = u[i]
        /\ Append(u, Last(s))[Len(u) + 1] = Last(s)
    BY <1>2, <1>3, AppendProperties
  <2>2. Len(u) + 1 = Len(s) /\ 1 .. Len(u) = 1 .. Len(s) - 1
    BY <1>1, <1>2
  <2> QED BY <1>2, <1>3, <2>1, <2>2
<1> HIDE DEF t
<1>5. \A n \in 1 .. Len(s) : t[n] = s[n]
  <2> TAKE n \in 1 .. Len(s)
  <2>1. n = Len(s) \/ n \in 1 .. Len(s) - 1
    <3>1. \A l \in Nat \ {0} : \A i \in 1 .. l : i = l \/ i \in 1 .. l - 1
      OBVIOUS
    <3> QED BY ONLY <1>1, <3>1
  <2> QED BY <1>4, <2>1
<1>6. t = s
  BY <1>4, <1>5, SeqEqual
<1> QED BY <1>1, <1>2, <1>3, <1>6 DEF t

\* An EXEC that is to be propagated stays so when a call begins.
LEMMA MultiAppend ==
  ASSUME NEW s \in Seq(Frame), NEW f \in Frame, NEW sm, MultiOK(s, sm), s # Undefined
  PROVE  MultiOK(Append(s, f), sm)
<1> DEFINE t == Append(s, f)
<1>1. /\ DOMAIN s = 1 .. Len(s) /\ Len(s) \in Nat /\ DOMAIN t = 1 .. Len(s) + 1
      /\ \A n \in DOMAIN s : t[n] = s[n]
  BY AppendProperties
<1> HIDE DEF t
<1>2. ASSUME sm
      PROVE  \E n \in DOMAIN t : /\ t[n][1] = "call" /\ t[n][3][1] = "exec"
                                 /\ t[n][4] \/ (n + 1 \in DOMAIN t /\ t[n + 1][1] = "exec")
  <2>1. PICK n \in DOMAIN s : /\ s[n][1] = "call" /\ s[n][3][1] = "exec"
                              /\ s[n][4] \/ (n + 1 \in DOMAIN s /\ s[n + 1][1] = "exec")
    BY <1>2 DEF MultiOK
  <2> QED BY <1>1, <2>1
<1> QED BY <1>2 DEF MultiOK, t

\* It does when a call ends that is neither that EXEC nor its transaction.
LEMMA MultiPop ==
  ASSUME NEW s \in Seq(Frame), s # << >>, NEW sm, MultiOK(s, sm), s # Undefined,
         Last(s)[1] # "exec", Last(s)[1] = "call" /\ Last(s)[3][1] = "exec" => ~Last(s)[4]
  PROVE  MultiOK(Front(s), sm)
<1> DEFINE t == Front(s)
<1>1. /\ DOMAIN s = 1 .. Len(s) /\ Len(s) \in Nat \ {0} /\ DOMAIN t = 1 .. Len(s) - 1
      /\ \A n \in DOMAIN t : t[n] = s[n]
      /\ Last(s) = s[Len(s)]
  BY Recombined, EmptySeq
<1> HIDE DEF t
<1>2. ASSUME sm
      PROVE  \E n \in DOMAIN t : /\ t[n][1] = "call" /\ t[n][3][1] = "exec"
                                 /\ t[n][4] \/ (n + 1 \in DOMAIN t /\ t[n + 1][1] = "exec")
  <2>1. PICK n \in DOMAIN s : /\ s[n][1] = "call" /\ s[n][3][1] = "exec"
                              /\ s[n][4] \/ (n + 1 \in DOMAIN s /\ s[n + 1][1] = "exec")
    BY <1>2 DEF MultiOK
  <2>2. n # Len(s)
    BY <1>1, <2>1
  <2>3. n \in DOMAIN t /\ t[n] = s[n]
    BY <1>1, <2>2
  <2>4. n + 1 \in DOMAIN s /\ s[n + 1][1] = "exec" => n + 1 \in DOMAIN t /\ t[n + 1] = s[n + 1]
    BY <1>1
  <2> QED BY <2>1, <2>3, <2>4
<1> QED BY <1>2 DEF MultiOK, t

-----------------------------------------------------------------------------
(* The elements, and calls that have no node in their hands *)

\* A call that does not have the element in its hands begins.
LEMMA ElementAppend ==
  ASSUME NEW s \in Seq(Frame), NEW f \in Frame, s # Undefined, Append(s, f) # Undefined,
         NEW ls, NEW pu, NEW g, NEW e, ~Holds(f, e)
  PROVE  ElementOK(s, ls, pu, g, e) <=> ElementOK(Append(s, f), ls, pu, g, e)
<1> DEFINE t == Append(s, f)
<1>1. /\ DOMAIN s = 1 .. Len(s) /\ Len(s) \in Nat /\ DOMAIN t = 1 .. Len(s) + 1
      /\ \A n \in DOMAIN s : t[n] = s[n]
      /\ t[Len(s) + 1] = f
  BY AppendProperties
<1>0. s # Undefined /\ t # Undefined
  OBVIOUS
<1> HIDE DEF t
<1>3. \A n \in DOMAIN t : n \in DOMAIN s \/ n = Len(s) + 1
  BY <1>1
<1>4. DOMAIN s \subseteq DOMAIN t
  BY <1>1
<1>5. /\ (\A n \in DOMAIN s : ~Holds(s[n], e)) <=> (\A n \in DOMAIN t : ~Holds(t[n], e))
      /\ \A n \in DOMAIN s : (\A m \in DOMAIN s : m # n => ~Holds(s[m], e)) <=> (\A m \in DOMAIN t : m # n => ~Holds(t[m], e))
  BY <1>1, <1>3, <1>4
<1>6. ASSUME ElementOK(s, ls, pu, g, e) PROVE ElementOK(t, ls, pu, g, e)
  <2>1. ASSUME NEW n \in DOMAIN t, Holds(t[n], e), ~t[n][5], e <= pu
        PROVE  /\ InList(ls, e)
               /\ (\A m \in DOMAIN t : m # n => ~Holds(t[m], e)) => g = 1
    <3>1. n \in DOMAIN s /\ t[n] = s[n]
      BY <1>1, <1>3, <2>1
    <3> QED BY <1>0, <1>5, <1>6, <2>1, <3>1 DEF ElementOK
  <2> QED BY <1>0, <1>5, <1>6, <2>1 DEF ElementOK
<1>7. ASSUME ElementOK(t, ls, pu, g, e) PROVE ElementOK(s, ls, pu, g, e)
  <2>1. ASSUME NEW n \in DOMAIN s, Holds(s[n], e), ~s[n][5], e <= pu
        PROVE  /\ InList(ls, e)
               /\ (\A m \in DOMAIN s : m # n => ~Holds(s[m], e)) => g = 1
    <3>1. n \in DOMAIN t /\ t[n] = s[n]
      BY <1>1, <1>4
    <3> QED BY <1>0, <1>5, <1>7, <2>1, <3>1 DEF ElementOK
  <2> QED BY <1>0, <1>5, <1>7, <2>1 DEF ElementOK
<1> QED BY <1>6, <1>7 DEF t

\* A call that has no element in its hands begins.
LEMMA DataAppend ==
  ASSUME NEW s \in Seq(Frame), NEW f \in Frame, f[1] # "rpoplpush", s # Undefined, Append(s, f) # Undefined,
         NEW ls, NEW pu, NEW go
  PROVE  DataOK(s, ls, pu, go) <=> DataOK(Append(s, f), ls, pu, go)
<1>1. \A e : ~Holds(f, e)
  BY DEF Holds
<1>2. ASSUME NEW e PROVE ElementOK(s, ls, pu, go[e], e) <=> ElementOK(Append(s, f), ls, pu, go[e], e)
  BY <1>1, ElementAppend
<1> QED BY <1>2 DEF DataOK

\* With marks, elements may go from the lists, and be given away, if the nodes are marked.
LEMMA ElementAlike ==
  ASSUME NEW s \in Seq(Frame), s # Undefined, NEW t, Alike(t, s), NEW ls, NEW ls2, NEW pu, NEW g, NEW g2, NEW e,
         ElementOK(s, ls, pu, g, e),
         \/ (InList(ls, e) <=> InList(ls2, e)) /\ g = g2
         \/ /\ InList(ls, e) /\ ~InList(ls2, e) /\ g2 = g + 1
            /\ \A n \in DOMAIN s : Holds(s[n], e) => t[n][5]
  PROVE  ElementOK(t, ls2, pu, g2, e)
<1>1. DOMAIN t = DOMAIN s /\ t \in Seq(Frame)
  BY DEF Alike
<1>2. ASSUME NEW n \in DOMAIN s
      PROVE  (Holds(t[n], e) <=> Holds(s[n], e)) /\ (s[n][1] = "rpoplpush" /\ s[n][5] => t[n][5])
  <2>1. s[n] \in Frame
    OBVIOUS
  <2>2. Marked(t[n], s[n])
    BY DEF Alike
  <2> QED BY <2>1, <2>2, MarkKeeps DEF Holds
<1>3. (\A n \in DOMAIN t : ~Holds(t[n], e)) <=> (\A n \in DOMAIN s : ~Holds(s[n], e))
  BY <1>1, <1>2
<1>4. CASE (InList(ls, e) <=> InList(ls2, e)) /\ g = g2
  <2>1. ASSUME NEW n \in DOMAIN t, Holds(t[n], e), ~t[n][5], e <= pu
        PROVE  /\ InList(ls, e)
               /\ (\A m \in DOMAIN t : m # n => ~Holds(t[m], e)) => g = 1
    <3>1. n \in DOMAIN s /\ Holds(s[n], e) /\ ~s[n][5]
      BY <1>1, <1>2, <2>1 DEF Holds
    <3>2. (\A m \in DOMAIN t : m # n => ~Holds(t[m], e)) => (\A m \in DOMAIN s : m # n => ~Holds(s[m], e))
      BY <1>1, <1>2
    <3> QED BY <2>1, <3>1, <3>2 DEF ElementOK
  <2> QED BY <1>3, <1>4, <2>1 DEF ElementOK
<1>5. CASE /\ InList(ls, e) /\ ~InList(ls2, e) /\ g2 = g + 1
           /\ \A n \in DOMAIN s : Holds(s[n], e) => t[n][5]
  <2>1. \A n \in DOMAIN t : Holds(t[n], e) => t[n][5]
    BY <1>1, <1>2, <1>5
  <2> QED BY <1>3, <1>5, <2>1 DEF ElementOK
<1> QED BY <1>4, <1>5

\* Marks change nothing for the elements.
LEMMA DataAlike ==
  ASSUME NEW s \in Seq(Frame), s # Undefined, NEW t, Alike(t, s), NEW ls, NEW pu, NEW go, DataOK(s, ls, pu, go)
  PROVE  DataOK(t, ls, pu, go)
<1>1. \A e \in 1 .. MaxPushed : ElementOK(t, ls, pu, go[e], e)
  BY ElementAlike DEF DataOK
<1> QED BY <1>1 DEF DataOK

-----------------------------------------------------------------------------
(* The lists *)

\* A list is replaced.
Put(ls, k, l) == [ls EXCEPT ![k] = l]
\* The list of k2 is the one of k.
Rename(ls, k, k2) == [ls EXCEPT ![k2] = ls[k], ![k] = << >>]

\* l is s with e at one of its ends.
Grown(l, e, s) == l = Append(s, e) \/ l = <<e>> \o s

\* A new element at one end of a list.
LEMMA ListsAdded ==
  ASSUME NEW ls, ListsOK(ls), NEW k \in Key, NEW e \in 1 .. MaxPushed, ~InList(ls, e),
         NEW l, Grown(l, e, ls[k]),
         NEW new, new = Put(ls, k, l)
  PROVE  ListsOK(new) /\ \A x : InList(new, x) <=> InList(ls, x) \/ x = e
<1> DEFINE d == Len(ls[k])
           at == IF l = Append(ls[k], e) THEN d + 1 ELSE 1
           from(n) == IF l = Append(ls[k], e) THEN n ELSE n - 1
<1>1. /\ ls \in [Key -> Seq(1 .. MaxPushed)] /\ d \in Nat /\ DOMAIN ls[k] = 1 .. d
      /\ ls[k] \in Seq(1 .. MaxPushed)
  BY DEF ListsOK
<1>2. /\ l \in Seq(1 .. MaxPushed) /\ DOMAIN l = 1 .. d + 1 /\ at \in DOMAIN l /\ l[at] = e
      /\ \A n \in DOMAIN l : n # at => from(n) \in DOMAIN ls[k] /\ l[n] = ls[k][from(n)]
      /\ \A n \in DOMAIN ls[k] : \E m \in DOMAIN l : m # at /\ from(m) = n
      /\ \A m, n \in DOMAIN l : from(m) = from(n) => m = n
  <2>1. CASE l = Append(ls[k], e)
    <3>1. /\ l \in Seq(1 .. MaxPushed) /\ DOMAIN l = 1 .. d + 1 /\ l[d + 1] = e
          /\ \A n \in 1 .. d : l[n] = ls[k][n]
      BY <1>1, <2>1, AppendProperties
    <3>2. at = d + 1 /\ \A n : from(n) = n
      BY <2>1
    <3> HIDE DEF at, from, d
    <3>3. \A n \in DOMAIN l : n # at => n \in DOMAIN ls[k]
      BY <1>1, <3>1, <3>2
    <3>4. \A n \in DOMAIN ls[k] : n \in DOMAIN l /\ n # at
      BY <1>1, <3>1, <3>2
    <3>5. at \in DOMAIN l
      BY <1>1, <3>1, <3>2
    <3> QED BY <1>1, <3>1, <3>2, <3>3, <3>4, <3>5
  <2>2. CASE l # Append(ls[k], e)
    <3>1. l = <<e>> \o ls[k]
      BY <2>2 DEF Grown
    <3>2. <<e>> \in Seq(1 .. MaxPushed) /\ Len(<<e>>) = 1
      OBVIOUS
    <3>3. /\ l \in Seq(1 .. MaxPushed) /\ Len(l) = 1 + d
          /\ \A n \in 1 .. 1 + d : l[n] = IF n <= 1 THEN <<e>>[n] ELSE ls[k][n - 1]
      BY <1>1, <3>1, <3>2, ConcatProperties
    <3>4. at = 1 /\ \A n : from(n) = n - 1
      BY <2>2
    <3>5. DOMAIN l = 1 .. d + 1
      BY <1>1, <3>3
    <3> HIDE DEF at, from, d
    <3>6. l[1] = e /\ at \in DOMAIN l
      BY <1>1, <3>3, <3>4, <3>5
    <3>7. \A n \in DOMAIN l : n # at => n - 1 \in DOMAIN ls[k] /\ l[n] = ls[k][n - 1]
      BY <1>1, <3>3, <3>4, <3>5
    <3>8. \A n \in DOMAIN ls[k] : n + 1 \in DOMAIN l /\ n + 1 # at /\ (n + 1) - 1 = n
      BY <1>1, <3>4, <3>5
    <3>9. \A m, n \in DOMAIN l : m - 1 = n - 1 => m = n
      BY <3>5, <1>1
    <3> QED BY <3>3, <3>4, <3>5, <3>6, <3>7, <3>8, <3>9
  <2> QED BY <2>1, <2>2
<1> HIDE DEF at, from, d
<1>3. /\ new \in [Key -> Seq(1 .. MaxPushed)] /\ new[k] = l /\ \A x \in Key : x # k => new[x] = ls[x]
  BY <1>1, <1>2 DEF Put
<1>4. \A x \in Key : \A n \in DOMAIN ls[x] : ls[x][n] # e
  BY DEF InList, ToSet
<1>5. ASSUME NEW x \in Key, NEW y \in Key, NEW n \in DOMAIN new[x], NEW m \in DOMAIN new[y], new[x][n] = new[y][m]
      PROVE  x = y /\ n = m
  <2>1. CASE x = k /\ y = k
    <3>1. n \in DOMAIN l /\ m \in DOMAIN l /\ l[n] = l[m]
      BY <1>3, <1>5, <2>1
    <3>2. CASE n = at \/ m = at
      <4>1. \A i \in DOMAIN l : i # at => l[i] # e
        BY <1>2, <1>4
      <4> QED BY <1>2, <3>1, <3>2, <4>1, <2>1
    <3>3. CASE n # at /\ m # at
      BY <1>2, <3>1, <3>3, <2>1 DEF ListsOK
    <3> QED BY <3>2, <3>3
  <2>2. ASSUME NEW z \in Key, z # k, NEW i \in DOMAIN l, NEW j \in DOMAIN ls[z], l[i] = ls[z][j] PROVE FALSE
    <3>1. l[i] # e
      BY <1>4, <2>2
    <3>2. i # at
      BY <1>2, <3>1
    <3>3. from(i) \in DOMAIN ls[k] /\ ls[k][from(i)] = ls[z][j]
      BY <1>2, <2>2, <3>2
    <3> QED BY <2>2, <3>3 DEF ListsOK
  <2>3. CASE x = k /\ y # k
    BY <1>3, <1>5, <2>2, <2>3
  <2>5. CASE x # k /\ y = k
    BY <1>3, <1>5, <2>2, <2>5
  <2>4. CASE x # k /\ y # k
    BY <1>3, <1>5, <2>4 DEF ListsOK
  <2> QED BY <2>1, <2>3, <2>4, <2>5
<1>6. ASSUME NEW x PROVE InList(new, x) <=> InList(ls, x) \/ x = e
  <2>1. ASSUME InList(new, x) PROVE InList(ls, x) \/ x = e
    <3>1. PICK y \in Key : x \in ToSet(new[y])
      BY <2>1 DEF InList
    <3>2. PICK n \in DOMAIN new[y] : new[y][n] = x
      BY <3>1 DEF ToSet
    <3>3. CASE y = k
      BY <1>2, <1>3, <3>2, <3>3 DEF InList, ToSet
    <3>4. CASE y # k
      BY <1>3, <3>1, <3>4 DEF InList
    <3> QED BY <3>3, <3>4
  <2>2. ASSUME InList(ls, x) PROVE InList(new, x)
    <3>1. PICK y \in Key : x \in ToSet(ls[y])
      BY <2>2 DEF InList
    <3>2. CASE y = k
      <4>1. PICK n \in DOMAIN ls[k] : ls[k][n] = x
        BY <3>1, <3>2 DEF ToSet
      <4>2. PICK m \in DOMAIN l : m # at /\ from(m) = n
        BY <1>2, <4>1
      <4>3. l[m] = x
        BY <1>2, <4>1, <4>2
      <4> QED BY <1>3, <4>3 DEF InList, ToSet
    <3>3. CASE y # k
      BY <1>3, <3>1, <3>3 DEF InList
    <3> QED BY <3>2, <3>3
  <2>3. InList(new, e)
    <3>1. at \in DOMAIN new[k] /\ new[k][at] = e
      BY <1>2, <1>3
    <3>2. e \in ToSet(new[k])
      BY <3>1 DEF ToSet
    <3> QED BY <3>2 DEF InList
  <2> QED BY <2>1, <2>2, <2>3
<1> QED BY <1>3, <1>5, <1>6 DEF ListsOK

\* l is s without e, which was its first or its last.
Cut(l, e, s) ==
  \/ l = Tail(s) /\ e = Head(s)
  \/ l = Front(s) /\ e = Last(s)

\* The element at one end of a list goes.
LEMMA ListsTaken ==
  ASSUME NEW ls, ListsOK(ls), NEW k \in Key, ls[k] # << >>, NEW e, NEW l, Cut(l, e, ls[k]),
         NEW new, new = Put(ls, k, l)
  PROVE  /\ ListsOK(new) /\ e \in 1 .. MaxPushed /\ InList(ls, e)
         /\ \A x : InList(new, x) <=> InList(ls, x) /\ x # e
<1> DEFINE d == Len(ls[k])
<1>1. /\ ls \in [Key -> Seq(1 .. MaxPushed)] /\ d \in Nat \ {0} /\ DOMAIN ls[k] = 1 .. d
      /\ ls[k] \in Seq(1 .. MaxPushed)
  <2>1. ls \in [Key -> Seq(1 .. MaxPushed)] /\ ls[k] \in Seq(1 .. MaxPushed)
    BY DEF ListsOK
  <2> QED BY <2>1, EmptySeq
<1>2. \E at \in DOMAIN ls[k], o \in {0, 1} :
        /\ ls[k][at] = e /\ l \in Seq(1 .. MaxPushed)
        /\ \A n \in DOMAIN l : n + o \in DOMAIN ls[k] /\ n + o # at /\ l[n] = ls[k][n + o]
        /\ \A n \in DOMAIN ls[k] : n # at => n - o \in DOMAIN l
        /\ DOMAIN l \subseteq Nat
  <2>1. CASE l = Tail(ls[k]) /\ e = Head(ls[k])
    <3>1. /\ l \in Seq(1 .. MaxPushed) /\ Len(l) = d - 1
          /\ \A n \in 1 .. Len(l) : l[n] = ls[k][n + 1]
      BY <1>1, <2>1, HeadTailProperties
    <3>2. e = ls[k][1]
      BY <1>1, <2>1, HeadIs
    <3>3. DOMAIN l = 1 .. d - 1
      BY <3>1
    <3> HIDE DEF d
    <3>4. 1 \in DOMAIN ls[k] /\ 1 \in {0, 1}
      BY <1>1
    <3>5. \A n \in DOMAIN l : n + 1 \in DOMAIN ls[k] /\ n + 1 # 1 /\ l[n] = ls[k][n + 1]
      BY <1>1, <3>1, <3>3
    <3>6. \A n \in DOMAIN ls[k] : n # 1 => n - 1 \in DOMAIN l
      BY <1>1, <3>3
    <3>7. DOMAIN l \subseteq Nat
      BY <3>3
    <3> QED BY <3>1, <3>2, <3>4, <3>5, <3>6, <3>7
  <2>2. CASE l = Front(ls[k]) /\ e = Last(ls[k])
    <3>1. /\ l \in Seq(1 .. MaxPushed) /\ DOMAIN l = 1 .. d - 1
          /\ \A n \in 1 .. d - 1 : l[n] = ls[k][n]
      BY <1>1, <2>2, FrontIs
    <3>2. e = ls[k][d]
      BY <1>1, <2>2, HeadIs
    <3> HIDE DEF d
    <3>4. d \in DOMAIN ls[k] /\ 0 \in {0, 1}
      BY <1>1
    <3>5. \A n \in DOMAIN l : n + 0 \in DOMAIN ls[k] /\ n + 0 # d /\ l[n] = ls[k][n + 0]
      BY <1>1, <3>1
    <3>6. \A n \in DOMAIN ls[k] : n # d => n - 0 \in DOMAIN l
      BY <1>1, <3>1
    <3>7. DOMAIN l \subseteq Nat
      BY <3>1
    <3> QED BY <3>1, <3>2, <3>4, <3>5, <3>6, <3>7
  <2> QED BY <2>1, <2>2 DEF Cut
<1>3. PICK at \in DOMAIN ls[k], o \in {0, 1} :
        /\ ls[k][at] = e /\ l \in Seq(1 .. MaxPushed)
        /\ \A n \in DOMAIN l : n + o \in DOMAIN ls[k] /\ n + o # at /\ l[n] = ls[k][n + o]
        /\ \A n \in DOMAIN ls[k] : n # at => n - o \in DOMAIN l
        /\ DOMAIN l \subseteq Nat
  BY <1>2
<1>4. /\ new \in [Key -> Seq(1 .. MaxPushed)] /\ new[k] = l /\ \A x \in Key : x # k => new[x] = ls[x]
  BY <1>1, <1>3 DEF Put
<1>5. \A x, y \in Key : \A n \in DOMAIN ls[x], m \in DOMAIN ls[y] : ls[x][n] = ls[y][m] => x = y /\ n = m
  BY DEF ListsOK
<1>6. ASSUME NEW x \in Key, NEW y \in Key, NEW n \in DOMAIN new[x], NEW m \in DOMAIN new[y], new[x][n] = new[y][m]
      PROVE  x = y /\ n = m
  <2>1. CASE x = k /\ y = k
    <3>1. n \in DOMAIN l /\ m \in DOMAIN l /\ l[n] = l[m]
      BY <1>4, <1>6, <2>1
    <3>2. n + o = m + o
      BY <1>3, <1>5, <3>1
    <3>3. n \in Nat /\ m \in Nat /\ o \in Nat
      BY <1>3, <3>1
    <3> QED BY <3>2, <3>3, <2>1
  <2>2. CASE x = k /\ y # k
    <3>1. n \in DOMAIN l /\ l[n] = ls[k][n + o] /\ n + o \in DOMAIN ls[k]
      BY <1>3, <1>4, <1>6, <2>2
    <3>2. m \in DOMAIN ls[y] /\ ls[y][m] = ls[k][n + o]
      BY <1>4, <1>6, <2>2, <3>1
    <3> QED BY <1>5, <2>2, <3>1, <3>2
  <2>3. CASE x # k /\ y = k
    <3>1. m \in DOMAIN l /\ l[m] = ls[k][m + o] /\ m + o \in DOMAIN ls[k]
      BY <1>3, <1>4, <1>6, <2>3
    <3>2. n \in DOMAIN ls[x] /\ ls[x][n] = ls[k][m + o]
      BY <1>4, <1>6, <2>3, <3>1
    <3> QED BY <1>5, <2>3, <3>1, <3>2
  <2>4. CASE x # k /\ y # k
    BY <1>4, <1>5, <1>6, <2>4
  <2> QED BY <2>1, <2>2, <2>3, <2>4
<1>7. ASSUME NEW x PROVE InList(new, x) <=> InList(ls, x) /\ x # e
  <2>1. ASSUME InList(new, x) PROVE InList(ls, x) /\ x # e
    <3>1. PICK y \in Key : x \in ToSet(new[y])
      BY <2>1 DEF InList
    <3>2. PICK n \in DOMAIN new[y] : new[y][n] = x
      BY <3>1 DEF ToSet
    <3>3. CASE y = k
      <4>1. n + o \in DOMAIN ls[k] /\ n + o # at /\ x = ls[k][n + o]
        BY <1>3, <1>4, <3>2, <3>3
      <4> QED BY <1>3, <1>5, <4>1 DEF InList, ToSet
    <3>4. CASE y # k
      BY <1>3, <1>4, <1>5, <3>1, <3>2, <3>4 DEF InList, ToSet
    <3> QED BY <3>3, <3>4
  <2>2. ASSUME InList(ls, x), x # e PROVE InList(new, x)
    <3>1. PICK y \in Key : x \in ToSet(ls[y])
      BY <2>2 DEF InList
    <3>2. CASE y = k
      <4>1. PICK n \in DOMAIN ls[k] : ls[k][n] = x
        BY <3>1, <3>2 DEF ToSet
      <4>2. n # at /\ n - o \in DOMAIN l
        BY <1>3, <2>2, <4>1
      <4>3. (n - o) + o = n
        BY <1>1, <1>3, <4>1
      <4>4. l[n - o] = x
        BY <1>3, <4>1, <4>2, <4>3
      <4> QED BY <1>4, <4>2, <4>4 DEF InList, ToSet
    <3>3. CASE y # k
      BY <1>4, <3>1, <3>3 DEF InList
    <3> QED BY <3>2, <3>3
  <2> QED BY <2>1, <2>2
<1>8. e \in 1 .. MaxPushed /\ InList(ls, e)
  <2>1. ls[k][at] \in 1 .. MaxPushed
    BY <1>1, ElementOfSeq
  <2>2. e \in ToSet(ls[k])
    BY <1>3 DEF ToSet
  <2> QED BY <1>3, <2>1, <2>2 DEF InList
<1> QED BY <1>4, <1>6, <1>7, <1>8 DEF ListsOK

\* RENAME.
LEMMA ListsRenamed ==
  ASSUME NEW ls, ListsOK(ls), NEW k \in Key, NEW k2 \in Key, k # k2,
         NEW new, new = Rename(ls, k, k2)
  PROVE  /\ ListsOK(new)
         /\ \A x : InList(new, x) <=> InList(ls, x) /\ x \notin ToSet(ls[k2])
<1>1. /\ ls \in [Key -> Seq(1 .. MaxPushed)] /\ << >> \in Seq(1 .. MaxPushed) /\ DOMAIN << >> = {}
      /\ \A x, y \in Key : \A n \in DOMAIN ls[x], m \in DOMAIN ls[y] : ls[x][n] = ls[y][m] => x = y /\ n = m
  BY DEF ListsOK
<1>2. /\ new \in [Key -> Seq(1 .. MaxPushed)] /\ new[k] = << >> /\ new[k2] = ls[k]
      /\ \A x \in Key : x # k /\ x # k2 => new[x] = ls[x]
  BY <1>1 DEF Rename
<1> DEFINE from(x) == IF x = k2 THEN k ELSE x
<1>3. /\ \A x \in Key : x # k => new[x] = ls[from(x)] /\ from(x) \in Key /\ from(x) # k2
      /\ \A x, y \in Key : x # k /\ y # k /\ from(x) = from(y) => x = y
  BY <1>2
<1>4. ASSUME NEW x \in Key, NEW y \in Key, NEW n \in DOMAIN new[x], NEW m \in DOMAIN new[y], new[x][n] = new[y][m]
      PROVE  x = y /\ n = m
  <2>1. x # k /\ y # k
    BY <1>1, <1>2, <1>4
  <2> HIDE DEF from
  <2>2. /\ new[x] = ls[from(x)] /\ from(x) \in Key
        /\ new[y] = ls[from(y)] /\ from(y) \in Key
    BY <1>3, <2>1
  <2>3. from(x) = from(y) /\ n = m
    BY <1>1, <1>4, <2>2
  <2> QED BY <1>3, <2>1, <2>3
<1>5. ASSUME NEW x PROVE InList(new, x) <=> InList(ls, x) /\ x \notin ToSet(ls[k2])
  <2>1. ASSUME InList(new, x) PROVE InList(ls, x) /\ x \notin ToSet(ls[k2])
    <3>1. PICK y \in Key : x \in ToSet(new[y])
      BY <2>1 DEF InList
    <3>2. y # k
      BY <1>1, <1>2, <3>1 DEF ToSet
    <3> HIDE DEF from
    <3> QED BY <1>1, <1>3, <3>1, <3>2 DEF InList, ToSet
  <2>2. ASSUME InList(ls, x), x \notin ToSet(ls[k2]) PROVE InList(new, x)
    <3>1. PICK y \in Key : x \in ToSet(ls[y])
      BY <2>2 DEF InList
    <3>2. y # k2
      BY <2>2, <3>1
    <3>3. CASE y = k
      BY <1>2, <3>1, <3>3 DEF InList
    <3>4. CASE y # k
      BY <1>2, <3>1, <3>2, <3>4 DEF InList
    <3> QED BY <3>3, <3>4
  <2> QED BY <2>1, <2>2
<1> QED BY <1>2, <1>4, <1>5 DEF ListsOK

\* The node of e is taken out.
Removed(ls, e) == [x \in Key |-> Without(ls[x], {e})]
\* The lists of ks are deleted.
Emptied(ls, ks) == [x \in Key |-> IF x \in ks THEN << >> ELSE ls[x]]

\* An element goes from all lists, and some lists go as well.
LEMMA ListsWithout ==
  ASSUME NEW ls, ListsOK(ls), NEW e, NEW ks, NEW l, l = Removed(ls, e), NEW new, new = Emptied(l, ks)
  PROVE  /\ ListsOK(new) /\ l \in [Key -> Seq(1 .. MaxPushed)]
         /\ \A x \in Key : ToSet(l[x]) = ToSet(ls[x]) \ {e} /\ (new[x] # << >> => ls[x] # << >>)
         /\ \A x : InList(new, x) <=> InList(ls, x) /\ x # e /\ \A k \in ks \cap Key : x \notin ToSet(l[k])
<1>1. /\ ls \in [Key -> Seq(1 .. MaxPushed)] /\ << >> \in Seq(1 .. MaxPushed) /\ DOMAIN << >> = {}
      /\ \A x, y \in Key : \A n \in DOMAIN ls[x], m \in DOMAIN ls[y] : ls[x][n] = ls[y][m] => x = y /\ n = m
  BY DEF ListsOK
<1>2. ASSUME NEW x \in Key
      PROVE  /\ l[x] \in Seq(1 .. MaxPushed) /\ ToSet(l[x]) = ToSet(ls[x]) \ {e}
             /\ IsInjective(l[x])
             /\ new[x] = IF x \in ks THEN << >> ELSE l[x]
  <2>1. ls[x] \in Seq(1 .. MaxPushed) /\ IsInjective(ls[x])
    BY <1>1 DEF IsInjective
  <2>2. l[x] = Without(ls[x], {e})
    BY DEF Removed
  <2>3. new[x] = IF x \in ks THEN << >> ELSE l[x]
    BY DEF Emptied
  <2> QED BY <2>1, <2>2, <2>3, WithoutHas
<1>3. l \in [Key -> Seq(1 .. MaxPushed)] /\ new \in [Key -> Seq(1 .. MaxPushed)]
  <2>1. l = [x \in Key |-> l[x]] /\ new = [x \in Key |-> new[x]]
    BY DEF Removed, Emptied
  <2>2. \A x \in Key : l[x] \in Seq(1 .. MaxPushed) /\ new[x] \in Seq(1 .. MaxPushed)
    BY <1>1, <1>2
  <2> QED BY <2>1, <2>2
<1>4. ASSUME NEW x \in Key, NEW n \in DOMAIN new[x] PROVE x \notin ks /\ new[x] = l[x] /\ new[x][n] \in ToSet(ls[x])
  <2>1. x \notin ks /\ new[x] = l[x]
    BY <1>1, <1>2
  <2>2. new[x][n] \in ToSet(l[x])
    BY <2>1 DEF ToSet
  <2> QED BY <1>2, <2>1, <2>2
<1>5. ASSUME NEW x \in Key, NEW y \in Key, NEW n \in DOMAIN new[x], NEW m \in DOMAIN new[y], new[x][n] = new[y][m]
      PROVE  x = y /\ n = m
  <2>1. new[x][n] \in ToSet(ls[x]) /\ new[x][n] \in ToSet(ls[y])
    BY <1>4, <1>5
  <2>2. x = y
    <3>1. PICK i \in DOMAIN ls[x] : ls[x][i] = new[x][n]
      BY <2>1 DEF ToSet
    <3>2. PICK j \in DOMAIN ls[y] : ls[y][j] = new[x][n]
      BY <2>1 DEF ToSet
    <3> QED BY <1>1, <3>1, <3>2
  <2> QED BY <1>2, <1>4, <1>5, <2>2 DEF IsInjective
<1>6. ASSUME NEW x \in Key, new[x] # << >> PROVE ls[x] # << >>
  <2>1. new[x] \in Seq(1 .. MaxPushed)
    BY <1>3
  <2>2. 1 \in DOMAIN new[x]
    BY <2>1, <1>6, HeadIs
  <2>3. new[x][1] \in ToSet(ls[x])
    BY <1>4, <2>2
  <2> QED BY <2>3, <1>1 DEF ToSet
<1>7. ASSUME NEW x PROVE InList(new, x) <=> InList(ls, x) /\ x # e /\ \A k \in ks \cap Key : x \notin ToSet(l[k])
  <2>1. ASSUME InList(new, x) PROVE InList(ls, x) /\ x # e /\ \A k \in ks \cap Key : x \notin ToSet(l[k])
    <3>1. PICK y \in Key : x \in ToSet(new[y])
      BY <2>1 DEF InList
    <3>2. PICK n \in DOMAIN new[y] : new[y][n] = x
      BY <3>1 DEF ToSet
    <3>3. y \notin ks /\ new[y] = l[y] /\ x \in ToSet(ls[y])
      BY <1>4, <3>2
    <3>4. x # e
      BY <1>2, <3>1, <3>3
    <3>5. \A k \in Key : x \in ToSet(l[k]) => k = y
      <4> TAKE k \in Key
      <4> HAVE x \in ToSet(l[k])
      <4>1. x \in ToSet(ls[k])
        BY <1>2
      <4> QED BY <1>1, <3>3, <4>1 DEF ToSet
    <3> QED BY <3>3, <3>4, <3>5 DEF InList
  <2>2. ASSUME InList(ls, x), x # e, \A k \in ks \cap Key : x \notin ToSet(l[k]) PROVE InList(new, x)
    <3>1. PICK y \in Key : x \in ToSet(ls[y])
      BY <2>2 DEF InList
    <3>2. x \in ToSet(l[y])
      BY <1>2, <2>2, <3>1
    <3>3. y \notin ks
      BY <2>2, <3>2
    <3> QED BY <1>2, <3>2, <3>3 DEF InList
  <2> QED BY <2>1, <2>2
<1> QED BY <1>2, <1>3, <1>5, <1>6, <1>7 DEF ListsOK

\* t has what s has and es has not, in the order of s.
LeftOf(t, S, s, es) ==
  /\ t \in Seq(S)
  /\ ToSet(t) = ToSet(s) \ es
  /\ \A i, j \in DOMAIN t : i < j => \E m, n \in DOMAIN s : m < n /\ t[i] = s[m] /\ t[j] = s[n]
  /\ \A e : Count(t, e) = IF e \in es THEN 0 ELSE Count(s, e)
  /\ IsInjective(s) => IsInjective(t)

\* Without, as LeftOf.
LEMMA WithoutIs ==
  ASSUME NEW S, NEW s \in Seq(S), NEW es
  PROVE  LeftOf(Without(s, es), S, s, es)
<1>1. LET u == Without(s, es)
      IN  /\ u \in Seq(S)
          /\ ToSet(u) = ToSet(s) \ es
          /\ \A i, j \in DOMAIN u : i < j => \E m, n \in DOMAIN s : m < n /\ u[i] = s[m] /\ u[j] = s[n]
          /\ \A e : Count(u, e) = IF e \in es THEN 0 ELSE Count(s, e)
          /\ IsInjective(s) => IsInjective(u)
  BY WithoutHas
<1> QED BY <1>1 DEF LeftOf

\* What is appended is at the end, and nowhere else.
LEMMA AppendIs ==
  ASSUME NEW S, NEW s \in Seq(S), NEW e \in S
  PROVE  LET t == Append(s, e)
         IN  /\ t \in Seq(S) /\ DOMAIN t = 1 .. Len(s) + 1 /\ DOMAIN s = 1 .. Len(s) /\ Len(s) \in Nat
             /\ t[Len(s) + 1] = e /\ \A n \in 1 .. Len(s) : t[n] = s[n]
             /\ \A x : x \in ToSet(t) <=> x \in ToSet(s) \/ x = e
             /\ e \notin ToSet(s) => \A n \in DOMAIN t : t[n] = e => n = Len(s) + 1
             /\ e \notin ToSet(s) /\ IsInjective(s) => IsInjective(t)
<1> DEFINE t == Append(s, e)
<1>1. /\ t \in Seq(S) /\ DOMAIN t = 1 .. Len(s) + 1 /\ DOMAIN s = 1 .. Len(s) /\ Len(s) \in Nat
      /\ t[Len(s) + 1] = e /\ \A n \in 1 .. Len(s) : t[n] = s[n]
  BY AppendProperties
<1> HIDE DEF t
<1>2. ASSUME NEW x PROVE x \in ToSet(t) <=> x \in ToSet(s) \/ x = e
  <2>1. ASSUME x \in ToSet(t) PROVE x \in ToSet(s) \/ x = e
    <3>1. PICK n \in DOMAIN t : t[n] = x
      BY <2>1 DEF ToSet
    <3>2. CASE n \in DOMAIN s
      <4>1. s[n] = x
        BY <1>1, <3>1, <3>2
      <4> QED BY <3>2, <4>1 DEF ToSet
    <3>3. CASE n = Len(s) + 1
      BY <1>1, <3>1, <3>3
    <3> QED BY <1>1, <3>2, <3>3
  <2>2. ASSUME x \in ToSet(s) PROVE x \in ToSet(t)
    <3>1. PICK n \in DOMAIN s : s[n] = x
      BY <2>2 DEF ToSet
    <3>2. n \in DOMAIN t /\ t[n] = x
      BY <1>1, <3>1
    <3> QED BY <3>2 DEF ToSet
  <2>3. e \in ToSet(t)
    <3>1. Len(s) + 1 \in DOMAIN t /\ t[Len(s) + 1] = e
      BY <1>1
    <3> QED BY <3>1 DEF ToSet
  <2> QED BY <2>1, <2>2, <2>3
<1>3. ASSUME e \notin ToSet(s) PROVE \A n \in DOMAIN t : t[n] = e => n = Len(s) + 1
  <2> TAKE n \in DOMAIN t
  <2> HAVE t[n] = e
  <2>1. n \in 1 .. Len(s) => s[n] \in ToSet(s)
    BY <1>1 DEF ToSet
  <2> QED BY <1>1, <1>3, <2>1
<1>4. ASSUME e \notin ToSet(s), IsInjective(s) PROVE IsInjective(t)
  <2>1. \A i, j \in DOMAIN s : s[i] = s[j] => i = j
    BY <1>4 DEF IsInjective
  <2>2. \A i, j \in DOMAIN t : t[i] = t[j] => i = j
    <3> TAKE i, j \in DOMAIN t
    <3> HAVE t[i] = t[j]
    <3>1. CASE t[i] = e
      BY <1>3, <1>4, <3>1
    <3>2. CASE t[i] # e
      <4>1. i \in DOMAIN s /\ j \in DOMAIN s
        BY <1>1, <3>2
      <4> QED BY <1>1, <2>1, <4>1
    <3> QED BY <3>1, <3>2
  <2> QED BY <2>2 DEF IsInjective
<1> QED BY <1>1, <1>2, <1>3, <1>4 DEF t

\* What changes nothing keeps the invariant.
LEMMA NothingKeeps ==
  ASSUME NEW s, NEW cl, At(s, cl), Nothing(s, cl)
  PROVE  At(stack, client)'
BY DEF At, Nothing, data, blocking, pubsub

\* What is said of blocked clients needs nothing of the others.
LEMMA BlockClients ==
  ASSUME NEW cls, NEW cl, NEW ls, NEW bk, NEW ord, NEW ren, BlockOK(cls, cl, ls, bk, ord, ren), NEW cl2,
         \A c \in Client : /\ cl2[c].bkeys = cl[c].bkeys
                           /\ cl2[c].bkeys # << >> => cl2[c].multi = cl[c].multi
  PROVE  BlockOK(cls, cl2, ls, bk, ord, ren)
BY DEF BlockOK

\* Who waits depends on which lists have elements.
LEMMA BlockLists ==
  ASSUME NEW cls, NEW cl, NEW ls, NEW bk, NEW ord, NEW ren, BlockOK(cls, cl, ls, bk, ord, ren),
         NEW ls2, NEW ren2 \in SUBSET Key, \A k \in Key : ls2[k] # << >> /\ bk[k] # << >> => k \in ren2
  PROVE  BlockOK(cls, cl, ls2, bk, ord, ren2)
BY DEF BlockOK

\* What is published depends on the subscriptions of the clients.
LEMMA PubClients ==
  ASSUME NEW cls, NEW cl, NEW pc, NEW pp, PubOK(cls, cl, pc, pp), NEW cl2,
         \A c \in Client : cl2[c].chans = cl[c].chans /\ cl2[c].pats = cl[c].pats
  PROVE  PubOK(cls, cl2, pc, pp)
BY DEF PubOK

\* r waits for nothing.
Unlisted(bk, r) == [k \in Key |-> Without(bk[k], {r})]

\* A client that is in no list of a key any more, and was waiting.
LEMMA UnblockedOK ==
  ASSUME NEW cls, NEW cl, NEW ls, NEW bk, NEW ord, NEW ren, BlockOK(cls, cl, ls, bk, ord, ren), NEW r \in Client,
         NEW cls2, NEW cl2, \A c \in Client : c # r => (c \in ToSet(cls) => c \in ToSet(cls2)) /\ cl2[c] = cl[c],
         cl2[r].bkeys = << >>
  PROVE  BlockOK(cls2, cl2, ls, Unlisted(bk, r), Without(ord, {r}), ren)
<1> DEFINE bk2 == [k \in Key |-> Without(bk[k], {r})]
           ord2 == Without(ord, {r})
<1>1. /\ bk \in [Key -> Seq(Client)] /\ ord \in Seq(Client) /\ IsInjective(ord) /\ ren \subseteq Key
  BY DEF BlockOK
<1>2. /\ ord2 \in Seq(Client) /\ IsInjective(ord2) /\ ToSet(ord2) = ToSet(ord) \ {r}
      /\ \A i, j \in DOMAIN ord2 : i < j => \E m, n \in DOMAIN ord : m < n /\ ord2[i] = ord[m] /\ ord2[j] = ord[n]
  <2>1. LeftOf(ord2, Client, ord, {r})
    BY <1>1, WithoutIs
  <2> HIDE DEF ord2
  <2> QED BY <1>1, <2>1 DEF LeftOf
<1>3. ASSUME NEW k \in Key
      PROVE  LeftOf(bk2[k], Client, bk[k], {r})
  BY <1>1, WithoutIs
<1>4. bk2 \in [Key -> Seq(Client)]
  BY <1>3 DEF LeftOf
<1> HIDE DEF bk2, ord2
<1>5. ASSUME NEW c \in Client, NEW k \in Key
      PROVE  Count(bk2[k], c) = Count(cl2[c].bkeys, k)
  <2>1. CASE c = r
    <3>1. Count(<< >>, k) = 0
      <4>1. << >> \in Seq(Key) /\ k \notin ToSet(<< >>)
        BY DEF ToSet
      <4> QED BY <4>1, CountIs
    <3> QED BY <1>3, <2>1, <3>1 DEF LeftOf
  <2>2. CASE c # r
    BY <1>3, <2>2 DEF BlockOK, LeftOf
  <2> QED BY <2>1, <2>2
<1>6. \A c \in Client : cl2[c].bkeys # << >> => c \in ToSet(cls2) /\ ~cl2[c].multi
  BY DEF BlockOK
<1>7. \A c \in Client : c \in ToSet(ord2) <=> cl2[c].bkeys # << >>
  BY <1>2 DEF BlockOK
<1>8. ASSUME NEW k \in Key, NEW i \in DOMAIN bk2[k], NEW j \in DOMAIN bk2[k], i < j,
             NEW p \in DOMAIN ord2, NEW q \in DOMAIN ord2, ord2[p] = bk2[k][i], ord2[q] = bk2[k][j]
      PROVE  p <= q
  <2>1. PICK m \in DOMAIN bk[k], n \in DOMAIN bk[k] : m < n /\ bk2[k][i] = bk[k][m] /\ bk2[k][j] = bk[k][n]
    BY <1>3, <1>8 DEF LeftOf
  <2>2. p \in Int /\ q \in Int
    BY <1>2
  <2>3. CASE q < p
    <3>1. PICK a \in DOMAIN ord, b \in DOMAIN ord : a < b /\ ord2[q] = ord[a] /\ ord2[p] = ord[b]
      BY <1>2, <2>3
    <3>2. b <= a
      BY <1>8, <2>1, <3>1 DEF BlockOK
    <3>3. a \in Int /\ b \in Int
      BY <1>1
    <3> QED BY <3>1, <3>2, <3>3
  <2> QED BY <2>2, <2>3
<1>9. ASSUME NEW k \in Key, ls[k] # << >>, bk2[k] # << >>
      PROVE  k \in ren
  <2>1. Head(bk2[k]) \in ToSet(bk[k])
    <3>1. bk2[k] \in Seq(Client) /\ ToSet(bk2[k]) = ToSet(bk[k]) \ {r}
      BY <1>3 DEF LeftOf
    <3>2. Head(bk2[k]) \in ToSet(bk2[k])
      BY <1>9, <3>1, HeadIs
    <3> QED BY <3>1, <3>2
  <2>2. bk[k] # << >>
    BY <2>1 DEF ToSet
  <2> QED BY <1>9, <2>2 DEF BlockOK
<1>10. BlockOK(cls2, cl2, ls, bk2, ord2, ren)
  BY <1>1, <1>2, <1>4, <1>5, <1>6, <1>7, <1>8, <1>9 DEF BlockOK
<1> QED BY <1>10 DEF bk2, ord2, Unlisted

-----------------------------------------------------------------------------
(* What several commands do *)

\* Elements that are taken out of lists for good, and found freed by those who have them in
\* their hands.
LEMMA GivenAway ==
  ASSUME NEW s \in Seq(Frame), s # Undefined, NEW ls, NEW pu, NEW go, DataOK(s, ls, pu, go),
         NEW es, \A x \in es : InList(ls, x),
         NEW ls2, ListsOK(ls2), \A x : InList(ls2, x) <=> InList(ls, x) /\ x \notin es,
         NEW go2 \in [1 .. MaxPushed -> Nat],
         \A x \in 1 .. MaxPushed : go2[x] = IF x \in es THEN go[x] + 1 ELSE go[x]
  PROVE  DataOK(Freed(Dirtied(s), es), ls2, pu, go2)
<1> DEFINE t == Freed(Dirtied(s), es)
<1>1. /\ Alike(t, s)
      /\ \A n \in DOMAIN s : s[n][1] = "rpoplpush" /\ s[n][4] \in es => t[n][5]
  BY NotedAlike
<1> HIDE DEF t
<1>2. ASSUME NEW x \in 1 .. MaxPushed
      PROVE  ElementOK(t, ls2, pu, go2[x], x)
  <2>1. ElementOK(s, ls, pu, go[x], x)
    BY DEF DataOK
  <2>2. CASE x \in es
    <3>1. InList(ls, x) /\ ~InList(ls2, x) /\ go2[x] = go[x] + 1
      BY <2>2
    <3>2. \A n \in DOMAIN s : Holds(s[n], x) => t[n][5]
      BY <1>1, <2>2 DEF Holds
    <3> QED BY <1>1, <2>1, <3>1, <3>2, ElementAlike
  <2>3. CASE x \notin es
    <3>1. (InList(ls, x) <=> InList(ls2, x)) /\ go[x] = go2[x]
      BY <2>3
    <3> QED BY <1>1, <2>1, <3>1, ElementAlike
  <2> QED BY <2>2, <2>3
<1>3. DataOK(t, ls2, pu, go2)
  BY <1>2 DEF DataOK
<1> QED BY <1>3 DEF t

\* The next element exists, and is in no place yet.
LEMMA NextElement ==
  ASSUME NEW s, s # Undefined, NEW ls, NEW pu, NEW go, DataOK(s, ls, pu, go), pu < MaxPushed
  PROVE  /\ pu + 1 \in 1 .. MaxPushed /\ ~InList(ls, pu + 1) /\ go[pu + 1] = 0
         /\ \A n \in DOMAIN s : ~Holds(s[n], pu + 1)
         /\ \A x \in 1 .. MaxPushed : x # pu + 1 => ElementOK(s, ls, pu + 1, go[x], x)
<1>1. pu \in Nat /\ pu + 1 \in 1 .. MaxPushed
  BY ClientsBoundAssumption DEF DataOK
<1>2. ElementOK(s, ls, pu, go[pu + 1], pu + 1)
  BY <1>1 DEF DataOK
<1>3. ASSUME NEW x \in 1 .. MaxPushed, x # pu + 1
      PROVE  ElementOK(s, ls, pu + 1, go[x], x)
  <2>1. ElementOK(s, ls, pu, go[x], x)
    BY DEF DataOK
  <2>2. (pu + 1 < x => pu < x) /\ (x <= pu + 1 => x <= pu)
    BY <1>1, <1>3, ClientsBoundAssumption
  <2> QED BY <2>1, <2>2 DEF ElementOK
<1> QED BY <1>1, <1>2, <1>3 DEF ElementOK

\* Input(r) under the name i.
LEMMA InputAdded ==
  ASSUME NEW cls, NEW cl, NEW t, StackOK(cls, cl, t), NoneBlocked(cl, t), t # Undefined,
         NEW r \in Client, r \in ToSet(cls), cl[r].bkeys = << >>,
         \A n \in DOMAIN t : Owned(t[n]) => t[n][2] # r,
         NEW i, i = IF cl[r].buf # << >> THEN << <<"input", r>> >> ELSE << >>,
         NEW ls, NEW pu, NEW go, DataOK(t, ls, pu, go), NEW sm, MultiOK(t, sm)
  PROVE  StackOK(cls, cl, t \o i) /\ DataOK(t \o i, ls, pu, go) /\ MultiOK(t \o i, sm)
<1>1. t \in Seq(Frame)
  BY DEF StackOK
<1>2. CASE cl[r].buf # << >>
  <2> DEFINE f == <<"input", r>>
  <2>1. f \in Frame /\ Owned(f) /\ f[1] = "input" /\ f[2] = r
    BY FramesAre DEF Owned
  <2>2. t \o i = Append(t, f)
    BY <1>1, <1>2, <2>1
  <2> HIDE DEF f
  <2>3. StackOK(cls, cl, Append(t, f)) /\ Append(t, f) # Undefined
    BY <1>1, <1>2, <2>1, StackAppend
  <2>4. DataOK(Append(t, f), ls, pu, go)
    BY <1>1, <2>1, <2>3, DataAppend
  <2>5. MultiOK(Append(t, f), sm)
    BY <1>1, <2>1, MultiAppend
  <2> QED BY <2>2, <2>3, <2>4, <2>5
<1>3. CASE cl[r].buf = << >>
  <2>1. t \o i = t
    BY <1>1, <1>3
  <2> QED BY <2>1
<1> QED BY <1>2, <1>3

\* In cl2, r waits for the keys ks, and nothing else is different.
Waiting(cl2, cl, r, ks) ==
  /\ cl2 \in [Client -> ClientRec] /\ cl2[r].bkeys = ks /\ cl2[r].buf = cl[r].buf
  /\ cl2[r].chans = cl[r].chans /\ cl2[r].pats = cl[r].pats /\ cl2[r].queue = cl[r].queue
  /\ cl2[r].multi = cl[r].multi
  /\ \A c \in Client : c # r => cl2[c] = cl[c]

\* Waiting, of a structure whose keys are set.
LEMMA WaitingIs ==
  ASSUME NEW cl \in [Client -> ClientRec], NEW r \in Client, NEW ks \in Seq(Key), NEW b \in BOOLEAN
  PROVE  Waiting([cl EXCEPT ![r].bkeys = ks, ![r].timed = b], cl, r, ks)
<1> DEFINE cl1 == [cl EXCEPT ![r].bkeys = ks]
           cl2 == [cl1 EXCEPT ![r].timed = b]
<1>1. cl[r] \in ClientRec /\ ks \in Seq(Key)
  OBVIOUS
<1>2. cl1 \in [Client -> ClientRec]
  BY <1>1 DEF ClientRec
<1>3. /\ cl1[r] = [cl[r] EXCEPT !.bkeys = ks]
      /\ \A c \in Client : c # r => cl1[c] = cl[c]
  OBVIOUS
<1> HIDE DEF cl1
<1>4. cl1[r] \in ClientRec
  BY <1>2
<1>5. cl2 \in [Client -> ClientRec]
  BY <1>2, <1>4 DEF ClientRec
<1>6. /\ cl2[r] = [cl1[r] EXCEPT !.timed = b]
      /\ \A c \in Client : c # r => cl2[c] = cl1[c]
  BY <1>2
<1>7. [cl EXCEPT ![r].bkeys = ks, ![r].timed = b] = cl2
  BY DEF cl1
<1> HIDE DEF cl2
<1>8. Waiting(cl2, cl, r, ks)
  BY <1>1, <1>3, <1>4, <1>5, <1>6 DEF Waiting, ClientRec
<1> QED BY <1>7, <1>8

\* The first in the list of a key is waiting.
LEMMA FirstWaits ==
  ASSUME NEW cls, NEW cl, NEW ls, NEW bk, NEW ord, NEW ren, BlockOK(cls, cl, ls, bk, ord, ren),
         NEW k \in Key, bk[k] # << >>
  PROVE  Head(bk[k]) \in Client /\ cl[Head(bk[k])].bkeys # << >>
<1> DEFINE r == Head(bk[k])
<1>1. bk[k] \in Seq(Client)
  BY DEF BlockOK
<1>2. r \in Client /\ r \in ToSet(bk[k])
  BY <1>1, HeadIs
<1> HIDE DEF r
<1>3. cl[r].bkeys # << >>
  <2>1. Count(bk[k], r) # 0 /\ Count(bk[k], r) = Count(cl[r].bkeys, k)
    BY <1>1, <1>2, CountIs DEF BlockOK
  <2>2. Count(<< >>, k) = 0
    <3>1. << >> \in Seq(Key) /\ k \notin ToSet(<< >>)
      BY DEF ToSet
    <3> QED BY <3>1, CountIs
  <2> QED BY <1>2, <2>1, <2>2
<1> QED BY <1>2, <1>3 DEF r

\* None of the calls under way is for a client that waited, and is served or gives up.
LEMMA UnwaitingCalls ==
  ASSUME NEW cls, NEW cl, NEW s, StackOK(cls, cl, s), NoneBlocked(cl, s),
         NEW r \in Client, cl[r].bkeys # << >>, NEW cl2, Waiting(cl2, cl, r, << >>)
  PROVE  /\ \A n \in DOMAIN s : Owned(s[n]) => s[n][2] # r
         /\ StackOK(cls, cl2, s) /\ NoneBlocked(cl2, s)
<1>1. \A n \in DOMAIN s : Owned(s[n]) => s[n][2] # r
  BY DEF NoneBlocked
<1>2. \A n \in DOMAIN s : Owned(s[n]) => s[n][2] \in Client /\ s[n][2] \in ToSet(cls) /\ cl2[s[n][2]] = cl[s[n][2]]
  <2> TAKE n \in DOMAIN s
  <2>1. s[n] \in Frame
    BY DEF StackOK
  <2>2. Owned(s[n]) => s[n][2] \in Client
    BY <2>1, FrameKinds
  <2> QED BY <1>1, <2>2 DEF StackOK, Waiting
<1>3. StackOK(cls, cl2, s)
  <2>1. \A n \in DOMAIN s : Owned(s[n]) =>
           /\ s[n][2] \in ToSet(cls)
           /\ cl2[s[n][2]].bkeys # << >> => cl[s[n][2]].bkeys # << >>
           /\ s[n][1] = "input" => cl2[s[n][2]].buf # << >>
           /\ s[n][1] = "exec" => cl2[s[n][2]].multi /\ Len(cl2[s[n][2]].queue) = Len(cl[s[n][2]].queue)
    <3> TAKE n \in DOMAIN s
    <3> HAVE Owned(s[n])
    <3>1. s[n][2] \in ToSet(cls) /\ cl2[s[n][2]] = cl[s[n][2]]
      BY <1>2
    <3>2. s[n][1] = "input" => cl[s[n][2]].buf # << >>
      BY DEF StackOK
    <3>3. s[n][1] = "exec" => cl[s[n][2]].multi
      BY DEF StackOK
    <3> QED BY <3>1, <3>2, <3>3
  <2> QED BY <2>1, StackClients
<1>4. NoneBlocked(cl2, s)
  BY <1>2 DEF NoneBlocked
<1> QED BY <1>1, <1>3, <1>4

\* To wait or not changes no buffer and no queue.
LEMMA WaitingClients ==
  ASSUME NEW cls, NEW cl, ClientsOK(cls, cl), NEW r \in Client, NEW cl2, NEW ks, Waiting(cl2, cl, r, ks)
  PROVE  ClientsOK(cls, cl2)
<1>1. \A c \in Client : cl2[c].buf = cl[c].buf /\ cl2[c].queue = cl[c].queue
  BY DEF Waiting
<1> QED BY <1>1 DEF ClientsOK, Waiting

\* To wait or not changes no subscription.
LEMMA WaitingPub ==
  ASSUME NEW cls, NEW cl, NEW pc, NEW pp, PubOK(cls, cl, pc, pp), NEW r \in Client, NEW cl2, NEW ks, Waiting(cl2, cl, r, ks)
  PROVE  PubOK(cls, cl2, pc, pp)
<1>1. \A c \in Client : cl2[c].chans = cl[c].chans /\ cl2[c].pats = cl[c].pats
  BY DEF Waiting
<1> QED BY <1>1, PubClients

\* A client that stops waiting is taken out of the lists of all its keys.
LEMMA UnwaitingBlock ==
  ASSUME NEW cls, NEW cl, NEW ls, NEW bk, NEW ord, NEW ren, BlockOK(cls, cl, ls, bk, ord, ren),
         NEW r \in Client, cl[r].bkeys # << >>, NEW cl2, Waiting(cl2, cl, r, << >>)
  PROVE  r \in ToSet(cls) /\ BlockOK(cls, cl2, ls, Unlisted(bk, r), Without(ord, {r}), ren)
<1>1. r \in ToSet(cls)
  BY DEF BlockOK
<1>2. \A c \in Client : c # r => (c \in ToSet(cls) => c \in ToSet(cls)) /\ cl2[c] = cl[c]
  BY DEF Waiting
<1>3. cl2[r].bkeys = << >>
  BY DEF Waiting
<1>4. BlockOK(cls, cl2, ls, Unlisted(bk, r), Without(ord, {r}), ren)
  BY <1>2, <1>3, UnblockedOK
<1> QED BY <1>1, <1>4

-----------------------------------------------------------------------------
(* Commands.  The call of the command is the innermost; its client is not blocked, and     *)
(* unless it executes a transaction, no other calls are under way for it, except that its  *)
(* input is read.                                                                          *)

Ready(c, cmd, s, cl) ==
  /\ c \in Client /\ cmd \in Command /\ cmd[1] # "quit"
  /\ s # << >> /\ s[Len(s)] = <<"call", c, cmd, FALSE>>
  /\ At(s, cl) /\ NoneBlocked(cl, s) /\ s # Undefined
  /\ \A x \in Client : x # c => cl[x] = client[x]
  /\ cl[c].multi = client[c].multi /\ cl[c].chans = client[c].chans /\ cl[c].pats = client[c].pats
  /\ \/ cl[c].multi /\ cmd[1] \notin {"exec", "discard"}
     \/ \A n \in DOMAIN s : Owned(s[n]) /\ s[n][2] = c => n = Len(s) \/ (n = Len(s) - 1 /\ s[n][1] = "input")

\* What Ready says first of all.
LEMMA ReadyIs ==
  ASSUME NEW c, NEW cmd, NEW s, NEW cl, Ready(c, cmd, s, cl)
  PROVE  /\ c \in Client /\ c \in ToSet(clients) /\ cl[c].bkeys = << >> /\ cl \in [Client -> ClientRec]
         /\ s \in Seq(Frame) /\ Len(s) \in DOMAIN s /\ DOMAIN s = 1 .. Len(s) /\ s # Undefined /\ s # << >>
         /\ s[Len(s)][1] = "call" /\ s[Len(s)][2] = c /\ s[Len(s)][3] = cmd /\ Owned(s[Len(s)])
         /\ ClientsOK(clients, cl) /\ StackOK(clients, cl, s) /\ NoneBlocked(cl, s)
         /\ BlockOK(clients, cl, lists, blockingkeys, order, renamed)
         /\ DataOK(s, lists, pushed, got) /\ ListsOK(lists) /\ pushed \in 0 .. MaxPushed
         /\ got \in [1 .. MaxPushed -> Nat]
         /\ PubOK(clients, cl, pubsub_channels, pubsub_patterns) /\ MultiOK(s, slaveMulti)
<1>1. /\ c \in Client /\ s # << >> /\ s[Len(s)] = <<"call", c, cmd, FALSE>> /\ s # Undefined
      /\ ClientsOK(clients, cl) /\ StackOK(clients, cl, s) /\ NoneBlocked(cl, s)
      /\ BlockOK(clients, cl, lists, blockingkeys, order, renamed)
      /\ DataOK(s, lists, pushed, got)
      /\ PubOK(clients, cl, pubsub_channels, pubsub_patterns) /\ MultiOK(s, slaveMulti)
  BY DEF Ready, At
<1>2. s \in Seq(Frame)
  BY <1>1 DEF StackOK
<1>3. Len(s) \in DOMAIN s /\ DOMAIN s = 1 .. Len(s)
  BY <1>1, <1>2
<1>4. s[Len(s)][1] = "call" /\ s[Len(s)][2] = c /\ s[Len(s)][3] = cmd /\ Owned(s[Len(s)])
  BY <1>1 DEF Owned
<1>5. c \in ToSet(clients)
  BY <1>1, <1>3, <1>4 DEF StackOK
<1>6. cl[c].bkeys = << >>
  BY <1>1, <1>3, <1>4 DEF NoneBlocked
<1>7. /\ ListsOK(lists) /\ pushed \in 0 .. MaxPushed /\ got \in [1 .. MaxPushed -> Nat]
      /\ cl \in [Client -> ClientRec]
  BY <1>1 DEF DataOK, ClientsOK
<1> QED BY <1>1, <1>2, <1>3, <1>4, <1>5, <1>6, <1>7

\* Somebody who waits for k is given e: who it is, and what becomes of it.
LEMMA Served ==
  ASSUME NEW c, NEW cmd, NEW s, NEW cl, Ready(c, cmd, s, cl), NEW k \in Key, blockingkeys[k] # << >>, NEW e,
         handleClientsWaitingListPush(k, e, cl)
  PROVE  LET r == Receiver(k)
         IN  /\ r \in Client /\ r \in ToSet(clients) /\ r # c
             /\ client'[r].bkeys = << >> /\ client'[c].bkeys = << >>
             /\ Input(r) = IF client'[r].buf # << >> THEN << <<"input", r>> >> ELSE << >>
             /\ \A n \in DOMAIN s : Owned(s[n]) => s[n][2] # r
             /\ ClientsOK(clients, client') /\ StackOK(clients, client', s) /\ NoneBlocked(client', s)
             /\ PubOK(clients, client', pubsub_channels, pubsub_patterns)
             /\ BlockOK(clients, client', lists, blockingkeys', order', renamed)
             /\ got' = [got EXCEPT ![e] = @ + 1]
<1> DEFINE r == Receiver(k)
<1>1. /\ client' = [cl EXCEPT ![r].bkeys = << >>, ![r].timed = FALSE]
      /\ blockingkeys' = Unlisted(blockingkeys, r) /\ order' = Without(order, {r})
      /\ got' = [got EXCEPT ![e] = @ + 1]
  BY DEF handleClientsWaitingListPush, unblockClientWaitingData, Unblocked, Unlisted
<1>2. r = Head(blockingkeys[k])
  BY DEF Receiver
<1> HIDE DEF r
<1>3. r \in Client /\ cl[r].bkeys # << >>
  <2>1. BlockOK(clients, cl, lists, blockingkeys, order, renamed)
    BY ReadyIs
  <2> QED BY <1>2, <2>1, FirstWaits
<1>4. Waiting(client', cl, r, << >>)
  <2>1. cl \in [Client -> ClientRec] /\ << >> \in Seq(Key) /\ FALSE \in BOOLEAN
    BY ReadyIs
  <2> QED BY <1>1, <1>3, <2>1, WaitingIs
<1>5. /\ r \in ToSet(clients) /\ client'[r].bkeys = << >>
      /\ client'[r].buf = cl[r].buf /\ \A x \in Client : x # r => client'[x] = cl[x]
      /\ \A n \in DOMAIN s : Owned(s[n]) => s[n][2] # r
      /\ ClientsOK(clients, client') /\ StackOK(clients, client', s) /\ NoneBlocked(client', s)
      /\ PubOK(clients, client', pubsub_channels, pubsub_patterns)
      /\ BlockOK(clients, client', lists, Unlisted(blockingkeys, r), Without(order, {r}), renamed)
  <2>1. /\ ClientsOK(clients, cl) /\ StackOK(clients, cl, s) /\ NoneBlocked(cl, s)
        /\ BlockOK(clients, cl, lists, blockingkeys, order, renamed)
        /\ PubOK(clients, cl, pubsub_channels, pubsub_patterns)
    BY ReadyIs
  <2>2. /\ client'[r].bkeys = << >> /\ client'[r].buf = cl[r].buf
        /\ \A x \in Client : x # r => client'[x] = cl[x]
    BY <1>4 DEF Waiting
  <2>3. /\ \A n \in DOMAIN s : Owned(s[n]) => s[n][2] # r
        /\ StackOK(clients, client', s) /\ NoneBlocked(client', s)
    BY <1>3, <1>4, <2>1, UnwaitingCalls
  <2>4. ClientsOK(clients, client')
    BY <1>3, <1>4, <2>1, WaitingClients
  <2>5. PubOK(clients, client', pubsub_channels, pubsub_patterns)
    BY <1>3, <1>4, <2>1, WaitingPub
  <2>6. /\ r \in ToSet(clients)
        /\ BlockOK(clients, client', lists, Unlisted(blockingkeys, r), Without(order, {r}), renamed)
    BY <1>3, <1>4, <2>1, UnwaitingBlock
  <2> QED BY <2>2, <2>3, <2>4, <2>5, <2>6
<1>6. r # c /\ client'[c].bkeys = << >>
  BY <1>3, <1>5, ReadyIs
<1>7. Input(r) = IF client'[r].buf # << >> THEN << <<"input", r>> >> ELSE << >>
  <2>1. cl[r] = client[r]
    BY <1>3, <1>6 DEF Ready
  <2> QED BY <1>5, <2>1 DEF Input
<1>8. BlockOK(clients, client', lists, blockingkeys', order', renamed)
  BY <1>1, <1>5
<1> QED BY <1>1, <1>3, <1>5, <1>6, <1>7, <1>8 DEF r

\* LPUSH and RPUSH, with the client that they serve.
LEMMA PushKeeps ==
  ASSUME NEW c, NEW cmd, NEW s, NEW cl, Ready(c, cmd, s, cl), NEW k \in Key, pushGenericCommand(c, k, s, cl)
  PROVE  At(stack, client)'
<1> DEFINE e == pushed + 1
<1>1. /\ pushed < MaxPushed /\ pushed' = e
      /\ clients' = clients /\ pubsub_channels' = pubsub_channels /\ pubsub_patterns' = pubsub_patterns
      /\ slaveMulti' = slaveMulti /\ renamed' = renamed
  BY DEF pushGenericCommand, pubsub
<1>2. /\ e \in 1 .. MaxPushed /\ ~InList(lists, e) /\ got[e] = 0
      /\ \A n \in DOMAIN s : ~Holds(s[n], e)
      /\ \A x \in 1 .. MaxPushed : x # e => ElementOK(s, lists, e, got[x], x)
  BY <1>1, ReadyIs, NextElement
<1>3. CASE blockingkeys[k] # << >>
  <2>1. handleClientsWaitingListPush(k, e, cl) /\ stack' = s \o Input(Receiver(k)) /\ lists' = lists
    BY <1>3 DEF pushGenericCommand
  <2> DEFINE r == Receiver(k)
  <2>2. /\ r \in Client /\ r \in ToSet(clients) /\ client'[r].bkeys = << >>
        /\ Input(r) = IF client'[r].buf # << >> THEN << <<"input", r>> >> ELSE << >>
        /\ \A n \in DOMAIN s : Owned(s[n]) => s[n][2] # r
        /\ ClientsOK(clients, client') /\ StackOK(clients, client', s) /\ NoneBlocked(client', s)
        /\ PubOK(clients, client', pubsub_channels, pubsub_patterns)
        /\ BlockOK(clients, client', lists, blockingkeys', order', renamed)
        /\ got' = [got EXCEPT ![e] = @ + 1]
    BY <1>3, <2>1, Served
  <2> HIDE DEF r, e
  <2>3. got' \in [1 .. MaxPushed -> Nat] /\ got'[e] = 1 /\ \A x \in 1 .. MaxPushed : x # e => got'[x] = got[x]
    <3>1. got \in [1 .. MaxPushed -> Nat]
      BY ReadyIs
    <3> QED BY <1>2, <2>2, <3>1
  <2>4. DataOK(s, lists, e, got')
    <3>1. ElementOK(s, lists, e, got'[e], e)
      BY <1>2, <2>3 DEF ElementOK
    <3>2. e \in 0 .. MaxPushed
      BY <1>2
    <3> QED BY <1>2, <2>3, <3>1, <3>2, ReadyIs DEF DataOK
  <2>5. StackOK(clients, client', stack') /\ DataOK(stack', lists, e, got') /\ MultiOK(stack', slaveMulti)
    <3>1. stack' = s \o Input(r) /\ s # Undefined /\ MultiOK(s, slaveMulti)
      BY <2>1, ReadyIs DEF r
    <3> QED BY <2>2, <2>4, <3>1, InputAdded
  <2> QED BY <1>1, <2>1, <2>2, <2>5 DEF At
<1>4. CASE blockingkeys[k] = << >>
  <2>1. /\ lists' = [lists EXCEPT ![k] = Append(@, e)] /\ stack' = Dirtied(s)
        /\ client' = cl /\ blockingkeys' = blockingkeys /\ order' = order /\ got' = got
    BY <1>4 DEF pushGenericCommand, blocking
  <2> HIDE DEF e
  <2>2. Alike(stack', s)
    BY <2>1, ReadyIs, DirtiedAlike
  <2>3. ListsOK(lists') /\ \A x : InList(lists', x) <=> InList(lists, x) \/ x = e
    <3>1. lists' = [lists EXCEPT ![k] = Append(lists[k], e)]
      BY <2>1
    <3>2. ListsOK(lists)
      BY ReadyIs
    <3> DEFINE l == Append(lists[k], e)
    <3>3. Grown(l, e, lists[k]) /\ lists' = Put(lists, k, l)
      BY <3>1 DEF Put, Grown
    <3> HIDE DEF l
    <3> QED BY <1>2, <3>2, <3>3, ListsAdded, Zenon
  <2>4. DataOK(stack', lists', e, got)
    <3>1. ASSUME NEW x \in 1 .. MaxPushed
          PROVE  ElementOK(stack', lists', e, got[x], x)
      <4>1. CASE x = e
        <5>1. ElementOK(s, lists', e, got[e], e)
          BY <1>2, <2>3 DEF ElementOK
        <5> QED BY <2>2, <4>1, <5>1, ReadyIs, ElementAlike
      <4>2. CASE x # e
        <5>1. ElementOK(s, lists, e, got[x], x) /\ (InList(lists, x) <=> InList(lists', x))
          BY <1>2, <2>3, <4>2
        <5> QED BY <2>2, <5>1, ReadyIs, ElementAlike
      <4> QED BY <4>1, <4>2
    <3>2. e \in 0 .. MaxPushed
      BY <1>2
    <3> QED BY <2>3, <3>1, <3>2, ReadyIs DEF DataOK
  <2>5. BlockOK(clients, cl, lists', blockingkeys, order, renamed)
    <3>1. lists \in [Key -> Seq(1 .. MaxPushed)] /\ renamed \in SUBSET Key
      BY ReadyIs DEF ListsOK, BlockOK
    <3>2. ASSUME NEW x \in Key, lists'[x] # << >>, blockingkeys[x] # << >>
          PROVE  x \in renamed
      <4>1. x # k
        BY <1>4, <3>2
      <4>2. lists'[x] = lists[x]
        BY <2>1, <3>1, <4>1
      <4> QED BY <3>2, <4>2, ReadyIs DEF BlockOK
    <3> QED BY <3>1, <3>2, ReadyIs, BlockLists
  <2> QED BY <1>1, <2>1, <2>2, <2>4, <2>5, ReadyIs, StackAlike, MultiAlike DEF At
<1> QED BY <1>3, <1>4

\* The first element of a list is given away, and its node freed.
LEMMA PoppedKeeps ==
  ASSUME NEW c, NEW cmd, NEW s, NEW cl, Ready(c, cmd, s, cl), NEW k \in Key, lists[k] # << >>, Popped(k, s, cl)
  PROVE  At(stack, client)'
<1> DEFINE e == Head(lists[k])
<1>1. /\ lists' = [lists EXCEPT ![k] = Tail(lists[k])] /\ got' = [got EXCEPT ![e] = @ + 1]
      /\ renamed' = IF Len(lists[k]) = 1 THEN renamed \ {k} ELSE renamed
      /\ stack' = Freed(Dirtied(s), {e})
      /\ client' = cl /\ clients' = clients /\ blockingkeys' = blockingkeys /\ order' = order
      /\ pubsub_channels' = pubsub_channels /\ pubsub_patterns' = pubsub_patterns
      /\ pushed' = pushed /\ slaveMulti' = slaveMulti
  BY DEF Popped, blocking, pubsub
<1>2. /\ ListsOK(lists') /\ e \in 1 .. MaxPushed /\ InList(lists, e)
      /\ \A x : InList(lists', x) <=> InList(lists, x) /\ x # e
  <2> DEFINE l == Tail(lists[k])
  <2>1. Cut(l, e, lists[k])
    BY DEF Cut
  <2>2. lists' = Put(lists, k, l)
    BY <1>1 DEF Put
  <2>3. ListsOK(lists)
    BY ReadyIs
  <2> HIDE DEF l, e
  <2> QED BY <2>1, <2>2, <2>3, ListsTaken
<1> HIDE DEF e
<1>3. DataOK(stack', lists', pushed, got')
  <2>1. got \in [1 .. MaxPushed -> Nat]
    BY ReadyIs
  <2>2. got' \in [1 .. MaxPushed -> Nat]
    BY <1>1, <1>2, <2>1
  <2>3. \A x \in 1 .. MaxPushed : got'[x] = IF x \in {e} THEN got[x] + 1 ELSE got[x]
    BY <1>1, <1>2, <2>1
  <2>4. /\ \A x \in {e} : InList(lists, x)
        /\ \A x : InList(lists', x) <=> InList(lists, x) /\ x \notin {e}
    BY <1>2
  <2>5. s \in Seq(Frame) /\ s # Undefined /\ DataOK(s, lists, pushed, got)
    BY ReadyIs
  <2> QED BY <1>1, <1>2, <2>2, <2>3, <2>4, <2>5, GivenAway
<1>4. BlockOK(clients, cl, lists', blockingkeys, order, renamed')
  <2>1. lists \in [Key -> Seq(1 .. MaxPushed)] /\ renamed' \in SUBSET Key
    BY <1>1, ReadyIs DEF ListsOK, BlockOK
  <2>2. ASSUME NEW x \in Key, lists'[x] # << >>, blockingkeys[x] # << >>
        PROVE  x \in renamed'
    <3>1. CASE x = k
      <4>1. lists'[k] = Tail(lists[k]) /\ lists[k] \in Seq(1 .. MaxPushed)
        BY <1>1, <2>1
      <4>2. Len(lists[k]) # 1
        <5>1. Tail(lists[k]) # << >>
          BY <2>2, <3>1, <4>1
        <5>2. Tail(lists[k]) \in Seq(1 .. MaxPushed) /\ Len(Tail(lists[k])) = Len(lists[k]) - 1
          BY <4>1, HeadTailProperties
        <5>3. Len(Tail(lists[k])) \in Nat \ {0}
          BY <5>1, <5>2, EmptySeq
        <5> QED BY <5>2, <5>3
      <4> QED BY <1>1, <2>2, <3>1, <4>2, ReadyIs DEF BlockOK
    <3>2. CASE x # k
      <4>1. lists'[x] = lists[x]
        BY <1>1, <2>1, <3>2
      <4> QED BY <1>1, <2>2, <3>2, <4>1, ReadyIs DEF BlockOK
    <3> QED BY <3>1, <3>2
  <2> QED BY <2>1, <2>2, ReadyIs, BlockLists
<1>5. Alike(stack', s)
  BY <1>1, ReadyIs, NotedAlike
<1> QED BY <1>1, <1>3, <1>4, <1>5, ReadyIs, StackAlike, MultiAlike DEF At

\* LPOP and RPOP.
LEMMA PopKeeps ==
  ASSUME NEW c, NEW cmd, NEW s, NEW cl, Ready(c, cmd, s, cl), NEW k \in Key, popGenericCommand(k, s, cl)
  PROVE  At(stack, client)'
<1>1. CASE lists[k] = << >>
  BY <1>1, NothingKeeps DEF popGenericCommand, Ready
<1>2. CASE lists[k] # << >>
  BY <1>2, PoppedKeeps DEF popGenericCommand
<1> QED BY <1>1, <1>2

\* The elements of k2 are gone, and those of k are there instead.
LEMMA RenameKeeps ==
  ASSUME NEW c, NEW cmd, NEW s, NEW cl, Ready(c, cmd, s, cl), NEW k \in Key, NEW k2 \in Key,
         renameCommand(k, k2, s, cl)
  PROVE  At(stack, client)'
<1>1. CASE lists[k] = << >> \/ k = k2
  BY <1>1, NothingKeeps DEF renameCommand, Ready
<1>2. CASE ~(lists[k] = << >> \/ k = k2)
  <2> DEFINE es == ToSet(lists[k2])
  <2>1. /\ lists' = [lists EXCEPT ![k2] = lists[k], ![k] = << >>]
        /\ got' = [e \in DOMAIN got |-> IF e \in es THEN got[e] + 1 ELSE got[e]]
        /\ renamed' = (renamed \ {k}) \cup {k2}
        /\ stack' = Freed(Dirtied(s), es)
        /\ client' = cl /\ clients' = clients /\ blockingkeys' = blockingkeys /\ order' = order
        /\ pubsub_channels' = pubsub_channels /\ pubsub_patterns' = pubsub_patterns
        /\ pushed' = pushed /\ slaveMulti' = slaveMulti
    BY <1>2 DEF renameCommand, blocking, pubsub
  <2>2. ListsOK(lists') /\ \A x : InList(lists', x) <=> InList(lists, x) /\ x \notin ToSet(lists[k2])
    <3>1. ListsOK(lists) /\ lists[k] # << >> /\ k # k2 /\ k \in Key /\ k2 \in Key
      BY <1>2, ReadyIs
    <3>2. lists' = Rename(lists, k, k2)
      BY <2>1 DEF Rename
    <3> QED BY <3>1, <3>2, ListsRenamed
  <2>3. \A x \in es : InList(lists, x)
    BY DEF InList
  <2> HIDE DEF es
  <2>4. DataOK(stack', lists', pushed, got')
    <3>1. got \in [1 .. MaxPushed -> Nat]
      BY ReadyIs
    <3>2. got' \in [1 .. MaxPushed -> Nat]
      BY <2>1, <3>1
    <3>3. \A x \in 1 .. MaxPushed : got'[x] = IF x \in es THEN got[x] + 1 ELSE got[x]
      BY <2>1, <3>1
    <3>4. \A x : InList(lists', x) <=> InList(lists, x) /\ x \notin es
      BY <2>2 DEF es
    <3>5. s \in Seq(Frame) /\ s # Undefined /\ DataOK(s, lists, pushed, got)
      BY ReadyIs
    <3> QED BY <2>1, <2>2, <2>3, <3>2, <3>3, <3>4, <3>5, GivenAway
  <2>5. BlockOK(clients, cl, lists', blockingkeys, order, renamed')
    <3>1. lists \in [Key -> Seq(1 .. MaxPushed)] /\ renamed \in SUBSET Key
      BY ReadyIs DEF ListsOK, BlockOK
    <3>2. renamed' \in SUBSET Key
      BY <2>1, <3>1
    <3>3. ASSUME NEW x \in Key, lists'[x] # << >>, blockingkeys[x] # << >>
          PROVE  x \in renamed'
      <4>1. x # k
        BY <1>2, <2>1, <3>1, <3>3
      <4>2. x # k2 => lists'[x] = lists[x]
        BY <2>1, <3>1, <4>1
      <4> QED BY <2>1, <3>3, <4>1, <4>2, ReadyIs DEF BlockOK
    <3> QED BY <3>2, <3>3, ReadyIs, BlockLists
  <2>6. Alike(stack', s)
    BY <2>1, ReadyIs, NotedAlike
  <2> QED BY <2>1, <2>4, <2>5, <2>6, ReadyIs, StackAlike, MultiAlike DEF At
<1> QED BY <1>1, <1>2

\* A node that is given away stays in its list while rpoplpush has it in its hands.
LEMMA MovingElement ==
  ASSUME NEW s \in Seq(Frame), s # Undefined, NEW ls, NEW pu, NEW go, DataOK(s, ls, pu, go), pu \in 0 .. MaxPushed,
         NEW e \in 1 .. MaxPushed, InList(ls, e), NEW f \in Frame, f[1] = "rpoplpush", f[4] = e, ~f[5],
         Append(s, f) # Undefined, NEW go2, go2 = [go EXCEPT ![e] = @ + 1]
  PROVE  DataOK(Append(s, f), ls, pu, go2)
<1> DEFINE t == Append(s, f)
<1>1. /\ Len(s) \in Nat /\ Len(t) = Len(s) + 1 /\ DOMAIN s = 1 .. Len(s) /\ DOMAIN t = 1 .. Len(s) + 1
      /\ t[Len(s) + 1] = f /\ \A n \in DOMAIN s : n \in DOMAIN t /\ t[n] = s[n]
  BY AppendProperties
<1>2. go \in [1 .. MaxPushed -> Nat] /\ \A x \in 1 .. MaxPushed : ElementOK(s, ls, pu, go[x], x)
  BY DEF DataOK
<1>3. /\ go2 \in [1 .. MaxPushed -> Nat] /\ go2[e] = go[e] + 1
      /\ \A x \in 1 .. MaxPushed : x # e => go2[x] = go[x]
  BY <1>2
<1>4. Holds(f, e) /\ \A x : x # e => ~Holds(f, x)
  BY DEF Holds
<1> HIDE DEF t
<1>5. ASSUME NEW x \in 1 .. MaxPushed
      PROVE  ElementOK(t, ls, pu, go2[x], x)
  <2>1. CASE x # e
    <3>1. ElementOK(s, ls, pu, go2[x], x)
      BY <1>2, <1>3, <2>1
    <3>2. ~Holds(f, x)
      BY <1>4, <2>1
    <3> QED BY <3>1, <3>2, ElementAppend DEF t
  <2>2. CASE x = e
    <3>1. e <= pu
      <4>1. ~(pu < e)
        BY <1>2 DEF ElementOK
      <4> QED BY <4>1, ClientsBoundAssumption
    <3>2. ~(pu < e)
      BY <3>1, ClientsBoundAssumption
    <3>3. ASSUME NEW n \in DOMAIN t, Holds(t[n], e), ~t[n][5],
                 \A m \in DOMAIN t : m # n => ~Holds(t[m], e)
          PROVE  go2[e] = 1
      <4>1. n = Len(s) + 1
        BY <1>1, <1>4, <3>3
      <4>2. \A m \in DOMAIN s : ~Holds(s[m], e)
        BY <1>1, <3>3, <4>1
      <4>3. go[e] = 0
        BY <1>2, <3>1, <4>2 DEF ElementOK
      <4> QED BY <1>3, <4>3
    <3>4. ~ \A n \in DOMAIN t : ~Holds(t[n], e)
      BY <1>1, <1>4
    <3> QED BY <2>2, <3>1, <3>2, <3>3, <3>4 DEF ElementOK
  <2> QED BY <2>1, <2>2
<1>6. DataOK(t, ls, pu, go2)
  BY <1>3, <1>5 DEF DataOK
<1> QED BY <1>6 DEF t

\* rpoplpush between two lists, or in one.
LEMMA ListsMoved ==
  ASSUME NEW ls, ListsOK(ls), NEW k \in Key, NEW k2 \in Key, ls[k] # << >>, NEW e, e = Last(ls[k]),
         NEW l, l = Put(ls, k, Front(ls[k])), NEW new, new = Put(l, k2, <<e>> \o l[k2])
  PROVE  /\ ListsOK(new) /\ e \in 1 .. MaxPushed /\ InList(ls, e)
         /\ \A x : InList(new, x) <=> InList(ls, x)
         /\ \A x \in Key : x # k2 /\ new[x] # << >> => ls[x] # << >>
<1> DEFINE fr == Front(ls[k])
<1>1. Cut(fr, e, ls[k]) /\ l = Put(ls, k, fr)
  BY DEF Cut
<1> HIDE DEF fr
<1>2. /\ ListsOK(l) /\ e \in 1 .. MaxPushed /\ InList(ls, e)
      /\ \A x : InList(l, x) <=> InList(ls, x) /\ x # e
  BY <1>1, ListsTaken
<1> DEFINE a == <<e>> \o l[k2]
<1>3. Grown(a, e, l[k2]) /\ new = Put(l, k2, a)
  BY DEF Grown
<1> HIDE DEF a
<1>4. ~InList(l, e)
  BY <1>2
<1>5. ListsOK(new) /\ \A x : InList(new, x) <=> InList(l, x) \/ x = e
  BY <1>2, <1>3, <1>4, ListsAdded
<1>6. \A x \in Key : x # k2 /\ new[x] # << >> => ls[x] # << >>
  <2> TAKE x \in Key
  <2> HAVE x # k2 /\ new[x] # << >>
  <2>1. ls \in [Key -> Seq(1 .. MaxPushed)] /\ l \in [Key -> Seq(1 .. MaxPushed)]
    BY <1>2 DEF ListsOK
  <2>2. new[x] = l[x]
    BY <1>3, <2>1 DEF Put
  <2>3. x # k => l[x] = ls[x]
    BY <1>1, <2>1 DEF Put
  <2> QED BY <2>2, <2>3
<1> QED BY <1>2, <1>5, <1>6

\* RPOPLPUSH, until it has pushed the element.
LEMMA RpoplpushKeeps ==
  ASSUME NEW c, NEW cmd, NEW s, NEW cl, Ready(c, cmd, s, cl), NEW k \in Key, NEW k2 \in Key,
         rpoplpushcommand(c, k, k2, s, cl)
  PROVE  At(stack, client)'
<1>1. CASE lists[k] = << >>
  BY <1>1, NothingKeeps DEF rpoplpushcommand, Ready
<1>2. CASE lists[k] # << >>
  <2> DEFINE e == Last(lists[k])
             l == Put(lists, k, Front(lists[k]))
             new == Put(l, k2, <<e>> \o l[k2])
  <2>1. /\ clients' = clients /\ pubsub_channels' = pubsub_channels /\ pubsub_patterns' = pubsub_patterns
        /\ pushed' = pushed /\ slaveMulti' = slaveMulti
    BY <1>2 DEF rpoplpushcommand, pubsub
  <2>2. /\ ListsOK(new) /\ e \in 1 .. MaxPushed /\ InList(lists, e)
        /\ \A x : InList(new, x) <=> InList(lists, x)
        /\ \A x \in Key : x # k2 /\ new[x] # << >> => lists[x] # << >>
    <3>1. ListsOK(lists) /\ e = Last(lists[k]) /\ l = Put(lists, k, Front(lists[k])) /\ new = Put(l, k2, <<e>> \o l[k2])
      BY ReadyIs
    <3> HIDE DEF e, l, new
    <3> QED BY <1>2, <3>1, ListsMoved
  <2>3. CASE blockingkeys[k2] # << >>
    <3> DEFINE r == Receiver(k2)
               f == <<"rpoplpush", c, k, e, FALSE>>
               t == Append(s, f)
    <3>1. handleClientsWaitingListPush(k2, e, cl) /\ stack' = t \o Input(r) /\ lists' = lists /\ renamed' = renamed
      BY <1>2, <2>3 DEF rpoplpushcommand
    <3> HIDE DEF e, l, new
    <3>2. /\ r \in Client /\ r \in ToSet(clients) /\ r # c /\ client'[r].bkeys = << >> /\ client'[c].bkeys = << >>
          /\ Input(r) = IF client'[r].buf # << >> THEN << <<"input", r>> >> ELSE << >>
          /\ \A n \in DOMAIN s : Owned(s[n]) => s[n][2] # r
          /\ ClientsOK(clients, client') /\ StackOK(clients, client', s) /\ NoneBlocked(client', s)
          /\ PubOK(clients, client', pubsub_channels, pubsub_patterns)
          /\ BlockOK(clients, client', lists, blockingkeys', order', renamed)
          /\ got' = [got EXCEPT ![e] = @ + 1]
      BY <2>3, <3>1, Served
    <3>3. f \in Frame /\ Owned(f) /\ f[1] = "rpoplpush" /\ f[2] = c /\ f[4] = e /\ ~f[5]
      <4>1. c \in Client
        BY ReadyIs
      <4> QED BY <2>2, <4>1, FramesAre DEF Owned
    <3> HIDE DEF r, f, t
    <3>4. StackOK(clients, client', t) /\ NoneBlocked(client', t) /\ t # Undefined
      <4>1. c \in ToSet(clients) /\ s # Undefined
        BY ReadyIs
      <4> QED BY <3>2, <3>3, <4>1, StackAppend DEF t
    <3>5. s \in Seq(Frame) /\ s # Undefined /\ DataOK(s, lists, pushed, got) /\ pushed \in 0 .. MaxPushed
          /\ MultiOK(s, slaveMulti)
      BY ReadyIs
    <3>6. DataOK(t, lists, pushed, got')
      BY <2>2, <3>2, <3>3, <3>4, <3>5, MovingElement DEF t
    <3>7. MultiOK(t, slaveMulti)
      BY <3>3, <3>5, MultiAppend DEF t
    <3>8. \A n \in DOMAIN t : Owned(t[n]) => t[n][2] # r
      <4>1. DOMAIN t = 1 .. Len(s) + 1 /\ DOMAIN s = 1 .. Len(s) /\ Len(s) \in Nat
            /\ t[Len(s) + 1] = f /\ \A n \in 1 .. Len(s) : t[n] = s[n]
        BY <3>3, <3>5, AppendProperties DEF t
      <4> TAKE n \in DOMAIN t
      <4>2. n = Len(s) + 1 \/ n \in DOMAIN s
        BY <4>1
      <4> QED BY <3>2, <3>3, <4>1, <4>2
    <3>9. StackOK(clients, client', stack') /\ DataOK(stack', lists, pushed, got') /\ MultiOK(stack', slaveMulti)
      BY <3>1, <3>2, <3>4, <3>6, <3>7, <3>8, InputAdded
    <3> QED BY <2>1, <3>1, <3>2, <3>9 DEF At
  <2>4. CASE blockingkeys[k2] = << >>
    <3>1. /\ lists' = new
          /\ renamed' = IF lists'[k] = << >> THEN renamed \ {k} ELSE renamed
          /\ stack' = Freed(Dirtied(s), {e})
          /\ client' = cl /\ blockingkeys' = blockingkeys /\ order' = order /\ got' = got
      <4>1. lists' = LET j == [lists EXCEPT ![k] = Front(@)] IN [j EXCEPT ![k2] = <<e>> \o @]
        BY <1>2, <2>4 DEF rpoplpushcommand
      <4>2. lists' = new
        BY <4>1 DEF Put
      <4> QED BY <1>2, <2>4, <4>2 DEF rpoplpushcommand, blocking
    <3> HIDE DEF e, l, new
    <3>2. s \in Seq(Frame) /\ s # Undefined /\ DataOK(s, lists, pushed, got)
      BY ReadyIs
    <3>3. Alike(stack', s)
      BY <3>1, <3>2, NotedAlike
    <3>4. DataOK(stack', lists', pushed, got)
      <4>1. ASSUME NEW x \in 1 .. MaxPushed
            PROVE  ElementOK(stack', lists', pushed, got[x], x)
        <5>1. ElementOK(s, lists, pushed, got[x], x) /\ (InList(lists, x) <=> InList(lists', x))
          BY <2>2, <3>1, <3>2 DEF DataOK
        <5> QED BY <3>2, <3>3, <5>1, ElementAlike
      <4> QED BY <2>2, <3>1, <3>2, <4>1 DEF DataOK
    <3>5. BlockOK(clients, cl, lists', blockingkeys, order, renamed')
      <4>1. renamed' \in SUBSET Key
        BY <3>1, ReadyIs DEF BlockOK
      <4>2. ASSUME NEW x \in Key, lists'[x] # << >>, blockingkeys[x] # << >>
            PROVE  x \in renamed'
        <5>1. x # k2
          BY <2>4, <4>2
        <5>2. lists[x] # << >>
          BY <2>2, <3>1, <4>2, <5>1
        <5>3. x \in renamed
          BY <4>2, <5>2, ReadyIs DEF BlockOK
        <5> QED BY <3>1, <4>2, <5>3
      <4> QED BY <4>1, <4>2, ReadyIs, BlockLists
    <3> QED BY <2>1, <3>1, <3>3, <3>4, <3>5, ReadyIs, StackAlike, MultiAlike DEF At
  <2> QED BY <2>3, <2>4
<1> QED BY <1>1, <1>2

\* c, m times.
Repeated(c, m) == [n \in 1 .. m |-> c]

\* A sequence of one element m times.
LEMMA RepeatedIs ==
  ASSUME NEW S, NEW c \in S, NEW m \in Nat
  PROVE  /\ Repeated(c, m) \in Seq(S) /\ Len(Repeated(c, m)) = m
         /\ \A n \in 1 .. m : Repeated(c, m)[n] = c
         /\ \A e : Count(Repeated(c, m), e) = IF c = e THEN m ELSE 0
<1>1. Repeated(c, m) \in [1 .. m -> S] /\ \A n \in 1 .. m : Repeated(c, m)[n] = c
  BY DEF Repeated
<1>2. Repeated(c, m) \in Seq(S) /\ Len(Repeated(c, m)) = m
  BY <1>1, SeqDef
<1>3. ASSUME NEW e PROVE Count(Repeated(c, m), e) = IF c = e THEN m ELSE 0
  BY CountSame DEF Repeated
<1> QED BY <1>1, <1>2, <1>3

\* bk2 has c in addition, as often as each key is among ks.
Listed(bk2, bk, c, ks) == bk2 = [k \in Key |-> bk[k] \o [n \in 1 .. Count(ks, k) |-> c]]

\* A client begins to wait for keys that have no lists.
LEMMA BlockedOK ==
  ASSUME NEW cls, NEW cl, NEW ls, NEW bk, NEW ord, NEW ren, BlockOK(cls, cl, ls, bk, ord, ren),
         NEW c \in Client, c \in ToSet(cls), cl[c].bkeys = << >>, ~cl[c].multi,
         NEW ks \in Seq(Key), ks # << >>, \A n \in DOMAIN ks : ls[ks[n]] = << >>,
         NEW cl2, Waiting(cl2, cl, c, ks),
         NEW bk2, Listed(bk2, bk, c, ks)
  PROVE  BlockOK(cls, cl2, ls, bk2, Append(ord, c), ren)
<1> DEFINE more(k) == Repeated(c, Count(ks, k))
           ord2 == Append(ord, c)
<1>1. /\ bk \in [Key -> Seq(Client)] /\ ord \in Seq(Client) /\ IsInjective(ord) /\ ren \subseteq Key
      /\ Len(ord) \in Nat
  BY DEF BlockOK
<1>2. cl2[c].bkeys = ks /\ cl2[c].multi = cl[c].multi /\ \A x \in Client : x # c => cl2[x] = cl[x]
  BY DEF Waiting
<1>3. \A k \in Key : Count(ks, k) \in Nat /\ ((Count(ks, k) = 0) <=> (k \notin ToSet(ks)))
  BY CountIs
<1>4. \A k \in Key : /\ more(k) \in Seq(Client) /\ Len(more(k)) = Count(ks, k)
                     /\ \A n \in 1 .. Count(ks, k) : more(k)[n] = c
                     /\ \A x : Count(more(k), x) = IF c = x THEN Count(ks, k) ELSE 0
  <2> TAKE k \in Key
  <2>1. Count(ks, k) \in Nat
    BY <1>3
  <2> DEFINE m == Count(ks, k)
  <2> HIDE DEF m
  <2>2. m \in Nat
    BY <2>1 DEF m
  <2>3. /\ Repeated(c, m) \in Seq(Client) /\ Len(Repeated(c, m)) = m
        /\ \A n \in 1 .. m : Repeated(c, m)[n] = c
    BY <2>2, RepeatedIs
  <2>4. ASSUME NEW x PROVE Count(Repeated(c, m), x) = IF c = x THEN m ELSE 0
    BY <2>2, CountSame DEF Repeated
  <2> QED BY <2>3, <2>4 DEF m
<1>5. DOMAIN bk2 = Key /\ bk2 = [k \in Key |-> bk2[k]] /\ \A k \in Key : bk2[k] = bk[k] \o more(k)
  BY DEF Listed, Repeated
<1>6. c \notin ToSet(ord)
  BY DEF BlockOK
<1>7. \A k \in Key : Count(bk[k], c) = 0 /\ c \notin ToSet(bk[k])
  <2> TAKE k \in Key
  <2>1. Count(bk[k], c) = Count(<< >>, k)
    BY DEF BlockOK
  <2>2. Count(<< >>, k) = 0
    <3>1. << >> \in Seq(Key) /\ k \notin ToSet(<< >>)
      BY DEF ToSet
    <3> QED BY <3>1, CountIs
  <2>3. bk[k] \in Seq(Client)
    BY <1>1
  <2> QED BY <2>1, <2>2, <2>3, CountIs
<1> HIDE DEF more
<1>8. \A k \in Key : /\ bk2[k] \in Seq(Client) /\ Len(bk[k]) \in Nat
                     /\ DOMAIN bk2[k] = 1 .. Len(bk[k]) + Count(ks, k)
                     /\ DOMAIN bk[k] = 1 .. Len(bk[k])
                     /\ \A n \in DOMAIN bk2[k] : bk2[k][n] = IF n <= Len(bk[k]) THEN bk[k][n] ELSE c
  <2> TAKE k \in Key
  <2>1. bk[k] \in Seq(Client) /\ more(k) \in Seq(Client) /\ Len(more(k)) = Count(ks, k)
    BY <1>1, <1>4
  <2>2. /\ bk2[k] \in Seq(Client) /\ Len(bk2[k]) = Len(bk[k]) + Count(ks, k)
        /\ \A n \in 1 .. Len(bk[k]) + Count(ks, k) : bk2[k][n] = IF n <= Len(bk[k]) THEN bk[k][n] ELSE more(k)[n - Len(bk[k])]
    <3> DEFINE b == bk[k]
               m == more(k)
    <3> HIDE DEF b, m
    <3>1. b \in Seq(Client) /\ m \in Seq(Client) /\ bk2[k] = b \o m /\ Len(m) = Count(ks, k)
      BY <1>5, <2>1 DEF b, m
    <3>2. /\ bk2[k] \in Seq(Client) /\ Len(bk2[k]) = Len(b) + Len(m)
          /\ \A n \in 1 .. Len(b) + Len(m) : bk2[k][n] = IF n <= Len(b) THEN b[n] ELSE m[n - Len(b)]
      <4>1. /\ b \o m \in Seq(Client)
            /\ Len(b \o m) = Len(b) + Len(m)
            /\ \A i \in 1 .. Len(b) + Len(m) : (b \o m)[i] = IF i <= Len(b) THEN b[i] ELSE m[i - Len(b)]
        BY <3>1, ConcatProperties
      <4> QED BY <3>1, <4>1
    <3> QED BY <3>1, <3>2 DEF b, m
  <2>3. Len(bk[k]) \in Nat /\ DOMAIN bk[k] = 1 .. Len(bk[k]) /\ DOMAIN bk2[k] = 1 .. Len(bk[k]) + Count(ks, k)
    BY <2>1, <2>2
  <2>4. \A n \in 1 .. Len(bk[k]) + Count(ks, k) : ~(n <= Len(bk[k])) => more(k)[n - Len(bk[k])] = c
    <3> TAKE n \in 1 .. Len(bk[k]) + Count(ks, k)
    <3> HAVE ~(n <= Len(bk[k]))
    <3>1. n - Len(bk[k]) \in 1 .. Count(ks, k)
      BY <1>3, <2>3
    <3> QED BY <1>4, <3>1
  <2> QED BY <2>2, <2>3, <2>4
<1>9. bk2 \in [Key -> Seq(Client)]
  BY <1>5, <1>8
<1>10. /\ ord2 \in Seq(Client) /\ DOMAIN ord2 = 1 .. Len(ord) + 1 /\ DOMAIN ord = 1 .. Len(ord)
       /\ \A n \in 1 .. Len(ord) : ord2[n] = ord[n]
       /\ ord2[Len(ord) + 1] = c
  BY <1>1, AppendIs
<1>11. \A n \in DOMAIN ord2 : ord2[n] = c => n = Len(ord) + 1
  BY <1>1, <1>6, AppendIs
<1>12. IsInjective(ord2)
  BY <1>1, <1>6, AppendIs
<1>13. \A x : x \in ToSet(ord2) <=> x \in ToSet(ord) \/ x = c
  BY <1>1, AppendIs
<1> HIDE DEF ord2
<1>14. ASSUME NEW x \in Client, NEW k \in Key
       PROVE  Count(bk2[k], x) = Count(cl2[x].bkeys, k)
  <2>1. bk[k] \in Seq(Client) /\ more(k) \in Seq(Client)
    BY <1>1, <1>4
  <2>2. Count(bk2[k], x) = Count(bk[k], x) + Count(more(k), x)
    <3> DEFINE b == bk[k]
               m == more(k)
    <3> HIDE DEF b, m
    <3>1. b \in Seq(Client) /\ m \in Seq(Client) /\ bk2[k] = b \o m
      BY <1>5, <2>1 DEF b, m
    <3>2. Count(bk2[k], x) = Count(b, x) + Count(m, x)
      BY <3>1, CountConcat
    <3> QED BY <3>2 DEF b, m
  <2>3. CASE x = c
    BY <1>2, <1>3, <1>4, <1>7, <2>2, <2>3
  <2>4. CASE x # c
    <3>1. Count(bk[k], x) = Count(cl[x].bkeys, k)
      BY DEF BlockOK
    <3>2. Count(bk[k], x) \in Nat
      BY <2>1, CountIs
    <3> QED BY <1>2, <1>4, <2>2, <2>4, <3>1, <3>2
  <2> QED BY <2>3, <2>4
<1>15. \A x \in Client : cl2[x].bkeys # << >> => x \in ToSet(cls) /\ ~cl2[x].multi
  BY <1>2 DEF BlockOK
<1>16. \A x \in Client : x \in ToSet(ord2) <=> cl2[x].bkeys # << >>
  BY <1>2, <1>13 DEF BlockOK
<1>17. ASSUME NEW k \in Key, NEW i \in DOMAIN bk2[k], NEW j \in DOMAIN bk2[k], i < j,
              NEW p \in DOMAIN ord2, NEW q \in DOMAIN ord2, ord2[p] = bk2[k][i], ord2[q] = bk2[k][j]
       PROVE  p <= q
  <2>1. CASE bk2[k][j] = c
    <3>1. q = Len(ord) + 1
      BY <1>11, <1>17, <2>1
    <3> QED BY <1>1, <1>10, <3>1
  <2>2. CASE bk2[k][j] # c
    <3>0. /\ Len(bk[k]) \in Nat /\ Count(ks, k) \in Nat /\ DOMAIN bk[k] = 1 .. Len(bk[k])
          /\ i \in 1 .. Len(bk[k]) + Count(ks, k) /\ j \in 1 .. Len(bk[k]) + Count(ks, k) /\ i < j
          /\ \A n \in DOMAIN bk2[k] : bk2[k][n] = IF n <= Len(bk[k]) THEN bk[k][n] ELSE c
      BY <1>3, <1>8, <1>17
    <3>1. j \in 1 .. Len(bk[k]) /\ bk2[k][j] = bk[k][j]
      BY ONLY <1>17, <2>2, <3>0
    <3>6. i \in 1 .. Len(bk[k]) /\ i <= Len(bk[k])
      BY ONLY <3>0, <3>1
    <3>2. bk2[k][i] = bk[k][i] /\ i \in DOMAIN bk[k] /\ j \in DOMAIN bk[k]
      BY ONLY <1>17, <3>0, <3>1, <3>6
    <3>3. bk[k][i] \in ToSet(bk[k])
      BY <3>2 DEF ToSet
    <3>4. bk[k][i] # c
      BY <1>7, <3>3
    <3>5. p \in DOMAIN ord /\ q \in DOMAIN ord /\ ord[p] = bk[k][i] /\ ord[q] = bk[k][j]
      BY <1>1, <1>10, <1>17, <2>2, <3>1, <3>2, <3>4
    <3> QED BY <1>17, <3>2, <3>5 DEF BlockOK
  <2> QED BY <2>1, <2>2
<1>18. ASSUME NEW k \in Key, ls[k] # << >>, bk2[k] # << >>
       PROVE  k \in ren
  <2>1. k \notin ToSet(ks)
    BY <1>18 DEF ToSet
  <2>2. bk[k] # << >>
    <3>1. Head(bk2[k]) \in ToSet(bk2[k])
      BY <1>8, <1>18, HeadIs
    <3>2. 1 \in DOMAIN bk2[k]
      BY <1>8, <1>18, HeadIs
    <3>3. Len(bk[k]) # 0
      BY <1>3, <1>8, <2>1, <3>2
    <3> QED BY <3>3
  <2> QED BY <1>18, <2>2 DEF BlockOK
<1>19. BlockOK(cls, cl2, ls, bk2, ord2, ren)
  BY <1>1, <1>9, <1>10, <1>12, <1>14, <1>15, <1>16, <1>17, <1>18 DEF BlockOK
<1> QED BY <1>19 DEF ord2

\* A client is blocked in its first call: nothing is done for it until it is served.
LEMMA BlockedCalls ==
  ASSUME NEW cls, NEW cl, NEW s, StackOK(cls, cl, s), NoneBlocked(cl, s), s # << >>,
         NEW c \in Client, s[Len(s)][1] = "call", s[Len(s)][2] = c,
         \A n \in DOMAIN s : Owned(s[n]) /\ s[n][2] = c => n = Len(s) \/ (n = Len(s) - 1 /\ s[n][1] = "input"),
         NEW cl2, NEW ks, Waiting(cl2, cl, c, ks)
  PROVE  StackOK(cls, cl2, s)
<1>1. /\ s \in Seq(Frame) /\ DOMAIN s = 1 .. Len(s) /\ Len(s) \in Nat /\ Len(s) \in DOMAIN s
  <2>1. s \in Seq(Frame)
    BY DEF StackOK
  <2> QED BY <2>1, HeadIs
<1>2. /\ \A n \in DOMAIN s : s[n][1] = "undefined" => Len(s) = 1
      /\ \A n \in DOMAIN s : s[n][1] = "cron" => n = 1
      /\ \A n \in DOMAIN s : Owned(s[n]) => s[n][2] \in ToSet(cls)
  BY DEF StackOK
<1>3. \A x \in Client : cl2[x].buf = cl[x].buf /\ cl2[x].queue = cl[x].queue /\ cl2[x].multi = cl[x].multi
  BY DEF Waiting
<1>4. \A n \in DOMAIN s : Owned(s[n]) => s[n][2] \in Client
  BY <1>1, FrameKinds
<1>5. ASSUME NEW n \in DOMAIN s, s[n][1] = "input"
      PROVE  /\ cl2[s[n][2]].buf # << >>
             /\ \A m \in DOMAIN s : m < n /\ Owned(s[m]) => s[m][2] # s[n][2]
  <2>1. /\ cl[s[n][2]].buf # << >>
        /\ \A m \in DOMAIN s : m < n /\ Owned(s[m]) => s[m][2] # s[n][2]
    BY <1>5 DEF StackOK
  <2>2. s[n][2] \in Client
    BY <1>4, <1>5 DEF Owned
  <2> QED BY <1>3, <2>1, <2>2
<1>6. ASSUME NEW n \in DOMAIN s, s[n][1] = "exec"
      PROVE  /\ n - 1 \in DOMAIN s /\ s[n - 1][1] = "call" /\ s[n - 1][3][1] = "exec"
             /\ cl2[s[n][2]].multi /\ s[n][3] \in 1 .. Len(cl2[s[n][2]].queue) + 1
             /\ \A m \in DOMAIN s : m < n /\ s[m][1] = "exec" => s[m][2] # s[n][2]
  <2>1. /\ n - 1 \in DOMAIN s /\ s[n - 1][1] = "call" /\ s[n - 1][3][1] = "exec"
        /\ cl[s[n][2]].multi /\ s[n][3] \in 1 .. Len(cl[s[n][2]].queue) + 1
        /\ \A m \in DOMAIN s : m < n /\ s[m][1] = "exec" => s[m][2] # s[n][2]
    BY <1>6 DEF StackOK
  <2>2. s[n][2] \in Client
    BY <1>4, <1>6 DEF Owned
  <2> QED BY <1>3, <2>1, <2>2
<1>7. ASSUME NEW n \in DOMAIN s, Owned(s[n]), cl2[s[n][2]].bkeys # << >>
      PROVE  /\ s[n][1] \in {"input", "call"}
             /\ \A m \in DOMAIN s : n < m => m = Len(s) /\ m = n + 1 /\ s[m][1] = "call" /\ s[m][2] = s[n][2]
  <2>1. s[n][2] = c
    <3>1. SUFFICES ASSUME s[n][2] # c PROVE FALSE
      OBVIOUS
    <3>2. cl2[s[n][2]] = cl[s[n][2]]
      BY <1>4, <1>7, <3>1 DEF Waiting
    <3> QED BY <1>7, <3>2 DEF NoneBlocked
  <2>2. n = Len(s) \/ (n = Len(s) - 1 /\ s[n][1] = "input")
    BY <1>7, <2>1
  <2> QED BY <1>1, <2>1, <2>2
<1> QED BY <1>1, <1>2, <1>5, <1>6, <1>7 DEF StackOK

\* BLPOP and BRPOP: they pop, or the client waits, or in a transaction nothing happens.
LEMMA BlpopKeeps ==
  ASSUME NEW c, NEW cmd, NEW s, NEW cl, Ready(c, cmd, s, cl), NEW ks \in Seq(Key), ks # << >>, NEW timed \in BOOLEAN,
         blockingPopGenericCommand(c, ks, timed, s, cl)
  PROVE  At(stack, client)'
<1> DEFINE full == {n \in DOMAIN ks : lists[ks[n]] # << >>}
<1>1. CASE \E n \in full : Popped(ks[n], s, cl)
  <2>1. PICK n \in full : Popped(ks[n], s, cl)
    BY <1>1
  <2>2. ks[n] \in Key /\ lists[ks[n]] # << >>
    BY <2>1
  <2> QED BY <2>1, <2>2, PoppedKeeps
<1>2. CASE Nothing(s, cl)
  BY <1>2, NothingKeeps DEF Ready
<1>3. CASE /\ full = {} /\ ~client[c].multi
           /\ blockForKeys(c, ks, timed, cl)
           /\ stack' = s
           /\ UNCHANGED <<clients, data, pubsub, slaveMulti>>
  <2>1. /\ client' = [cl EXCEPT ![c].bkeys = ks, ![c].timed = timed]
        /\ Listed(blockingkeys', blockingkeys, c, ks)
        /\ order' = Append(order, c)
        /\ stack' = s /\ clients' = clients /\ lists' = lists /\ pushed' = pushed /\ got' = got
        /\ renamed' = renamed /\ pubsub_channels' = pubsub_channels /\ pubsub_patterns' = pubsub_patterns
        /\ slaveMulti' = slaveMulti
    BY <1>3 DEF blockForKeys, Listed, data, pubsub
  <2>2. c \in Client /\ c \in ToSet(clients) /\ cl[c].bkeys = << >> /\ cl \in [Client -> ClientRec]
    BY ReadyIs
  <2>3. Waiting(client', cl, c, ks)
    BY <2>1, <2>2, WaitingIs
  <2>4. ~cl[c].multi
    BY <1>3 DEF Ready
  <2>5. \A n \in DOMAIN s : Owned(s[n]) /\ s[n][2] = c => n = Len(s) \/ (n = Len(s) - 1 /\ s[n][1] = "input")
    BY <2>4 DEF Ready
  <2>6. /\ StackOK(clients, cl, s) /\ NoneBlocked(cl, s) /\ s # << >> /\ s[Len(s)][1] = "call" /\ s[Len(s)][2] = c
    BY ReadyIs
  <2>7. StackOK(clients, client', s)
    BY <2>2, <2>3, <2>5, <2>6, BlockedCalls
  <2>8. \A n \in DOMAIN ks : lists[ks[n]] = << >>
    BY <1>3
  <2>9. BlockOK(clients, client', lists, blockingkeys', order', renamed)
    <3>1. BlockOK(clients, cl, lists, blockingkeys, order, renamed)
      BY ReadyIs
    <3>2. BlockOK(clients, client', lists, blockingkeys', Append(order, c), renamed)
      BY <2>1, <2>2, <2>3, <2>4, <2>8, <3>1, BlockedOK
    <3> QED BY <2>1, <3>2
  <2>10. ClientsOK(clients, client')
    <3>1. ClientsOK(clients, cl)
      BY ReadyIs
    <3> QED BY <2>2, <2>3, <3>1, WaitingClients
  <2>11. PubOK(clients, client', pubsub_channels, pubsub_patterns)
    <3>1. PubOK(clients, cl, pubsub_channels, pubsub_patterns)
      BY ReadyIs
    <3> QED BY <2>2, <2>3, <3>1, WaitingPub
  <2> QED BY <2>1, <2>7, <2>9, <2>10, <2>11, ReadyIs DEF At
<1> QED BY <1>1, <1>2, <1>3 DEF blockingPopGenericCommand

-----------------------------------------------------------------------------
(* Transactions *)

\* In cl2 the structure of c is rec, and the others are as in cl.
Set(cl2, cl, c, rec) ==
  cl2 \in [Client -> ClientRec] /\ cl2[c] = rec /\ \A x \in Client : x # c => cl2[x] = cl[x]

\* Set, of a structure that is replaced.
LEMMA SetIs ==
  ASSUME NEW cl \in [Client -> ClientRec], NEW c \in Client, NEW rec \in ClientRec
  PROVE  Set([cl EXCEPT ![c] = rec], cl, c, rec)
BY DEF Set

\* A command of a client that does not wait changes what no other call depends on.
LEMMA ClientSet ==
  ASSUME NEW c, NEW cmd, NEW s, NEW cl, Ready(c, cmd, s, cl), NEW rec, NEW cl2, Set(cl2, cl, c, rec),
         rec.buf = cl[c].buf, rec.bkeys = << >>,
         \A x \in ToSet(rec.queue) : x[1] \notin {"exec", "discard", "quit"},
         \/ cl[c].multi => rec.multi /\ rec.queue = cl[c].queue
         \/ cmd[1] = "discard"
  PROVE  /\ ClientsOK(clients, cl2) /\ StackOK(clients, cl2, s)
         /\ BlockOK(clients, cl2, lists, blockingkeys, order, renamed)
<1>1. /\ c \in Client /\ cl[c].bkeys = << >> /\ ClientsOK(clients, cl) /\ StackOK(clients, cl, s)
      /\ BlockOK(clients, cl, lists, blockingkeys, order, renamed) /\ s \in Seq(Frame)
      /\ DOMAIN s = 1 .. Len(s) /\ s[Len(s)][1] = "call"
  BY ReadyIs
<1>2. /\ cl2 \in [Client -> ClientRec] /\ cl2[c] = rec /\ \A x \in Client : x # c => cl2[x] = cl[x]
  BY DEF Set
<1>3. ClientsOK(clients, cl2)
  <2>1. ASSUME NEW x \in Client
        PROVE  /\ Len(cl2[x].buf) <= MaxBuf
               /\ \A y \in ToSet(cl2[x].queue) : y[1] \notin {"exec", "discard", "quit"}
    BY <1>1, <1>2 DEF ClientsOK
  <2> QED BY <1>1, <1>2, <2>1 DEF ClientsOK
<1>4. BlockOK(clients, cl2, lists, blockingkeys, order, renamed)
  <2>1. \A x \in Client : /\ cl2[x].bkeys = cl[x].bkeys
                          /\ cl2[x].bkeys # << >> => cl2[x].multi = cl[x].multi
    BY <1>1, <1>2
  <2> QED BY <1>1, <2>1, BlockClients
<1>5. StackOK(clients, cl2, s)
  <2>1. ASSUME NEW n \in DOMAIN s, Owned(s[n])
        PROVE  /\ s[n][2] \in ToSet(clients)
               /\ cl2[s[n][2]].bkeys # << >> => cl[s[n][2]].bkeys # << >>
               /\ s[n][1] = "input" => cl2[s[n][2]].buf # << >>
               /\ s[n][1] = "exec" => cl2[s[n][2]].multi /\ Len(cl2[s[n][2]].queue) = Len(cl[s[n][2]].queue)
    <3>1. s[n][2] \in ToSet(clients) /\ s[n][2] \in Client
      BY <1>1, <2>1, FrameKinds DEF StackOK
    <3>2. s[n][1] = "input" => cl[s[n][2]].buf # << >>
      BY <1>1 DEF StackOK
    <3>3. s[n][1] = "exec" => cl[s[n][2]].multi
      BY <1>1 DEF StackOK
    <3>4. CASE s[n][2] # c
      BY <1>2, <3>1, <3>2, <3>3, <3>4
    <3>5. CASE s[n][2] = c /\ s[n][1] # "exec"
      BY <1>1, <1>2, <3>1, <3>2, <3>5
    <3>6. CASE s[n][2] = c /\ s[n][1] = "exec"
      <4>1. n # Len(s)
        BY <1>1, <3>6
      <4>2. cmd[1] # "discard"
        BY <2>1, <3>6, <4>1 DEF Ready
      <4> QED BY <1>1, <1>2, <3>1, <3>3, <3>6, <4>2
    <3> QED BY <3>4, <3>5, <3>6
  <2> QED BY <1>1, <2>1, StackClients
<1> QED BY <1>3, <1>4, <1>5

\* MULTI.
LEMMA MultiKeeps ==
  ASSUME NEW c, NEW cmd, NEW s, NEW cl, Ready(c, cmd, s, cl), multiCommand(c, s, cl)
  PROVE  At(stack, client)'
<1> DEFINE rec == [cl[c] EXCEPT !.multi = TRUE]
<1>1. /\ client' = [cl EXCEPT ![c] = rec] /\ stack' = s /\ clients' = clients
      /\ lists' = lists /\ pushed' = pushed /\ got' = got /\ renamed' = renamed
      /\ blockingkeys' = blockingkeys /\ order' = order
      /\ pubsub_channels' = pubsub_channels /\ pubsub_patterns' = pubsub_patterns /\ slaveMulti' = slaveMulti
  BY DEF multiCommand, data, blocking, pubsub
<1>2. c \in Client /\ cl \in [Client -> ClientRec] /\ cl[c] \in ClientRec /\ cl[c].bkeys = << >>
      /\ ClientsOK(clients, cl)
  BY ReadyIs
<1>3. rec \in ClientRec /\ rec.buf = cl[c].buf /\ rec.bkeys = << >> /\ rec.multi /\ rec.queue = cl[c].queue
      /\ rec.chans = cl[c].chans /\ rec.pats = cl[c].pats
  BY <1>2 DEF ClientRec
<1> HIDE DEF rec
<1>4. Set(client', cl, c, rec)
  BY <1>1, <1>2, <1>3, SetIs
<1>5. \A x \in ToSet(rec.queue) : x[1] \notin {"exec", "discard", "quit"}
  BY <1>2, <1>3 DEF ClientsOK
<1>6. /\ ClientsOK(clients, client') /\ StackOK(clients, client', s)
      /\ BlockOK(clients, client', lists, blockingkeys, order, renamed)
  BY <1>3, <1>4, <1>5, ClientSet
<1>7. PubOK(clients, client', pubsub_channels, pubsub_patterns)
  <2>1. \A x \in Client : client'[x].chans = cl[x].chans /\ client'[x].pats = cl[x].pats
    BY <1>3, <1>4 DEF Set
  <2> QED BY <2>1, ReadyIs, PubClients
<1> QED BY <1>1, <1>6, <1>7, ReadyIs DEF At

\* DISCARD.
LEMMA DiscardKeeps ==
  ASSUME NEW c, NEW cmd, NEW s, NEW cl, Ready(c, cmd, s, cl), cmd[1] = "discard", discardCommand(c, s, cl)
  PROVE  At(stack, client)'
<1>1. CASE ~client[c].multi
  BY <1>1, NothingKeeps DEF discardCommand, Ready
<1>2. CASE client[c].multi
  <2> DEFINE rec == [cl[c] EXCEPT !.multi = FALSE, !.queue = << >>]
  <2>1. /\ client' = [cl EXCEPT ![c] = rec] /\ stack' = s /\ clients' = clients
        /\ lists' = lists /\ pushed' = pushed /\ got' = got /\ renamed' = renamed
        /\ blockingkeys' = blockingkeys /\ order' = order
        /\ pubsub_channels' = pubsub_channels /\ pubsub_patterns' = pubsub_patterns /\ slaveMulti' = slaveMulti
    <3>1. client' = [cl EXCEPT ![c].multi = FALSE, ![c].queue = << >>]
      BY <1>2 DEF discardCommand
    <3>2. c \in Client /\ cl \in [Client -> ClientRec]
      BY ReadyIs
    <3>3. client' = [cl EXCEPT ![c] = rec]
      BY <3>1, <3>2
    <3> QED BY <1>2, <3>3 DEF discardCommand, data, blocking, pubsub
  <2>2. c \in Client /\ cl \in [Client -> ClientRec] /\ cl[c] \in ClientRec /\ cl[c].bkeys = << >>
        /\ ClientsOK(clients, cl)
    BY ReadyIs
  <2>3. rec \in ClientRec /\ rec.buf = cl[c].buf /\ rec.bkeys = << >> /\ rec.queue = << >>
        /\ rec.chans = cl[c].chans /\ rec.pats = cl[c].pats
    <3>1. << >> \in Seq(Command) /\ FALSE \in BOOLEAN
      OBVIOUS
    <3> QED BY <2>2, <3>1 DEF ClientRec
  <2> HIDE DEF rec
  <2>4. Set(client', cl, c, rec)
    BY <2>1, <2>2, <2>3, SetIs
  <2>5. \A x \in ToSet(rec.queue) : x[1] \notin {"exec", "discard", "quit"}
    BY <2>3 DEF ToSet
  <2>6. /\ ClientsOK(clients, client') /\ StackOK(clients, client', s)
        /\ BlockOK(clients, client', lists, blockingkeys, order, renamed)
    BY <2>3, <2>4, <2>5, ClientSet
  <2>7. PubOK(clients, client', pubsub_channels, pubsub_patterns)
    <3>1. \A x \in Client : client'[x].chans = cl[x].chans /\ client'[x].pats = cl[x].pats
      BY <2>3, <2>4 DEF Set
    <3> QED BY <3>1, ReadyIs, PubClients
  <2> QED BY <2>1, <2>6, <2>7, ReadyIs DEF At
<1> QED BY <1>1, <1>2

\* EXEC, until its first command.
LEMMA ExecKeeps ==
  ASSUME NEW c, NEW cmd, NEW s, NEW cl, Ready(c, cmd, s, cl), cmd[1] = "exec", execCommand(c, s, cl)
  PROVE  At(stack, client)'
<1>1. CASE ~client[c].multi
  BY <1>1, NothingKeeps DEF execCommand, Ready
<1>2. CASE client[c].multi
  <2> DEFINE f == <<"exec", c, 1>>
             t == Append(s, f)
  <2>1. /\ client' = cl /\ stack' = t /\ slaveMulti' = TRUE /\ clients' = clients
        /\ lists' = lists /\ pushed' = pushed /\ got' = got /\ renamed' = renamed
        /\ blockingkeys' = blockingkeys /\ order' = order
        /\ pubsub_channels' = pubsub_channels /\ pubsub_patterns' = pubsub_patterns
    BY <1>2 DEF execCommand, data, blocking, pubsub
  <2>2. c \in Client /\ c \in ToSet(clients) /\ cl \in [Client -> ClientRec] /\ cl[c].bkeys = << >> /\ cl[c].multi
    <3>1. cl[c].multi = client[c].multi
      BY DEF Ready
    <3> QED BY <1>2, <3>1, ReadyIs
  <2>3. f \in Frame /\ Owned(f) /\ f[1] = "exec" /\ f[2] = c /\ f[3] = 1
    BY <2>2, FramesAre DEF Owned
  <2>4. f[3] \in 1 .. Len(cl[c].queue) + 1
    <3>1. cl[c].queue \in Seq(Command)
      BY <2>2 DEF ClientRec
    <3> QED BY <2>3, <3>1
  <2> HIDE DEF f
  <2>5. /\ s \in Seq(Frame) /\ s # << >> /\ s # Undefined /\ StackOK(clients, cl, s) /\ NoneBlocked(cl, s)
        /\ s[Len(s)][1] = "call" /\ s[Len(s)][3] = cmd /\ DOMAIN s = 1 .. Len(s)
        /\ DataOK(s, lists, pushed, got)
    BY ReadyIs
  <2>6. \A n \in DOMAIN s : s[n][1] = "exec" => s[n][2] # c
    <3> TAKE n \in DOMAIN s
    <3> HAVE s[n][1] = "exec"
    <3>1. n # Len(s) /\ Owned(s[n])
      BY <2>5 DEF Owned
    <3> QED BY <3>1 DEF Ready
  <2>7. StackOK(clients, cl, t) /\ t # Undefined
    BY <2>2, <2>3, <2>4, <2>5, <2>6, StackAppend
  <2>8. DataOK(t, lists, pushed, got)
    BY <2>3, <2>5, <2>7, DataAppend
  <2>9. MultiOK(t, TRUE)
    <3>1. /\ Len(s) \in DOMAIN t /\ Len(s) + 1 \in DOMAIN t /\ t[Len(s)] = s[Len(s)] /\ t[Len(s) + 1] = f
      <4>1. Len(s) \in Nat \ {0}
        BY <2>5, EmptySeq
      <4>2. /\ DOMAIN t = 1 .. Len(s) + 1 /\ t[Len(s) + 1] = f
            /\ \A n \in 1 .. Len(s) : t[n] = s[n]
        BY <2>3, <2>5, AppendIs
      <4> HIDE DEF t
      <4> QED BY <4>1, <4>2
    <3>2. t[Len(s)][1] = "call" /\ t[Len(s)][3][1] = "exec" /\ t[Len(s) + 1][1] = "exec"
      BY <2>3, <2>5, <3>1
    <3> HIDE DEF t
    <3> QED BY <3>1, <3>2 DEF MultiOK
  <2> QED BY <2>1, <2>7, <2>8, <2>9, ReadyIs DEF At
<1> QED BY <1>1, <1>2

-----------------------------------------------------------------------------
(* Subscriptions *)

\* The subscriptions of c are replaced.
Resubscribed(cl, c, chans, pats) == [cl EXCEPT ![c] = [cl[c] EXCEPT !.chans = chans, !.pats = pats]]

\* The channels of a client change: nothing but its subscriptions.
LEMMA SubscriptionSet ==
  ASSUME NEW c, NEW cmd, NEW s, NEW cl, Ready(c, cmd, s, cl), NEW chans \in SUBSET Channel, NEW pats \in SUBSET Pattern,
         NEW cl2, cl2 = Resubscribed(cl, c, chans, pats)
  PROVE  /\ ClientsOK(clients, cl2) /\ StackOK(clients, cl2, s)
         /\ BlockOK(clients, cl2, lists, blockingkeys, order, renamed)
         /\ cl2[c].chans = chans /\ cl2[c].pats = pats
         /\ \A x \in Client : x # c => cl2[x] = cl[x]
<1> DEFINE rec == [cl[c] EXCEPT !.chans = chans, !.pats = pats]
<1>1. c \in Client /\ cl \in [Client -> ClientRec] /\ cl[c] \in ClientRec /\ cl[c].bkeys = << >>
      /\ ClientsOK(clients, cl)
  BY ReadyIs
<1>2. rec \in ClientRec /\ rec.buf = cl[c].buf /\ rec.bkeys = << >> /\ rec.multi = cl[c].multi /\ rec.queue = cl[c].queue
      /\ rec.chans = chans /\ rec.pats = pats
  BY <1>1 DEF ClientRec
<1>3. Set(cl2, cl, c, rec)
  BY <1>1, <1>2, SetIs DEF Resubscribed
<1> HIDE DEF rec
<1>4. \A x \in ToSet(rec.queue) : x[1] \notin {"exec", "discard", "quit"}
  BY <1>1, <1>2 DEF ClientsOK
<1>5. /\ ClientsOK(clients, cl2) /\ StackOK(clients, cl2, s)
      /\ BlockOK(clients, cl2, lists, blockingkeys, order, renamed)
  BY <1>2, <1>3, <1>4, ClientSet
<1> QED BY <1>2, <1>3, <1>5 DEF Set

\* SUBSCRIBE.
LEMMA SubscribeKeeps ==
  ASSUME NEW c, NEW cmd, NEW s, NEW cl, Ready(c, cmd, s, cl), NEW ch \in Channel,
         pubsubSubscribeChannel(c, ch, s, cl)
  PROVE  At(stack, client)'
<1> DEFINE chans == cl[c].chans \cup {ch}
           rec == [cl[c] EXCEPT !.chans = chans, !.pats = cl[c].pats]
<1>1. c \in Client /\ c \in ToSet(clients) /\ cl \in [Client -> ClientRec] /\ cl[c] \in ClientRec
      /\ PubOK(clients, cl, pubsub_channels, pubsub_patterns) /\ cl[c].chans = client[c].chans
  <2>1. cl[c].chans = client[c].chans
    BY DEF Ready
  <2> QED BY <2>1, ReadyIs
<1>2. chans \in SUBSET Channel /\ cl[c].pats \in SUBSET Pattern
  BY <1>1 DEF ClientRec
<1>3. /\ client' = [cl EXCEPT ![c] = rec] /\ stack' = s /\ clients' = clients
      /\ lists' = lists /\ pushed' = pushed /\ got' = got /\ renamed' = renamed
      /\ blockingkeys' = blockingkeys /\ order' = order
      /\ pubsub_patterns' = pubsub_patterns /\ slaveMulti' = slaveMulti
  <2>1. [cl[c] EXCEPT !.chans = chans] = rec
    BY <1>1 DEF ClientRec
  <2>2. client' = [cl EXCEPT ![c] = [cl[c] EXCEPT !.chans = chans]]
    BY <1>1 DEF pubsubSubscribeChannel
  <2> QED BY <2>1, <2>2 DEF pubsubSubscribeChannel, data, blocking
<1>4. pubsub_channels' = IF ch \in cl[c].chans THEN pubsub_channels
                         ELSE [pubsub_channels EXCEPT ![ch] = Append(pubsub_channels[ch], c)]
  BY <1>1 DEF pubsubSubscribeChannel
<1>5. client' = Resubscribed(cl, c, chans, cl[c].pats)
  BY <1>3 DEF Resubscribed
<1>c. chans = cl[c].chans \cup {ch}
  OBVIOUS
<1> HIDE DEF rec, chans
<1>6. /\ ClientsOK(clients, client') /\ StackOK(clients, client', s)
      /\ BlockOK(clients, client', lists, blockingkeys, order, renamed)
      /\ client'[c].chans = chans /\ client'[c].pats = cl[c].pats
      /\ \A x \in Client : x # c => client'[x] = cl[x]
  BY <1>2, <1>5, SubscriptionSet, SMTT(30)
<1>7. /\ pubsub_channels \in [Channel -> Seq(Client)]
      /\ \A h \in Channel : /\ IsInjective(pubsub_channels[h])
                            /\ \A x \in Client : x \in ToSet(pubsub_channels[h]) <=> h \in cl[x].chans
      /\ \A x \in Client, p \in Pattern : <<x, p>> \in ToSet(pubsub_patterns) <=> p \in cl[x].pats
      /\ \A x \in Client : cl[x].chans # {} \/ cl[x].pats # {} => x \in ToSet(clients)
      /\ pubsub_patterns \in Seq(Client \X Pattern) /\ IsInjective(pubsub_patterns)
  BY <1>1 DEF PubOK
<1>8. /\ pubsub_channels' \in [Channel -> Seq(Client)]
      /\ \A h \in Channel : /\ IsInjective(pubsub_channels'[h])
                            /\ \A x \in Client : x \in ToSet(pubsub_channels'[h]) <=> h \in client'[x].chans
  <2>1. CASE ch \in cl[c].chans
    BY <1>4, <1>6, <1>7, <1>c, <2>1
  <2>2. CASE ch \notin cl[c].chans
    <3> DEFINE q == pubsub_channels[ch]
               t == Append(q, c)
    <3>1. q \in Seq(Client) /\ IsInjective(q) /\ c \notin ToSet(q)
      BY <1>1, <1>7, <2>2
    <3> HIDE DEF q
    <3>2. t \in Seq(Client) /\ IsInjective(t) /\ \A x : x \in ToSet(t) <=> x \in ToSet(q) \/ x = c
      BY <1>1, <3>1, AppendIs
    <3> HIDE DEF t
    <3>3. pubsub_channels' = [pubsub_channels EXCEPT ![ch] = t]
      BY <1>4, <2>2 DEF t, q
    <3>4. /\ pubsub_channels' \in [Channel -> Seq(Client)] /\ pubsub_channels'[ch] = t
          /\ \A h \in Channel : h # ch => pubsub_channels'[h] = pubsub_channels[h]
      BY <1>7, <3>2, <3>3
    <3>5. ASSUME NEW h \in Channel
          PROVE  /\ IsInjective(pubsub_channels'[h])
                 /\ \A x \in Client : x \in ToSet(pubsub_channels'[h]) <=> h \in client'[x].chans
      <4>1. CASE h = ch
        <5>1. \A x \in Client : x \in ToSet(q) <=> h \in cl[x].chans
          BY <1>7, <4>1 DEF q
        <5>2. \A x \in Client : x \in ToSet(t) <=> h \in client'[x].chans
          BY <1>1, <1>6, <1>c, <3>2, <4>1, <5>1
        <5> QED BY <3>2, <3>4, <4>1, <5>2
      <4>2. CASE h # ch
        BY <1>1, <1>6, <1>7, <1>c, <3>4, <4>2
      <4> QED BY <4>1, <4>2
    <3> QED BY <3>4, <3>5
  <2> QED BY <2>1, <2>2
<1>9. PubOK(clients, client', pubsub_channels', pubsub_patterns)
  <2>1. \A x \in Client, p \in Pattern : <<x, p>> \in ToSet(pubsub_patterns) <=> p \in client'[x].pats
    BY <1>1, <1>6, <1>7
  <2>2. \A x \in Client : client'[x].chans # {} \/ client'[x].pats # {} => x \in ToSet(clients)
    BY <1>1, <1>6, <1>7
  <2> QED BY <1>7, <1>8, <2>1, <2>2 DEF PubOK
<1> QED BY <1>3, <1>6, <1>9, ReadyIs DEF At

\* UNSUBSCRIBE.
LEMMA UnsubscribeKeeps ==
  ASSUME NEW c, NEW cmd, NEW s, NEW cl, Ready(c, cmd, s, cl), NEW chs \in SUBSET Channel,
         pubsubUnsubscribeChannel(c, chs, s, cl)
  PROVE  At(stack, client)'
<1> DEFINE chans == cl[c].chans \ chs
           rec == [cl[c] EXCEPT !.chans = chans, !.pats = cl[c].pats]
<1>1. c \in Client /\ c \in ToSet(clients) /\ cl \in [Client -> ClientRec] /\ cl[c] \in ClientRec
      /\ PubOK(clients, cl, pubsub_channels, pubsub_patterns) /\ cl[c].chans = client[c].chans
  <2>1. cl[c].chans = client[c].chans
    BY DEF Ready
  <2> QED BY <2>1, ReadyIs
<1>2. chans \in SUBSET Channel /\ cl[c].pats \in SUBSET Pattern
  BY <1>1 DEF ClientRec
<1>3. /\ client' = [cl EXCEPT ![c] = rec] /\ stack' = s /\ clients' = clients
      /\ lists' = lists /\ pushed' = pushed /\ got' = got /\ renamed' = renamed
      /\ blockingkeys' = blockingkeys /\ order' = order
      /\ pubsub_patterns' = pubsub_patterns /\ slaveMulti' = slaveMulti
  <2>1. [cl[c] EXCEPT !.chans = chans] = rec
    BY <1>1 DEF ClientRec
  <2>2. client' = [cl EXCEPT ![c] = [cl[c] EXCEPT !.chans = chans]]
    BY <1>1 DEF pubsubUnsubscribeChannel
  <2> QED BY <2>1, <2>2 DEF pubsubUnsubscribeChannel, data, blocking
<1>4. /\ pubsub_channels' = [h \in Channel |-> pubsub_channels'[h]]
      /\ \A h \in Channel : pubsub_channels'[h] = IF h \in chs \cap cl[c].chans THEN Without(pubsub_channels[h], {c})
                                                  ELSE pubsub_channels[h]
  BY <1>1 DEF pubsubUnsubscribeChannel
<1>5. client' = Resubscribed(cl, c, chans, cl[c].pats)
  BY <1>3 DEF Resubscribed
<1>c. chans = cl[c].chans \ chs
  OBVIOUS
<1> HIDE DEF rec, chans
<1>6. /\ ClientsOK(clients, client') /\ StackOK(clients, client', s)
      /\ BlockOK(clients, client', lists, blockingkeys, order, renamed)
      /\ client'[c].chans = chans /\ client'[c].pats = cl[c].pats
      /\ \A x \in Client : x # c => client'[x] = cl[x]
  BY <1>2, <1>5, SubscriptionSet, SMTT(30)
<1>7. /\ pubsub_channels \in [Channel -> Seq(Client)]
      /\ \A h \in Channel : /\ IsInjective(pubsub_channels[h])
                            /\ \A x \in Client : x \in ToSet(pubsub_channels[h]) <=> h \in cl[x].chans
      /\ \A x \in Client, p \in Pattern : <<x, p>> \in ToSet(pubsub_patterns) <=> p \in cl[x].pats
      /\ \A x \in Client : cl[x].chans # {} \/ cl[x].pats # {} => x \in ToSet(clients)
      /\ pubsub_patterns \in Seq(Client \X Pattern) /\ IsInjective(pubsub_patterns)
  BY <1>1 DEF PubOK
<1>8. ASSUME NEW h \in Channel
      PROVE  /\ pubsub_channels'[h] \in Seq(Client) /\ IsInjective(pubsub_channels'[h])
             /\ \A x \in Client : x \in ToSet(pubsub_channels'[h]) <=> h \in client'[x].chans
  <2>1. CASE h \in chs \cap cl[c].chans
    <3> DEFINE t == Without(pubsub_channels[h], {c})
    <3>1. pubsub_channels[h] \in Seq(Client) /\ IsInjective(pubsub_channels[h])
          /\ \A x \in Client : x \in ToSet(pubsub_channels[h]) <=> h \in cl[x].chans
      BY <1>7
    <3>2. pubsub_channels'[h] = t
      BY <1>4, <2>1
    <3>3. LeftOf(t, Client, pubsub_channels[h], {c})
      BY <3>1, WithoutIs
    <3> HIDE DEF t
    <3>4. t \in Seq(Client) /\ IsInjective(t) /\ ToSet(t) = ToSet(pubsub_channels[h]) \ {c}
      BY <3>1, <3>3 DEF LeftOf
    <3>5. \A x \in Client : x \in ToSet(t) <=> h \in client'[x].chans
      BY <1>6, <1>c, <2>1, <3>1, <3>4
    <3> QED BY <3>2, <3>4, <3>5
  <2>2. CASE h \notin chs \cap cl[c].chans
    <3>1. pubsub_channels'[h] = pubsub_channels[h]
      BY <1>4, <2>2
    <3>2. \A x \in Client : h \in client'[x].chans <=> h \in cl[x].chans
      BY <1>6, <1>c, <2>2
    <3> QED BY <1>7, <3>1, <3>2
  <2> QED BY <2>1, <2>2
<1>9. PubOK(clients, client', pubsub_channels', pubsub_patterns)
  <2>1. \A x \in Client, p \in Pattern : <<x, p>> \in ToSet(pubsub_patterns) <=> p \in client'[x].pats
    BY <1>1, <1>6, <1>7
  <2>2. \A x \in Client : client'[x].chans # {} \/ client'[x].pats # {} => x \in ToSet(clients)
    BY <1>1, <1>6, <1>7
  <2>3. pubsub_channels' \in [Channel -> Seq(Client)]
    BY <1>4, <1>8
  <2> QED BY <1>7, <1>8, <2>1, <2>2, <2>3 DEF PubOK
<1> QED BY <1>3, <1>6, <1>9, ReadyIs DEF At

\* PSUBSCRIBE.
LEMMA PsubscribeKeeps ==
  ASSUME NEW c, NEW cmd, NEW s, NEW cl, Ready(c, cmd, s, cl), NEW p \in Pattern,
         pubsubSubscribePattern(c, p, s, cl)
  PROVE  At(stack, client)'
<1> DEFINE pats == cl[c].pats \cup {p}
           rec == [cl[c] EXCEPT !.chans = cl[c].chans, !.pats = pats]
<1>1. c \in Client /\ c \in ToSet(clients) /\ cl \in [Client -> ClientRec] /\ cl[c] \in ClientRec
      /\ PubOK(clients, cl, pubsub_channels, pubsub_patterns) /\ cl[c].pats = client[c].pats
  <2>1. cl[c].pats = client[c].pats
    BY DEF Ready
  <2> QED BY <2>1, ReadyIs
<1>2. pats \in SUBSET Pattern /\ cl[c].chans \in SUBSET Channel
  BY <1>1 DEF ClientRec
<1>3. /\ client' = [cl EXCEPT ![c] = rec] /\ stack' = s /\ clients' = clients
      /\ lists' = lists /\ pushed' = pushed /\ got' = got /\ renamed' = renamed
      /\ blockingkeys' = blockingkeys /\ order' = order
      /\ pubsub_channels' = pubsub_channels /\ slaveMulti' = slaveMulti
  <2>1. [cl[c] EXCEPT !.pats = pats] = rec
    BY <1>1 DEF ClientRec
  <2>2. client' = [cl EXCEPT ![c] = [cl[c] EXCEPT !.pats = pats]]
    BY <1>1 DEF pubsubSubscribePattern
  <2> QED BY <2>1, <2>2 DEF pubsubSubscribePattern, data, blocking
<1>4. pubsub_patterns' = IF p \in cl[c].pats THEN pubsub_patterns ELSE Append(pubsub_patterns, <<c, p>>)
  BY <1>1 DEF pubsubSubscribePattern
<1>5. client' = Resubscribed(cl, c, cl[c].chans, pats)
  BY <1>3 DEF Resubscribed
<1>c. pats = cl[c].pats \cup {p}
  OBVIOUS
<1> HIDE DEF rec, pats
<1>6. /\ ClientsOK(clients, client') /\ StackOK(clients, client', s)
      /\ BlockOK(clients, client', lists, blockingkeys, order, renamed)
      /\ client'[c].chans = cl[c].chans /\ client'[c].pats = pats
      /\ \A x \in Client : x # c => client'[x] = cl[x]
  BY <1>2, <1>5, SubscriptionSet, SMTT(30)
<1>7. /\ pubsub_channels \in [Channel -> Seq(Client)]
      /\ \A h \in Channel : /\ IsInjective(pubsub_channels[h])
                            /\ \A x \in Client : x \in ToSet(pubsub_channels[h]) <=> h \in cl[x].chans
      /\ \A x \in Client, y \in Pattern : <<x, y>> \in ToSet(pubsub_patterns) <=> y \in cl[x].pats
      /\ \A x \in Client : cl[x].chans # {} \/ cl[x].pats # {} => x \in ToSet(clients)
      /\ pubsub_patterns \in Seq(Client \X Pattern) /\ IsInjective(pubsub_patterns)
  BY <1>1 DEF PubOK
<1>8. /\ pubsub_patterns' \in Seq(Client \X Pattern) /\ IsInjective(pubsub_patterns')
      /\ \A x \in Client, y \in Pattern : <<x, y>> \in ToSet(pubsub_patterns') <=> y \in client'[x].pats
  <2>1. CASE p \in cl[c].pats
    BY <1>1, <1>4, <1>6, <1>7, <1>c, <2>1
  <2>2. CASE p \notin cl[c].pats
    <3> DEFINE q == <<c, p>>
               t == Append(pubsub_patterns, q)
    <3>1. q \in Client \X Pattern /\ q \notin ToSet(pubsub_patterns) /\ q[1] = c /\ q[2] = p
      BY <1>1, <1>7, <2>2
    <3>2. \A x, y : <<x, y>> = q <=> x = c /\ y = p
      OBVIOUS
    <3>3. pubsub_patterns' = t
      BY <1>4, <2>2
    <3> HIDE DEF q
    <3>4. t \in Seq(Client \X Pattern) /\ IsInjective(t) /\ \A x : x \in ToSet(t) <=> x \in ToSet(pubsub_patterns) \/ x = q
      BY <1>7, <3>1, AppendIs
    <3> HIDE DEF t
    <3>5. \A x \in Client, y \in Pattern : <<x, y>> \in ToSet(t) <=> y \in client'[x].pats
      <4> TAKE x \in Client, y \in Pattern
      <4>1. <<x, y>> \in ToSet(t) <=> <<x, y>> \in ToSet(pubsub_patterns) \/ <<x, y>> = q
        BY <3>4
      <4>2. <<x, y>> \in ToSet(pubsub_patterns) <=> y \in cl[x].pats
        BY <1>7
      <4>3. <<x, y>> = q <=> x = c /\ y = p
        BY <3>2
      <4> QED BY <1>6, <1>c, <4>1, <4>2, <4>3
    <3> QED BY <3>3, <3>4, <3>5
  <2> QED BY <2>1, <2>2
<1>9. PubOK(clients, client', pubsub_channels, pubsub_patterns')
  <2>1. \A h \in Channel : /\ IsInjective(pubsub_channels[h])
                           /\ \A x \in Client : x \in ToSet(pubsub_channels[h]) <=> h \in client'[x].chans
    BY <1>1, <1>6, <1>7
  <2>2. \A x \in Client : client'[x].chans # {} \/ client'[x].pats # {} => x \in ToSet(clients)
    BY <1>1, <1>6, <1>7
  <2> QED BY <1>7, <1>8, <2>1, <2>2 DEF PubOK
<1> QED BY <1>3, <1>6, <1>9, ReadyIs DEF At

\* PUNSUBSCRIBE.
LEMMA PunsubscribeKeeps ==
  ASSUME NEW c, NEW cmd, NEW s, NEW cl, Ready(c, cmd, s, cl), NEW ps \in SUBSET Pattern,
         pubsubUnsubscribePattern(c, ps, s, cl)
  PROVE  At(stack, client)'
<1> DEFINE pats == cl[c].pats \ ps
           rec == [cl[c] EXCEPT !.chans = cl[c].chans, !.pats = pats]
<1>1. c \in Client /\ c \in ToSet(clients) /\ cl \in [Client -> ClientRec] /\ cl[c] \in ClientRec
      /\ PubOK(clients, cl, pubsub_channels, pubsub_patterns)
  BY ReadyIs
<1>2. pats \in SUBSET Pattern /\ cl[c].chans \in SUBSET Channel
  BY <1>1 DEF ClientRec
<1>3. /\ client' = [cl EXCEPT ![c] = rec] /\ stack' = s /\ clients' = clients
      /\ lists' = lists /\ pushed' = pushed /\ got' = got /\ renamed' = renamed
      /\ blockingkeys' = blockingkeys /\ order' = order
      /\ pubsub_channels' = pubsub_channels /\ slaveMulti' = slaveMulti
  <2>1. [cl[c] EXCEPT !.pats = pats] = rec
    BY <1>1 DEF ClientRec
  <2>2. client' = [cl EXCEPT ![c] = [cl[c] EXCEPT !.pats = pats]]
    BY <1>1 DEF pubsubUnsubscribePattern
  <2> QED BY <2>1, <2>2 DEF pubsubUnsubscribePattern, data, blocking
<1>4. pubsub_patterns' = Without(pubsub_patterns, {c} \X ps)
  BY DEF pubsubUnsubscribePattern
<1>5. client' = Resubscribed(cl, c, cl[c].chans, pats)
  BY <1>3 DEF Resubscribed
<1>c. pats = cl[c].pats \ ps
  OBVIOUS
<1> HIDE DEF rec, pats
<1>6. /\ ClientsOK(clients, client') /\ StackOK(clients, client', s)
      /\ BlockOK(clients, client', lists, blockingkeys, order, renamed)
      /\ client'[c].chans = cl[c].chans /\ client'[c].pats = pats
      /\ \A x \in Client : x # c => client'[x] = cl[x]
  BY <1>2, <1>5, SubscriptionSet, SMTT(30)
<1>7. /\ pubsub_channels \in [Channel -> Seq(Client)]
      /\ \A h \in Channel : /\ IsInjective(pubsub_channels[h])
                            /\ \A x \in Client : x \in ToSet(pubsub_channels[h]) <=> h \in cl[x].chans
      /\ \A x \in Client, y \in Pattern : <<x, y>> \in ToSet(pubsub_patterns) <=> y \in cl[x].pats
      /\ \A x \in Client : cl[x].chans # {} \/ cl[x].pats # {} => x \in ToSet(clients)
      /\ pubsub_patterns \in Seq(Client \X Pattern) /\ IsInjective(pubsub_patterns)
  BY <1>1 DEF PubOK
<1>8. /\ pubsub_patterns' \in Seq(Client \X Pattern) /\ IsInjective(pubsub_patterns')
      /\ \A x \in Client, y \in Pattern : <<x, y>> \in ToSet(pubsub_patterns') <=> y \in client'[x].pats
  <2> DEFINE gone == {c} \X ps
             t == Without(pubsub_patterns, gone)
  <2>1. LeftOf(t, Client \X Pattern, pubsub_patterns, gone)
    BY <1>7, WithoutIs
  <2>2. \A x, y : <<x, y>> \in gone <=> x = c /\ y \in ps
    OBVIOUS
  <2>3. pubsub_patterns' = t
    BY <1>4
  <2> HIDE DEF gone, t
  <2>4. t \in Seq(Client \X Pattern) /\ IsInjective(t) /\ ToSet(t) = ToSet(pubsub_patterns) \ gone
    BY <1>7, <2>1 DEF LeftOf
  <2>5. ASSUME NEW x \in Client, NEW y \in Pattern
        PROVE  <<x, y>> \in ToSet(t) <=> y \in client'[x].pats
    <3>1. <<x, y>> \in ToSet(t) <=> <<x, y>> \in ToSet(pubsub_patterns) /\ ~(x = c /\ y \in ps)
      BY <2>2, <2>4
    <3>2. <<x, y>> \in ToSet(pubsub_patterns) <=> y \in cl[x].pats
      BY <1>7
    <3> QED BY <1>6, <1>c, <3>1, <3>2
  <2> QED BY <2>3, <2>4, <2>5
<1>9. PubOK(clients, client', pubsub_channels, pubsub_patterns')
  <2>1. \A h \in Channel : /\ IsInjective(pubsub_channels[h])
                           /\ \A x \in Client : x \in ToSet(pubsub_channels[h]) <=> h \in client'[x].chans
    BY <1>1, <1>6, <1>7
  <2>2. \A x \in Client : client'[x].chans # {} \/ client'[x].pats # {} => x \in ToSet(clients)
    BY <1>1, <1>6, <1>7
  <2> QED BY <1>7, <1>8, <2>1, <2>2 DEF PubOK
<1> QED BY <1>3, <1>6, <1>9, ReadyIs DEF At
\* Every command.
LEMMA ProcKeeps ==
  ASSUME NEW c, NEW cmd, NEW s, NEW cl, Ready(c, cmd, s, cl), Proc(c, cmd, s, cl)
  PROVE  At(stack, client)'
<1>1. WellFormed(cmd)
  BY ClientsProgramAssumption DEF Ready
<1>2. CASE cmd[1] = "push" /\ pushGenericCommand(c, cmd[2], s, cl)
  <2>1. cmd[2] \in Key
    BY <1>1, <1>2 DEF WellFormed
  <2> QED BY <1>2, <2>1, PushKeeps
<1>3. CASE cmd[1] = "pop" /\ popGenericCommand(cmd[2], s, cl)
  <2>1. cmd[2] \in Key
    BY <1>1, <1>3 DEF WellFormed
  <2> QED BY <1>3, <2>1, PopKeeps
<1>4. CASE cmd[1] = "blpop" /\ blockingPopGenericCommand(c, cmd[2], cmd[3], s, cl)
  <2>1. cmd[2] \in Seq(Key) /\ cmd[2] # << >> /\ cmd[3] \in BOOLEAN
    BY <1>1, <1>4 DEF WellFormed
  <2> QED BY <1>4, <2>1, BlpopKeeps
<1>5. CASE cmd[1] = "rpoplpush" /\ rpoplpushcommand(c, cmd[2], cmd[3], s, cl)
  <2>1. cmd[2] \in Key /\ cmd[3] \in Key
    BY <1>1, <1>5 DEF WellFormed
  <2> QED BY <1>5, <2>1, RpoplpushKeeps
<1>6. CASE cmd[1] = "rename" /\ renameCommand(cmd[2], cmd[3], s, cl)
  <2>1. cmd[2] \in Key /\ cmd[3] \in Key
    BY <1>1, <1>6 DEF WellFormed
  <2> QED BY <1>6, <2>1, RenameKeeps
<1>7. CASE cmd[1] = "multi" /\ multiCommand(c, s, cl)
  BY <1>7, MultiKeeps
<1>8. CASE cmd[1] = "discard" /\ discardCommand(c, s, cl)
  BY <1>8, DiscardKeeps
<1>9. CASE cmd[1] = "exec" /\ execCommand(c, s, cl)
  BY <1>9, ExecKeeps
<1>10. CASE cmd[1] = "subscribe" /\ pubsubSubscribeChannel(c, cmd[2], s, cl)
  <2>1. cmd[2] \in Channel
    BY <1>1, <1>10 DEF WellFormed
  <2> QED BY <1>10, <2>1, SubscribeKeeps
<1>11. CASE cmd[1] = "unsubscribe" /\ pubsubUnsubscribeChannel(c, cmd[2], s, cl)
  <2>1. cmd[2] \in SUBSET Channel
    BY <1>1, <1>11 DEF WellFormed
  <2> QED BY <1>11, <2>1, UnsubscribeKeeps
<1>12. CASE cmd[1] = "psubscribe" /\ pubsubSubscribePattern(c, cmd[2], s, cl)
  <2>1. cmd[2] \in Pattern
    BY <1>1, <1>12 DEF WellFormed
  <2> QED BY <1>12, <2>1, PsubscribeKeeps
<1>13. CASE cmd[1] = "punsubscribe" /\ pubsubUnsubscribePattern(c, cmd[2], s, cl)
  <2>1. cmd[2] \in SUBSET Pattern
    BY <1>1, <1>13 DEF WellFormed
  <2> QED BY <1>13, <2>1, PunsubscribeKeeps
<1> QED BY <1>2, <1>3, <1>4, <1>5, <1>6, <1>7, <1>8, <1>9, <1>10, <1>11, <1>12, <1>13 DEF Proc

-----------------------------------------------------------------------------
(* Steps *)

\* The innermost call of a stack is for a client that is not blocked, or is no command: no
\* call is for a blocked client.
LEMMA TopUnblocked ==
  ASSUME NEW cls, NEW cl, NEW s, StackOK(cls, cl, s), s # << >>, Last(s)[1] # "call",
         Last(s)[1] = "input" => cl[Last(s)[2]].bkeys = << >>
  PROVE  NoneBlocked(cl, s)
<1>1. /\ s \in Seq(Frame) /\ DOMAIN s = 1 .. Len(s) /\ Len(s) \in DOMAIN s /\ Last(s) = s[Len(s)] /\ Len(s) \in Nat
  <2>1. s \in Seq(Frame)
    BY DEF StackOK
  <2> QED BY <2>1, Recombined
<1>2. ASSUME NEW n \in DOMAIN s, Owned(s[n]), cl[s[n][2]].bkeys # << >>
      PROVE  FALSE
  <2>1. /\ s[n][1] \in {"input", "call"}
        /\ \A m \in DOMAIN s : n < m => m = Len(s) /\ m = n + 1 /\ s[m][1] = "call" /\ s[m][2] = s[n][2]
    BY <1>2 DEF StackOK
  <2>2. CASE n = Len(s)
    BY <1>1, <1>2, <2>1, <2>2
  <2>3. CASE n # Len(s)
    <3>1. n < Len(s)
      BY <1>1, <2>3
    <3> QED BY <1>1, <2>1, <3>1
  <2> QED BY <2>2, <2>3
<1> QED BY <1>2 DEF NoneBlocked

\* Calls below the innermost are no undefined behaviour, nor is a stack with a call.
LEMMA NotUndefined ==
  ASSUME NEW cls, NEW cl, NEW s, StackOK(cls, cl, s), s # << >>, Last(s)[1] # "undefined"
  PROVE  s # Undefined /\ Front(s) # Undefined
<1>1. /\ s \in Seq(Frame) /\ Front(s) \in Seq(Frame) /\ DOMAIN s = 1 .. Len(s) /\ Len(s) \in DOMAIN s
      /\ Last(s) = s[Len(s)] /\ Len(Front(s)) = Len(s) - 1
      /\ \A n \in DOMAIN Front(s) : n \in DOMAIN s /\ Front(s)[n] = s[n]
  <2>1. s \in Seq(Frame)
    BY DEF StackOK
  <2> QED BY <2>1, Recombined
<1>2. Len(Undefined) = 1 /\ Undefined[1] = <<"undefined">> /\ Undefined[1][1] = "undefined" /\ 1 \in DOMAIN Undefined
  BY DEF Undefined
<1>3. s # Undefined
  BY <1>1, <1>2
<1>4. ASSUME Front(s) = Undefined PROVE FALSE
  <2>1. 1 \in DOMAIN s /\ s[1][1] = "undefined"
    BY <1>1, <1>2, <1>4
  <2>2. Len(s) = 1
    BY <2>1 DEF StackOK
  <2> QED BY <1>1, <1>2, <1>4, <2>2
<1> QED BY <1>3, <1>4

\* A frame goes that holds no node, and whose end sends nothing.
LEMMA TopGoes ==
  ASSUME NEW s, NEW cl, At(s, cl), s # << >>,
         Last(s)[1] \in {"input", "cron"} \/ (Last(s)[1] = "call" /\ (Last(s)[3][1] = "exec" => ~Last(s)[4]))
  PROVE  At(Front(s), cl) /\ Front(s) # Undefined
<1> DEFINE t == Front(s)
           f == Last(s)
<1>1. /\ StackOK(clients, cl, s) /\ DataOK(s, lists, pushed, got) /\ MultiOK(s, slaveMulti)
      /\ ClientsOK(clients, cl) /\ BlockOK(clients, cl, lists, blockingkeys, order, renamed)
      /\ PubOK(clients, cl, pubsub_channels, pubsub_patterns)
  BY DEF At
<1>2. s \in Seq(Frame)
  BY <1>1 DEF StackOK
<1>3. t \in Seq(Frame) /\ f \in Frame /\ s = Append(t, f) /\ Last(s) = f
  BY <1>2, Recombined
<1>4. s # Undefined /\ t # Undefined
  BY <1>1, NotUndefined
<1>5. StackOK(clients, cl, t)
  BY <1>1, StackPop
<1>6. MultiOK(t, slaveMulti)
  BY <1>1, <1>2, <1>4, MultiPop
<1> HIDE DEF t, f
<1>7. DataOK(t, lists, pushed, got)
  <2>1. f[1] # "rpoplpush"
    BY <1>3
  <2> QED BY <1>1, <1>3, <1>4, <2>1, DataAppend
<1>8. At(t, cl)
  BY <1>1, <1>5, <1>6, <1>7 DEF At
<1> QED BY <1>4, <1>8 DEF t

\* A call begins.
LEMMA CallBegins ==
  ASSUME NEW c \in Client, NEW cmd \in Command, cmd[1] # "quit", NEW s, s # Undefined, NEW cl, At(s, cl), NoneBlocked(cl, s),
         c \in ToSet(clients), cl[c].bkeys = << >>,
         \A x \in Client : x # c => cl[x] = client[x],
         cl[c].multi = client[c].multi, cl[c].chans = client[c].chans, cl[c].pats = client[c].pats,
         \/ cl[c].multi /\ cmd[1] \notin {"exec", "discard"}
         \/ \A n \in DOMAIN s : Owned(s[n]) /\ s[n][2] = c => n = Len(s) /\ s[n][1] = "input",
         call(c, cmd, s, cl)
  PROVE  At(stack, client)'
<1> DEFINE f == <<"call", c, cmd, FALSE>>
           t == Append(s, f)
<1>1. /\ StackOK(clients, cl, s) /\ DataOK(s, lists, pushed, got) /\ MultiOK(s, slaveMulti)
      /\ ClientsOK(clients, cl) /\ BlockOK(clients, cl, lists, blockingkeys, order, renamed)
      /\ PubOK(clients, cl, pubsub_channels, pubsub_patterns)
  BY DEF At
<1>2. s \in Seq(Frame)
  BY <1>1 DEF StackOK
<1>3. f \in Frame /\ Owned(f) /\ f[1] = "call" /\ f[2] = c /\ f = <<"call", c, cmd, FALSE>>
  <2>1. FALSE \in BOOLEAN
    OBVIOUS
  <2> QED BY <2>1, FramesAre DEF Owned
<1>4. Proc(c, cmd, t, cl)
  BY DEF call
<1> HIDE DEF f
<1>5. StackOK(clients, cl, t) /\ NoneBlocked(cl, t) /\ t # Undefined
  <2>1. f \in Frame /\ Owned(f) /\ f[2] \in ToSet(clients) /\ cl[f[2]].bkeys = << >>
    BY <1>3
  <2>2. f[1] # "input" /\ f[1] # "exec"
    BY <1>3
  <2> HIDE DEF t
  <2>3. StackOK(clients, cl, Append(s, f)) /\ NoneBlocked(cl, Append(s, f)) /\ Append(s, f) # Undefined
    BY <1>1, <2>1, <2>2, StackAppend
  <2> QED BY <2>3 DEF t
<1>6. DataOK(t, lists, pushed, got)
  BY <1>1, <1>2, <1>3, <1>5, DataAppend
<1>7. MultiOK(t, slaveMulti)
  BY <1>1, <1>2, <1>3, MultiAppend
<1>8. /\ t \in Seq(Frame) /\ DOMAIN t = 1 .. Len(s) + 1 /\ DOMAIN s = 1 .. Len(s) /\ Len(s) \in Nat
      /\ t[Len(s) + 1] = f /\ \A n \in 1 .. Len(s) : t[n] = s[n]
  <2>1. f \in Frame
    BY <1>3
  <2> QED BY <1>2, <2>1, AppendIs
<1> HIDE DEF t
<1>9. Len(t) = Len(s) + 1 /\ t # << >>
  BY <1>8
<1>10. \/ cl[c].multi /\ cmd[1] \notin {"exec", "discard"}
       \/ \A n \in DOMAIN t : Owned(t[n]) /\ t[n][2] = c => n = Len(t) \/ (n = Len(t) - 1 /\ t[n][1] = "input")
  <2>1. ASSUME \A n \in DOMAIN s : Owned(s[n]) /\ s[n][2] = c => n = Len(s) /\ s[n][1] = "input",
               NEW n \in DOMAIN t, Owned(t[n]), t[n][2] = c
        PROVE  n = Len(t) \/ (n = Len(t) - 1 /\ t[n][1] = "input")
    <3>1. n = Len(s) + 1 \/ n \in 1 .. Len(s)
      BY <1>8
    <3>2. n \in 1 .. Len(s) => n = Len(s) /\ t[n][1] = "input"
      BY <1>8, <2>1
    <3> QED BY <1>8, <1>9, <3>1, <3>2
  <2> QED BY <2>1
<1>11. At(t, cl)
  BY <1>1, <1>5, <1>6, <1>7 DEF At
<1>12. Ready(c, cmd, t, cl)
  BY <1>3, <1>5, <1>8, <1>9, <1>10, <1>11 DEF Ready
<1> QED BY <1>4, <1>12, ProcKeeps

\* What the server has of a client goes, while no call is under way for it.
LEMMA FreeKeeps ==
  ASSUME NEW c \in Client, NEW t, At(t, client), \A n \in DOMAIN t : Owned(t[n]) => t[n][2] # c,
         freeClient(c), stack' = t
  PROVE  At(stack, client)'
<1>1. /\ StackOK(clients, client, t) /\ DataOK(t, lists, pushed, got) /\ MultiOK(t, slaveMulti)
      /\ ClientsOK(clients, client) /\ BlockOK(clients, client, lists, blockingkeys, order, renamed)
      /\ PubOK(clients, client, pubsub_channels, pubsub_patterns)
  BY DEF At
<1>2. /\ blockingkeys' = Unlisted(blockingkeys, c) /\ order' = Without(order, {c})
      /\ pubsub_channels' = [ch \in Channel |-> Without(pubsub_channels[ch], {c})]
      /\ pubsub_patterns' = Without(pubsub_patterns, {c} \X Pattern)
      /\ clients' = Without(clients, {c})
      /\ client' = [client EXCEPT ![c] = NewClient]
      /\ lists' = lists /\ pushed' = pushed /\ got' = got /\ renamed' = renamed /\ slaveMulti' = slaveMulti
  BY DEF freeClient, Unblocked, Unlisted, data
<1>3. client \in [Client -> ClientRec] /\ clients \in Seq(Client) /\ IsInjective(clients)
  BY <1>1 DEF ClientsOK
<1>4. LeftOf(clients', Client, clients, {c})
  BY <1>2, <1>3, WithoutIs
<1>5. clients' \in Seq(Client) /\ IsInjective(clients') /\ ToSet(clients') = ToSet(clients) \ {c}
  BY <1>3, <1>4 DEF LeftOf
<1>6. /\ NewClient \in ClientRec /\ NewClient.bkeys = << >> /\ NewClient.buf = << >> /\ NewClient.queue = << >>
      /\ NewClient.chans = {} /\ NewClient.pats = {}
  <2>1. << >> \in Seq(Command) /\ << >> \in Seq(Key) /\ FALSE \in BOOLEAN
    OBVIOUS
  <2> QED BY <2>1 DEF NewClient, ClientRec
<1>7. client' \in [Client -> ClientRec] /\ client'[c] = NewClient /\ \A x \in Client : x # c => client'[x] = client[x]
  BY <1>2, <1>3, <1>6
<1>8. ClientsOK(clients', client')
  <2>1. ASSUME NEW x \in Client
        PROVE  /\ Len(client'[x].buf) <= MaxBuf
               /\ \A cmd \in ToSet(client'[x].queue) : cmd[1] \notin {"exec", "discard", "quit"}
    <3>1. CASE x = c
      <4>1. Len(<< >>) = 0 /\ ToSet(<< >>) = {}
        BY DEF ToSet
      <4> QED BY <1>6, <1>7, <3>1, <4>1, ClientsBoundAssumption
    <3>2. CASE x # c
      BY <1>1, <1>7, <3>2 DEF ClientsOK
    <3> QED BY <3>1, <3>2
  <2> QED BY <1>5, <1>7, <2>1 DEF ClientsOK
<1>9. StackOK(clients', client', t)
  <2>1. ASSUME NEW n \in DOMAIN t, Owned(t[n])
        PROVE  /\ t[n][2] \in ToSet(clients')
               /\ client'[t[n][2]].bkeys # << >> => client[t[n][2]].bkeys # << >>
               /\ t[n][1] = "input" => client'[t[n][2]].buf # << >>
               /\ t[n][1] = "exec" => client'[t[n][2]].multi /\ Len(client'[t[n][2]].queue) = Len(client[t[n][2]].queue)
    <3>1. t[n] \in Frame
      BY <1>1 DEF StackOK
    <3>2. t[n][2] \in Client /\ t[n][2] # c /\ t[n][2] \in ToSet(clients)
      BY <1>1, <2>1, <3>1, FrameKinds DEF StackOK
    <3>3. client'[t[n][2]] = client[t[n][2]]
      BY <1>7, <3>2
    <3>4. t[n][1] = "input" => client[t[n][2]].buf # << >>
      BY <1>1 DEF StackOK
    <3>5. t[n][1] = "exec" => client[t[n][2]].multi
      BY <1>1 DEF StackOK
    <3> QED BY <1>5, <3>2, <3>3, <3>4, <3>5
  <2> QED BY <1>1, <2>1, StackClients
<1>10. BlockOK(clients', client', lists, blockingkeys', order', renamed)
  <2>1. \A x \in Client : x # c => (x \in ToSet(clients) => x \in ToSet(clients')) /\ client'[x] = client[x]
    BY <1>5, <1>7
  <2>2. client'[c].bkeys = << >>
    BY <1>6, <1>7
  <2>3. BlockOK(clients, client, lists, blockingkeys, order, renamed)
    BY <1>1
  <2>4. BlockOK(clients', client', lists, Unlisted(blockingkeys, c), Without(order, {c}), renamed)
    BY <2>1, <2>2, <2>3, UnblockedOK
  <2> QED BY <1>2, <2>4
<1>11. PubOK(clients', client', pubsub_channels', pubsub_patterns')
  <2>1. /\ pubsub_channels \in [Channel -> Seq(Client)]
        /\ \A h \in Channel : /\ IsInjective(pubsub_channels[h])
                              /\ \A x \in Client : x \in ToSet(pubsub_channels[h]) <=> h \in client[x].chans
        /\ \A x \in Client, p \in Pattern : <<x, p>> \in ToSet(pubsub_patterns) <=> p \in client[x].pats
        /\ \A x \in Client : client[x].chans # {} \/ client[x].pats # {} => x \in ToSet(clients)
        /\ pubsub_patterns \in Seq(Client \X Pattern) /\ IsInjective(pubsub_patterns)
    BY <1>1 DEF PubOK
  <2>2. ASSUME NEW h \in Channel
        PROVE  /\ pubsub_channels'[h] \in Seq(Client) /\ IsInjective(pubsub_channels'[h])
               /\ \A x \in Client : x \in ToSet(pubsub_channels'[h]) <=> h \in client'[x].chans
    <3> DEFINE q == Without(pubsub_channels[h], {c})
    <3>1. pubsub_channels'[h] = q
      BY <1>2
    <3>2. LeftOf(q, Client, pubsub_channels[h], {c})
      BY <2>1, WithoutIs
    <3> HIDE DEF q
    <3>3. q \in Seq(Client) /\ IsInjective(q) /\ ToSet(q) = ToSet(pubsub_channels[h]) \ {c}
      BY <2>1, <3>2 DEF LeftOf
    <3>4. \A x \in Client : x \in ToSet(q) <=> h \in client'[x].chans
      BY <1>6, <1>7, <2>1, <3>3
    <3> QED BY <3>1, <3>3, <3>4
  <2>3. pubsub_channels' \in [Channel -> Seq(Client)]
    <3>1. DOMAIN pubsub_channels' = Channel /\ pubsub_channels' = [h \in Channel |-> pubsub_channels'[h]]
      BY <1>2
    <3> QED BY <2>2, <3>1
  <2>4. /\ pubsub_patterns' \in Seq(Client \X Pattern) /\ IsInjective(pubsub_patterns')
        /\ \A x \in Client, p \in Pattern : <<x, p>> \in ToSet(pubsub_patterns') <=> p \in client'[x].pats
    <3> DEFINE gone == {c} \X Pattern
               q == Without(pubsub_patterns, gone)
    <3>1. pubsub_patterns' = q
      BY <1>2
    <3>2. LeftOf(q, Client \X Pattern, pubsub_patterns, gone)
      BY <2>1, WithoutIs
    <3>3. \A x, y : <<x, y>> \in gone <=> x = c /\ y \in Pattern
      OBVIOUS
    <3> HIDE DEF gone, q
    <3>4. q \in Seq(Client \X Pattern) /\ IsInjective(q) /\ ToSet(q) = ToSet(pubsub_patterns) \ gone
      BY <2>1, <3>2 DEF LeftOf
    <3>5. ASSUME NEW x \in Client, NEW y \in Pattern
          PROVE  <<x, y>> \in ToSet(q) <=> y \in client'[x].pats
      <4>1. <<x, y>> \in ToSet(q) <=> <<x, y>> \in ToSet(pubsub_patterns) /\ x # c
        BY <3>3, <3>4
      <4>2. <<x, y>> \in ToSet(pubsub_patterns) <=> y \in client[x].pats
        BY <2>1
      <4> QED BY <1>6, <1>7, <4>1, <4>2
    <3> QED BY <3>1, <3>4, <3>5
  <2>5. \A x \in Client : client'[x].chans # {} \/ client'[x].pats # {} => x \in ToSet(clients')
    BY <1>5, <1>6, <1>7, <2>1
  <2> QED BY <2>2, <2>3, <2>4, <2>5 DEF PubOK
<1> QED BY <1>1, <1>2, <1>8, <1>9, <1>10, <1>11 DEF At

-----------------------------------------------------------------------------
(* Input *)

\* The input buffer, or the queue of the transaction, of a client changes, in a call that is
\* the only one for it.
LEMMA BuffersSet ==
  ASSUME NEW s, NEW cl, At(s, cl), NEW c \in Client, NEW rec \in ClientRec, NEW cl2, Set(cl2, cl, c, rec),
         Len(rec.buf) <= MaxBuf, \A x \in ToSet(rec.queue) : x[1] \notin {"exec", "discard", "quit"},
         rec.bkeys = cl[c].bkeys, rec.multi = cl[c].multi, rec.chans = cl[c].chans, rec.pats = cl[c].pats,
         \A n \in DOMAIN s : Owned(s[n]) /\ s[n][2] = c => s[n][1] = "input" /\ rec.buf # << >>
  PROVE  At(s, cl2)
<1>1. /\ StackOK(clients, cl, s) /\ DataOK(s, lists, pushed, got) /\ MultiOK(s, slaveMulti)
      /\ ClientsOK(clients, cl) /\ BlockOK(clients, cl, lists, blockingkeys, order, renamed)
      /\ PubOK(clients, cl, pubsub_channels, pubsub_patterns)
  BY DEF At
<1>2. cl2 \in [Client -> ClientRec] /\ cl2[c] = rec /\ \A x \in Client : x # c => cl2[x] = cl[x]
  BY DEF Set
<1>3. ClientsOK(clients, cl2)
  BY <1>1, <1>2 DEF ClientsOK
<1>4. StackOK(clients, cl2, s)
  <2>1. ASSUME NEW n \in DOMAIN s, Owned(s[n])
        PROVE  /\ s[n][2] \in ToSet(clients)
               /\ cl2[s[n][2]].bkeys # << >> => cl[s[n][2]].bkeys # << >>
               /\ s[n][1] = "input" => cl2[s[n][2]].buf # << >>
               /\ s[n][1] = "exec" => cl2[s[n][2]].multi /\ Len(cl2[s[n][2]].queue) = Len(cl[s[n][2]].queue)
    <3>1. s[n] \in Frame
      BY <1>1 DEF StackOK
    <3>2. s[n][2] \in Client /\ s[n][2] \in ToSet(clients)
      BY <1>1, <2>1, <3>1, FrameKinds DEF StackOK
    <3>3. CASE s[n][2] = c
      BY <1>2, <2>1, <3>2, <3>3
    <3>4. CASE s[n][2] # c
      <4>1. cl2[s[n][2]] = cl[s[n][2]]
        BY <1>2, <3>2, <3>4
      <4>2. s[n][1] = "input" => cl[s[n][2]].buf # << >>
        BY <1>1 DEF StackOK
      <4>3. s[n][1] = "exec" => cl[s[n][2]].multi
        BY <1>1 DEF StackOK
      <4> QED BY <3>2, <4>1, <4>2, <4>3
    <3> QED BY <3>3, <3>4
  <2> QED BY <1>1, <2>1, StackClients
<1>5. BlockOK(clients, cl2, lists, blockingkeys, order, renamed)
  <2>1. \A x \in Client : cl2[x].bkeys = cl[x].bkeys /\ cl2[x].multi = cl[x].multi
    BY <1>2
  <2> QED BY <1>1, <2>1, BlockClients
<1>6. PubOK(clients, cl2, pubsub_channels, pubsub_patterns)
  <2>1. \A x \in Client : cl2[x].chans = cl[x].chans /\ cl2[x].pats = cl[x].pats
    BY <1>2
  <2> QED BY <1>1, <2>1, PubClients
<1> QED BY <1>1, <1>3, <1>4, <1>5, <1>6 DEF At

\* The innermost call reads from a client: there is a command, and no other call for the client.
LEMMA TopInput ==
  ASSUME NEW s, NEW cl, At(s, cl), s # << >>, Last(s)[1] = "input"
  PROVE  /\ Last(s)[2] \in Client /\ Last(s)[2] \in ToSet(clients) /\ cl[Last(s)[2]].buf # << >>
         /\ cl[Last(s)[2]] \in ClientRec
         /\ \A n \in DOMAIN s : Owned(s[n]) /\ s[n][2] = Last(s)[2] => n = Len(s)
         /\ \A n \in DOMAIN Front(s) : Owned(Front(s)[n]) => Front(s)[n][2] # Last(s)[2]
<1>1. StackOK(clients, cl, s) /\ ClientsOK(clients, cl)
  BY DEF At
<1>2. s \in Seq(Frame)
  BY <1>1 DEF StackOK
<1>3. /\ Last(s) \in Frame /\ Last(s) = s[Len(s)] /\ Len(s) \in DOMAIN s /\ Len(Front(s)) = Len(s) - 1
      /\ DOMAIN Front(s) = 1 .. Len(s) - 1 /\ \A n \in DOMAIN Front(s) : n \in DOMAIN s /\ Front(s)[n] = s[n]
  BY <1>2, Recombined
<1>4. Owned(Last(s)) /\ Last(s)[2] \in Client
  <2>1. Owned(Last(s))
    BY DEF Owned
  <2> QED BY <1>3, <2>1, FrameKinds
<1>5. /\ s[Len(s)][2] \in ToSet(clients) /\ cl[s[Len(s)][2]].buf # << >>
      /\ \A m \in DOMAIN s : m < Len(s) /\ Owned(s[m]) => s[m][2] # s[Len(s)][2]
  BY <1>1, <1>3, <1>4 DEF StackOK
<1>6. DOMAIN s = 1 .. Len(s) /\ Len(s) \in Nat
  BY <1>2
<1>7. cl[Last(s)[2]] \in ClientRec
  BY <1>1, <1>4 DEF ClientsOK
<1>8. \A n \in DOMAIN s : Owned(s[n]) /\ s[n][2] = Last(s)[2] => n = Len(s)
  BY <1>3, <1>5, <1>6
<1>9. \A n \in DOMAIN Front(s) : Owned(Front(s)[n]) => Front(s)[n][2] # Last(s)[2]
  BY <1>3, <1>5, <1>6
<1> QED BY <1>3, <1>4, <1>5, <1>7, <1>8, <1>9

\* A command of a client that is not blocked is read.
LEMMA CommandKeeps ==
  ASSUME At(stack, client), stack # << >>, Top[1] = "input", NEW c, c = Top[2], client[c].bkeys = << >>,
         processCommand(c, Head(client[c].buf), IF Len(client[c].buf) = 1 THEN Front(stack) ELSE stack,
                        [client EXCEPT ![c].buf = Tail(@)])
  PROVE  At(stack, client)'
<1> DEFINE s == IF Len(client[c].buf) = 1 THEN Front(stack) ELSE stack
           cl == [client EXCEPT ![c].buf = Tail(@)]
           cmd == Head(client[c].buf)
           rest == Tail(client[c].buf)
           rec == [client[c] EXCEPT !.buf = rest]
<1>0. processCommand(c, cmd, s, cl)
  OBVIOUS
<1> HIDE DEF s, cl, cmd, rest, rec
<1>1. /\ StackOK(clients, client, stack) /\ ClientsOK(clients, client)
      /\ c \in Client /\ c \in ToSet(clients) /\ client[c].buf # << >> /\ client[c] \in ClientRec
      /\ \A n \in DOMAIN stack : Owned(stack[n]) /\ stack[n][2] = c => n = Len(stack)
      /\ \A n \in DOMAIN Front(stack) : Owned(Front(stack)[n]) => Front(stack)[n][2] # c
      /\ Last(stack)[1] = "input" /\ Last(stack)[2] = c
  BY TopInput DEF At, Top
<1>2. stack \in Seq(Frame) /\ client \in [Client -> ClientRec]
  BY <1>1 DEF StackOK, ClientsOK
<1>3. At(Front(stack), client) /\ Front(stack) # Undefined
  BY <1>1, TopGoes
<1>4. stack # Undefined
  BY <1>1, NotUndefined
<1>5. NoneBlocked(client, stack)
  BY <1>1, TopUnblocked
<1>6. /\ DOMAIN stack = 1 .. Len(stack) /\ Last(stack) = stack[Len(stack)] /\ Len(stack) \in DOMAIN stack
      /\ \A n \in DOMAIN Front(stack) : n \in DOMAIN stack /\ Front(stack)[n] = stack[n]
  BY <1>2, Recombined
<1>7. At(s, client) /\ s # Undefined /\ NoneBlocked(client, s)
  <2>1. CASE s = Front(stack)
    <3>1. NoneBlocked(client, Front(stack))
      BY <1>5, <1>6 DEF NoneBlocked
    <3> QED BY <1>3, <2>1, <3>1
  <2>2. CASE s = stack
    BY <1>4, <1>5, <2>2
  <2> QED BY <2>1, <2>2 DEF s
<1>8. /\ client[c].buf \in Seq(Command) /\ rest \in Seq(Command)
      /\ cmd \in Command /\ Len(rest) = Len(client[c].buf) - 1
      /\ Len(client[c].buf) <= MaxBuf /\ Len(client[c].buf) \in Nat /\ MaxBuf \in Nat
      /\ \A x \in ToSet(client[c].queue) : x[1] \notin {"exec", "discard", "quit"}
      /\ client[c].queue \in Seq(Command)
  <2>1. client[c].buf \in Seq(Command) /\ client[c].queue \in Seq(Command)
    BY ONLY <1>1 DEF ClientRec
  <2>2. /\ Len(client[c].buf) <= MaxBuf
        /\ \A x \in ToSet(client[c].queue) : x[1] \notin {"exec", "discard", "quit"}
    BY ONLY <1>1 DEF ClientsOK
  <2>3. /\ Tail(client[c].buf) \in Seq(Command) /\ Head(client[c].buf) \in Command
        /\ Len(Tail(client[c].buf)) = Len(client[c].buf) - 1 /\ Len(client[c].buf) \in Nat
    BY ONLY <1>1, <2>1
  <2> QED BY <2>1, <2>2, <2>3, ClientsBoundAssumption DEF cmd, rest
<1>9. /\ rec \in ClientRec /\ rec.buf = rest /\ rec.bkeys = client[c].bkeys /\ rec.multi = client[c].multi
      /\ rec.chans = client[c].chans /\ rec.pats = client[c].pats /\ rec.queue = client[c].queue
  BY <1>1, <1>8 DEF ClientRec, rec
<1>10. \A n \in DOMAIN s : Owned(s[n]) /\ s[n][2] = c => n = Len(s) /\ s[n][1] = "input" /\ rec.buf # << >>
  <2>1. CASE Len(client[c].buf) = 1
    BY <1>1, <2>1 DEF s
  <2>2. CASE Len(client[c].buf) # 1
    <3>1. rest # << >>
      <4>1. Len(rest) = Len(client[c].buf) - 1 /\ Len(client[c].buf) \in Nat
        BY <1>8
      <4>2. rest = << >> => Len(rest) = 0
        OBVIOUS
      <4>3. Len(rest) # 0
        BY <2>2, <4>1
      <4> QED BY <4>2, <4>3
    <3>2. s = stack
      BY <2>2 DEF s
    <3> QED BY <1>1, <1>6, <1>9, <3>1, <3>2
  <2> QED BY <2>1, <2>2
<1>11. Set(cl, client, c, rec)
  <2>1. cl = [client EXCEPT ![c] = rec]
    BY <1>1, <1>2 DEF rec, cl, rest
  <2>2. c \in Client /\ client \in [Client -> ClientRec] /\ rec \in ClientRec
    BY <1>1, <1>2, <1>9
  <2>3. Set([client EXCEPT ![c] = rec], client, c, rec)
    BY <2>2, SetIs
  <2> QED BY <2>1, <2>3
<1>12. At(s, cl)
  <2>1. Len(rec.buf) <= MaxBuf
    BY <1>8, <1>9
  <2>2. \A x \in ToSet(rec.queue) : x[1] \notin {"exec", "discard", "quit"}
    BY <1>8, <1>9
  <2>3. /\ At(s, client) /\ c \in Client /\ rec \in ClientRec /\ rec.bkeys = client[c].bkeys /\ rec.multi = client[c].multi
        /\ rec.chans = client[c].chans /\ rec.pats = client[c].pats
    BY <1>1, <1>7, <1>9
  <2>4. \A n \in DOMAIN s : Owned(s[n]) /\ s[n][2] = c => s[n][1] = "input" /\ rec.buf # << >>
    BY <1>10
  <2> QED BY <1>11, <2>1, <2>2, <2>3, <2>4, BuffersSet
<1>13. cl \in [Client -> ClientRec] /\ cl[c] = rec /\ \A x \in Client : x # c => cl[x] = client[x]
  BY <1>11 DEF Set
<1>14. CASE cmd[1] = "quit" /\ freeClient(c) /\ stack' = Front(stack)
  BY <1>1, <1>3, <1>14, FreeKeeps
<1>15. CASE Nothing(s, cl)
  BY <1>12, <1>15, NothingKeeps
<1>16. CASE cmd[1] # "quit" /\ Queued(c, cmd) /\ Nothing(s, [cl EXCEPT ![c].queue = Append(@, cmd)])
  <2> DEFINE new == [rec EXCEPT !.queue = Append(rec.queue, cmd)]
             cl2 == [cl EXCEPT ![c].queue = Append(@, cmd)]
  <2>1. /\ new \in ClientRec /\ new.buf = rec.buf /\ new.bkeys = rec.bkeys /\ new.multi = rec.multi
        /\ new.chans = rec.chans /\ new.pats = rec.pats /\ new.queue = Append(rec.queue, cmd)
    <3>1. cmd \in Command /\ rec.queue \in Seq(Command) /\ rec \in ClientRec
      BY <1>8, <1>9
    <3>2. Append(rec.queue, cmd) \in Seq(Command)
      BY <3>1
    <3> QED BY <3>1, <3>2 DEF ClientRec
  <2>2. cl2 = [cl EXCEPT ![c] = new]
    BY <1>1, <1>13
  <2> HIDE DEF new
  <2>3. Set(cl2, cl, c, new)
    BY <1>1, <1>13, <2>1, <2>2, SetIs
  <2>4. \A x : x \in ToSet(new.queue) => x \in ToSet(rec.queue) \/ x = cmd
    BY <1>8, <1>9, <2>1, AppendIs
  <2>5. cmd[1] \notin {"exec", "discard", "quit"}
    BY <1>16 DEF Queued
  <2>6. \A x \in ToSet(new.queue) : x[1] \notin {"exec", "discard", "quit"}
    BY <1>8, <1>9, <2>4, <2>5
  <2>7. Len(new.buf) <= MaxBuf
    BY <1>8, <1>9, <2>1
  <2> HIDE DEF cl2
  <2>8. At(s, cl2)
    <3>1. /\ c \in Client /\ cl[c] = rec
          /\ \A n \in DOMAIN s : Owned(s[n]) /\ s[n][2] = c => s[n][1] = "input" /\ rec.buf # << >>
      BY <1>1, <1>10, <1>13
    <3>2. /\ new \in ClientRec /\ new.bkeys = cl[c].bkeys /\ new.multi = cl[c].multi
          /\ new.chans = cl[c].chans /\ new.pats = cl[c].pats
          /\ \A n \in DOMAIN s : Owned(s[n]) /\ s[n][2] = c => s[n][1] = "input" /\ new.buf # << >>
      BY <2>1, <3>1
    <3> QED BY <1>12, <2>3, <2>6, <2>7, <3>1, <3>2, BuffersSet
  <2>9. Nothing(s, cl2)
    BY <1>16 DEF cl2
  <2> QED BY <2>8, <2>9, NothingKeeps
<1>17. CASE cmd[1] # "quit" /\ call(c, cmd, s, cl)
  <2>1. NoneBlocked(cl, s)
    <3>1. ASSUME NEW n \in DOMAIN s, Owned(s[n])
          PROVE  cl[s[n][2]].bkeys = << >>
      <4>1. s[n] \in Frame
        <5>1. StackOK(clients, client, s)
          BY <1>7 DEF At
        <5>2. s \in Seq(Frame)
          BY <5>1 DEF StackOK
        <5> QED BY <5>2
      <4>2. s[n][2] \in Client
        BY <3>1, <4>1, FrameKinds
      <4>3. cl[s[n][2]].bkeys = client[s[n][2]].bkeys
        BY <1>9, <1>13, <4>2
      <4> QED BY <1>7, <3>1, <4>3 DEF NoneBlocked
    <3> QED BY <3>1 DEF NoneBlocked
  <2>2. /\ cl[c].bkeys = << >> /\ cl[c].multi = client[c].multi
        /\ cl[c].chans = client[c].chans /\ cl[c].pats = client[c].pats
    BY <1>9, <1>13
  <2>3. \A n \in DOMAIN s : Owned(s[n]) /\ s[n][2] = c => n = Len(s) /\ s[n][1] = "input"
    BY <1>10
  <2>4. c \in Client /\ c \in ToSet(clients) /\ cmd \in Command /\ cmd[1] # "quit" /\ s # Undefined
    BY <1>1, <1>7, <1>8, <1>17
  <2>5. /\ \A x \in Client : x # c => cl[x] = client[x]
        /\ call(c, cmd, s, cl)
    BY <1>13, <1>17
  <2> QED BY <1>12, <2>1, <2>2, <2>3, <2>4, <2>5, CallBegins
<1>18. \/ cmd[1] = "quit" /\ freeClient(c) /\ stack' = Front(stack)
       \/ Nothing(s, cl)
       \/ cmd[1] # "quit" /\ Queued(c, cmd) /\ Nothing(s, [cl EXCEPT ![c].queue = Append(@, cmd)])
       \/ cmd[1] # "quit" /\ call(c, cmd, s, cl)
  BY <1>0 DEF processCommand
<1> QED BY <1>14, <1>15, <1>16, <1>17, <1>18

\* processInputBuffer begins the next command of its client, queues it, or ends.
LEMMA InputKeeps ==
  ASSUME At(stack, client), processInputBuffer
  PROVE  At(stack, client)'
<1> DEFINE c == Top[2]
<1>1. stack # << >> /\ Top[1] = "input"
  BY DEF processInputBuffer
<1>2. CASE client[c].bkeys # << >>
  <2>1. Nothing(Front(stack), client)
    BY <1>2 DEF processInputBuffer, Blocked
  <2>2. At(Front(stack), client)
    BY <1>1, TopGoes DEF Top
  <2> QED BY <2>1, <2>2, NothingKeeps
<1>3. CASE client[c].bkeys = << >>
  <2>1. processCommand(c, Head(client[c].buf), IF Len(client[c].buf) = 1 THEN Front(stack) ELSE stack,
                       [client EXCEPT ![c].buf = Tail(@)])
    BY <1>3 DEF processInputBuffer, Blocked
  <2> QED BY <1>1, <1>3, <2>1, CommandKeeps
<1> QED BY <1>2, <1>3

\* The end of a call: an EXEC that is propagated ends the transaction of slaves, and what is
\* propagated before it begins nothing new.
LEMMA CallEndKeeps ==
  ASSUME At(stack, client), callEnd
  PROVE  At(stack, client)'
<1> DEFINE t == Front(stack)
           f == Last(stack)
<1>1. /\ StackOK(clients, client, stack) /\ DataOK(stack, lists, pushed, got) /\ MultiOK(stack, slaveMulti)
      /\ ClientsOK(clients, client) /\ BlockOK(clients, client, lists, blockingkeys, order, renamed)
      /\ PubOK(clients, client, pubsub_channels, pubsub_patterns)
  BY DEF At
<1>2. /\ stack # << >> /\ f[1] = "call" /\ stack' = t
      /\ slaveMulti' = IF f[4] THEN Propagated(f[3]) ELSE slaveMulti
      /\ clients' = clients /\ client' = client /\ lists' = lists /\ pushed' = pushed /\ got' = got /\ renamed' = renamed
      /\ blockingkeys' = blockingkeys /\ order' = order
      /\ pubsub_channels' = pubsub_channels /\ pubsub_patterns' = pubsub_patterns
  BY DEF callEnd, Top, data, blocking, pubsub
<1>3. stack \in Seq(Frame)
  BY <1>1 DEF StackOK
<1>4. stack # Undefined /\ t # Undefined
  BY <1>1, <1>2, NotUndefined
<1>5. StackOK(clients, client, t)
  BY <1>1, <1>2, StackPop
<1>6. t \in Seq(Frame) /\ f \in Frame /\ stack = Append(t, f)
  BY <1>2, <1>3, Recombined
<1>7. DataOK(t, lists, pushed, got)
  <2>1. f[1] # "rpoplpush"
    BY <1>2
  <2> HIDE DEF t, f
  <2> QED BY <1>1, <1>4, <1>6, <2>1, DataAppend
<1>8. MultiOK(t, slaveMulti')
  <2>1. CASE f[4] /\ f[3][1] = "exec"
    <3>1. slaveMulti' = FALSE
      BY <1>2, <2>1 DEF Propagated
    <3> QED BY <3>1 DEF MultiOK
  <2>2. CASE ~(f[4] /\ f[3][1] = "exec")
    <3>1. slaveMulti' = slaveMulti
      BY <1>2, <2>2 DEF Propagated
    <3>2. MultiOK(t, slaveMulti)
      BY <1>1, <1>2, <1>3, <1>4, <2>2, MultiPop
    <3> QED BY <3>1, <3>2
  <2> QED BY <2>1, <2>2
<1> QED BY <1>1, <1>2, <1>5, <1>7, <1>8 DEF At

\* The innermost call executes a transaction.
LEMMA TopExec ==
  ASSUME NEW s, NEW cl, At(s, cl), s # << >>, Last(s)[1] = "exec"
  PROVE  /\ Last(s)[2] \in Client /\ Last(s)[2] \in ToSet(clients) /\ cl[Last(s)[2]] \in ClientRec
         /\ Last(s)[3] \in Nat \ {0} /\ Last(s)[3] \in 1 .. Len(cl[Last(s)[2]].queue) + 1
         /\ cl[Last(s)[2]].multi /\ cl[Last(s)[2]].bkeys = << >>
         /\ Front(s) # << >> /\ Front(s)[Len(Front(s))][1] = "call" /\ Front(s)[Len(Front(s))][3][1] = "exec"
         /\ \A n \in DOMAIN Front(s) : Front(s)[n][1] = "exec" => Front(s)[n][2] # Last(s)[2]
<1>1. StackOK(clients, cl, s) /\ ClientsOK(clients, cl)
  BY DEF At
<1>2. s \in Seq(Frame)
  BY <1>1 DEF StackOK
<1>3. /\ Last(s) \in Frame /\ Last(s) = s[Len(s)] /\ Len(s) \in DOMAIN s /\ Len(Front(s)) = Len(s) - 1
      /\ Front(s) \in Seq(Frame)
      /\ DOMAIN Front(s) = 1 .. Len(s) - 1 /\ \A n \in DOMAIN Front(s) : n \in DOMAIN s /\ Front(s)[n] = s[n]
  BY <1>2, Recombined
<1>4. Owned(Last(s)) /\ Last(s)[2] \in Client /\ Last(s)[3] \in Nat \ {0}
  <2>1. Owned(Last(s))
    BY DEF Owned
  <2> QED BY <1>3, <2>1, FrameKinds
<1>5. /\ Len(s) - 1 \in DOMAIN s /\ s[Len(s) - 1][1] = "call" /\ s[Len(s) - 1][3][1] = "exec"
      /\ cl[Last(s)[2]].multi /\ Last(s)[3] \in 1 .. Len(cl[Last(s)[2]].queue) + 1
      /\ \A m \in DOMAIN s : m < Len(s) /\ s[m][1] = "exec" => s[m][2] # Last(s)[2]
  <2>1. \A n \in DOMAIN s : s[n][1] = "exec" =>
          /\ n - 1 \in DOMAIN s /\ s[n - 1][1] = "call" /\ s[n - 1][3][1] = "exec"
          /\ cl[s[n][2]].multi /\ s[n][3] \in 1 .. Len(cl[s[n][2]].queue) + 1
          /\ \A m \in DOMAIN s : m < n /\ s[m][1] = "exec" => s[m][2] # s[n][2]
    BY ONLY <1>1 DEF StackOK
  <2>2. s[Len(s)][1] = "exec"
    BY <1>3
  <2> QED BY ONLY <1>3, <2>1, <2>2
<1>6. Last(s)[2] \in ToSet(clients)
  BY <1>1, <1>3, <1>4 DEF StackOK
<1>7. cl[Last(s)[2]].bkeys = << >>
  BY <1>1, <1>3, <1>4 DEF StackOK
<1>8. DOMAIN s = 1 .. Len(s) /\ Len(s) \in Nat
  BY <1>2
<1>9. Front(s) # << >> /\ Len(Front(s)) \in DOMAIN Front(s) /\ Front(s)[Len(Front(s))] = s[Len(s) - 1]
  <2>1. Len(s) - 1 \in DOMAIN Front(s)
    BY <1>3, <1>5, <1>8
  <2>2. Front(s) # << >>
    BY <1>3, <2>1
  <2> QED BY <1>3, <2>1, <2>2
<1>10. \A n \in DOMAIN Front(s) : Front(s)[n][1] = "exec" => Front(s)[n][2] # Last(s)[2]
  BY <1>3, <1>5, <1>8
<1>11. cl[Last(s)[2]] \in ClientRec
  BY <1>1, <1>4 DEF ClientsOK
<1> QED BY <1>4, <1>5, <1>6, <1>7, <1>9, <1>10, <1>11

\* The calls below a transaction, to begin with.
LEMMA BelowExec ==
  ASSUME NEW s, NEW cl, At(s, cl), s # << >>, Last(s)[1] = "exec"
  PROVE  /\ Front(s) \in Seq(Frame) /\ Front(s) # Undefined /\ s # Undefined /\ s \in Seq(Frame)
         /\ StackOK(clients, cl, Front(s)) /\ NoneBlocked(cl, Front(s)) /\ DataOK(Front(s), lists, pushed, got)
         /\ s = Append(Front(s), Last(s)) /\ Last(s) \in Frame
<1> DEFINE t == Front(s)
           f == Last(s)
<1>1. StackOK(clients, cl, s) /\ DataOK(s, lists, pushed, got)
  BY DEF At
<1>2. s \in Seq(Frame)
  BY <1>1 DEF StackOK
<1>3. /\ t \in Seq(Frame) /\ f \in Frame /\ s = Append(t, f) /\ Last(s) = f
      /\ \A n \in DOMAIN Front(s) : n \in DOMAIN s /\ Front(s)[n] = s[n]
  BY <1>2, Recombined
<1>4. s # Undefined /\ t # Undefined
  BY <1>1, NotUndefined
<1>5. StackOK(clients, cl, t)
  BY <1>1, StackPop
<1>6. NoneBlocked(cl, s)
  BY <1>1, TopUnblocked
<1>7. NoneBlocked(cl, t)
  BY <1>3, <1>6 DEF NoneBlocked
<1>8. f[1] # "rpoplpush"
  OBVIOUS
<1> HIDE DEF t, f
<1>9. DataOK(t, lists, pushed, got)
  BY <1>1, <1>3, <1>4, <1>8, DataAppend
<1> QED BY <1>2, <1>3, <1>4, <1>5, <1>7, <1>9 DEF t, f

\* The transaction ends: its EXEC will be propagated.
LEMMA ExecEnded ==
  ASSUME At(stack, client), stack # << >>, Top[1] = "exec", NEW cl2,
         Set(cl2, client, Top[2], [client[Top[2]] EXCEPT !.multi = FALSE, !.queue = << >>])
  PROVE  At(Dirtied(Front(stack)), cl2)
<1> DEFINE c == Last(stack)[2]
           t == Front(stack)
           d == Dirtied(t)
           rec == [client[c] EXCEPT !.multi = FALSE, !.queue = << >>]
           sm == slaveMulti
<1>1. /\ StackOK(clients, client, stack) /\ MultiOK(stack, sm)
      /\ ClientsOK(clients, client) /\ BlockOK(clients, client, lists, blockingkeys, order, renamed)
      /\ PubOK(clients, client, pubsub_channels, pubsub_patterns)
  BY DEF At
<1>2. /\ c \in Client /\ client[c] \in ClientRec /\ client[c].bkeys = << >>
      /\ \A n \in DOMAIN t : t[n][1] = "exec" => t[n][2] # c
  BY TopExec DEF Top
<1>3. /\ t \in Seq(Frame) /\ t # Undefined /\ stack # Undefined /\ stack \in Seq(Frame)
      /\ StackOK(clients, client, t) /\ DataOK(t, lists, pushed, got)
      /\ stack = Append(t, Last(stack)) /\ Last(stack) \in Frame
  BY BelowExec DEF Top
<1>4. Set(cl2, client, c, rec)
  BY DEF Top
<1>6. /\ Alike(d, t) /\ \A n \in DOMAIN t : t[n][1] = "call" => d[n][4]
  BY <1>3, DirtiedAlike
<1> HIDE DEF t, d, sm
<1>7. /\ rec \in ClientRec /\ rec.buf = client[c].buf /\ rec.bkeys = client[c].bkeys /\ rec.queue = << >>
      /\ rec.chans = client[c].chans /\ rec.pats = client[c].pats
  <2>1. << >> \in Seq(Command) /\ FALSE \in BOOLEAN
    OBVIOUS
  <2> QED BY <1>2, <2>1 DEF ClientRec
<1>8. client \in [Client -> ClientRec]
  BY <1>1 DEF ClientsOK
<1>9. cl2 \in [Client -> ClientRec] /\ cl2[c] = rec /\ \A x \in Client : x # c => cl2[x] = client[x]
  BY <1>4 DEF Set
<1> HIDE DEF rec, c
<1>10. ClientsOK(clients, cl2)
  <2>1. \A x \in Client : Len(cl2[x].buf) <= MaxBuf
    BY <1>1, <1>7, <1>9 DEF ClientsOK
  <2>2. ToSet(rec.queue) = {}
    BY <1>7 DEF ToSet
  <2>3. \A x \in Client : \A cmd \in ToSet(cl2[x].queue) : cmd[1] \notin {"exec", "discard", "quit"}
    BY <1>1, <1>9, <2>2 DEF ClientsOK
  <2> QED BY <1>1, <1>9, <2>1, <2>3 DEF ClientsOK
<1>11. StackOK(clients, cl2, d)
  <2>1. ASSUME NEW n \in DOMAIN t, Owned(t[n])
        PROVE  /\ t[n][2] \in ToSet(clients)
               /\ cl2[t[n][2]].bkeys # << >> => client[t[n][2]].bkeys # << >>
               /\ t[n][1] = "input" => cl2[t[n][2]].buf # << >>
               /\ t[n][1] = "exec" => cl2[t[n][2]].multi /\ Len(cl2[t[n][2]].queue) = Len(client[t[n][2]].queue)
    <3>1. t[n] \in Frame
      BY <1>3
    <3>2. t[n][2] \in Client /\ t[n][2] \in ToSet(clients)
      BY <1>3, <2>1, <3>1, FrameKinds DEF StackOK
    <3>3. t[n][1] = "input" => client[t[n][2]].buf # << >>
      BY <1>3 DEF StackOK
    <3>4. t[n][1] = "exec" => client[t[n][2]].multi
      BY <1>3 DEF StackOK
    <3>5. CASE t[n][2] = c
      BY <1>2, <1>7, <1>9, <3>2, <3>3, <3>5
    <3>6. CASE t[n][2] # c
      BY <1>9, <3>2, <3>3, <3>4, <3>6
    <3> QED BY <3>5, <3>6
  <2>2. StackOK(clients, client, t)
    BY <1>3
  <2>3. StackOK(clients, cl2, t)
    BY <2>1, <2>2, StackClients
  <2> QED BY <1>6, <2>3, StackAlike
<1>12. BlockOK(clients, cl2, lists, blockingkeys, order, renamed)
  <2>1. \A x \in Client : /\ cl2[x].bkeys = client[x].bkeys
                          /\ cl2[x].bkeys # << >> => cl2[x].multi = client[x].multi
    BY <1>2, <1>7, <1>9
  <2> QED BY <1>1, <2>1, BlockClients
<1>13. PubOK(clients, cl2, pubsub_channels, pubsub_patterns)
  <2>1. \A x \in Client : cl2[x].chans = client[x].chans /\ cl2[x].pats = client[x].pats
    BY <1>7, <1>9
  <2> QED BY <1>1, <2>1, PubClients
<1>14. DataOK(d, lists, pushed, got)
  BY <1>3, <1>6, DataAlike
<1>15. MultiOK(d, sm)
  <2>1. sm \in BOOLEAN
    BY <1>1 DEF MultiOK
  <2>2. ASSUME sm
        PROVE  \E n \in DOMAIN d : d[n][1] = "call" /\ d[n][3][1] = "exec" /\ d[n][4]
    <3>1. PICK n \in DOMAIN stack : stack[n][1] = "call" /\ stack[n][3][1] = "exec"
      BY <1>1, <1>3, <2>2 DEF MultiOK
    <3>2. /\ DOMAIN stack = 1 .. Len(t) + 1 /\ DOMAIN t = 1 .. Len(t) /\ stack[Len(t) + 1] = Last(stack)
          /\ \A i \in 1 .. Len(t) : stack[i] = t[i]
      BY <1>3
    <3>3. Last(stack)[1] = "exec"
      BY DEF Top
    <3>4. n \in DOMAIN t /\ t[n] = stack[n]
      BY <3>1, <3>2, <3>3
    <3>5. t[n] \in Frame /\ Marked(d[n], t[n]) /\ n \in DOMAIN d
      BY <1>3, <1>6, <3>4 DEF Alike
    <3>6. d[n][1] = "call" /\ d[n][3] = t[n][3]
      BY <3>1, <3>4, <3>5, MarkKeeps
    <3>7. d[n][4]
      BY <1>6, <3>1, <3>4
    <3> QED BY <3>1, <3>4, <3>5, <3>6, <3>7
  <2> QED BY <2>1, <2>2 DEF MultiOK
<1> QED BY <1>10, <1>11, <1>12, <1>13, <1>14, <1>15 DEF At, d, t, sm

\* EXEC ends.
LEMMA ExecEndKeeps ==
  ASSUME At(stack, client), stack # << >>, Top[1] = "exec",
         client' = [client EXCEPT ![Top[2]].multi = FALSE, ![Top[2]].queue = << >>],
         stack' = execEnd(stack),
         UNCHANGED <<clients, data, blocking, pubsub, slaveMulti>>
  PROVE  At(stack, client)'
<1> DEFINE c == Top[2]
           rec == [client[c] EXCEPT !.multi = FALSE, !.queue = << >>]
           cl2 == [client EXCEPT ![c].multi = FALSE, ![c].queue = << >>]
<1>1. c \in Client /\ client[c] \in ClientRec /\ client \in [Client -> ClientRec]
  BY TopExec DEF Top, At, ClientsOK
<1>2. cl2 = [client EXCEPT ![c] = rec]
  BY <1>1
<1>3. rec \in ClientRec
  <2>1. << >> \in Seq(Command) /\ FALSE \in BOOLEAN
    OBVIOUS
  <2> QED BY <1>1, <2>1 DEF ClientRec
<1>4. client' = cl2
  OBVIOUS
<1>5. At(Dirtied(Front(stack)), cl2)
  <2> HIDE DEF rec, cl2, c
  <2>1. Set([client EXCEPT ![c] = rec], client, c, rec)
    BY <1>1, <1>3, SetIs
  <2>2. Set(cl2, client, c, rec)
    BY <1>2, <2>1
  <2> QED BY <2>2, ExecEnded DEF rec, c
<1>6. stack' = Dirtied(Front(stack))
  BY DEF execEnd
<1>7. /\ clients' = clients /\ lists' = lists /\ pushed' = pushed /\ got' = got /\ renamed' = renamed
      /\ blockingkeys' = blockingkeys /\ order' = order /\ slaveMulti' = slaveMulti
      /\ pubsub_channels' = pubsub_channels /\ pubsub_patterns' = pubsub_patterns
  BY DEF data, blocking, pubsub
<1> HIDE DEF cl2
<1> QED BY <1>4, <1>5, <1>6, <1>7 DEF At

\* The next command of the transaction begins.
LEMMA ExecNextKeeps ==
  ASSUME At(stack, client), stack # << >>, Top[1] = "exec", Top[3] <= Len(client[Top[2]].queue),
         call(Top[2], client[Top[2]].queue[Top[3]], InCall(<< <<"exec", Top[2], Top[3] + 1>> >>), client)
  PROVE  At(stack, client)'
<1> DEFINE c == Last(stack)[2]
           n == Last(stack)[3]
           cmd == client[c].queue[n]
           t == Front(stack)
           f == <<"exec", c, n + 1>>
           s == Append(t, f)
<1>1. /\ StackOK(clients, client, stack) /\ MultiOK(stack, slaveMulti)
      /\ ClientsOK(clients, client) /\ BlockOK(clients, client, lists, blockingkeys, order, renamed)
      /\ PubOK(clients, client, pubsub_channels, pubsub_patterns)
  BY DEF At
<1>2. /\ c \in Client /\ c \in ToSet(clients) /\ client[c] \in ClientRec /\ client[c].bkeys = << >> /\ client[c].multi
      /\ n \in Nat \ {0} /\ n \in 1 .. Len(client[c].queue) + 1
      /\ t # << >> /\ t[Len(t)][1] = "call" /\ t[Len(t)][3][1] = "exec"
      /\ \A i \in DOMAIN t : t[i][1] = "exec" => t[i][2] # c
  BY TopExec DEF Top
<1>3. /\ t \in Seq(Frame) /\ t # Undefined /\ stack # Undefined /\ stack \in Seq(Frame)
      /\ StackOK(clients, client, t) /\ NoneBlocked(client, t) /\ DataOK(t, lists, pushed, got)
      /\ stack = Append(t, Last(stack)) /\ Last(stack) \in Frame
  BY BelowExec DEF Top
<1>4. call(c, cmd, t \o <<f>>, client) /\ n <= Len(client[c].queue)
  BY DEF InCall, Top
<1>5. /\ f \in Frame /\ f[1] = "exec" /\ f[2] = c /\ f[3] = n + 1 /\ Owned(f)
  BY <1>2, FramesAre DEF Owned
<1>6. Last(stack)[1] = "exec"
  BY DEF Top
<1> HIDE DEF f, t, n, c, cmd
<1>7. t \o <<f>> = s
  BY <1>3, <1>5
<1>8. client[c].queue \in Seq(Command) /\ Len(client[c].queue) \in Nat
  BY <1>2 DEF ClientRec
<1>9. cmd \in Command /\ cmd \in ToSet(client[c].queue)
  BY <1>2, <1>4, <1>8 DEF cmd, ToSet
<1>10. cmd[1] \notin {"exec", "discard", "quit"}
  BY <1>1, <1>2, <1>9 DEF ClientsOK
<1>11. StackOK(clients, client, s) /\ NoneBlocked(client, s) /\ s # Undefined
  <2>1. /\ f \in Frame /\ Owned(f) /\ f[2] \in ToSet(clients) /\ client[f[2]].bkeys = << >> /\ f[1] # "input"
    BY <1>2, <1>5
  <2>2. /\ t # << >> /\ t[Len(t)][1] = "call" /\ t[Len(t)][3][1] = "exec"
        /\ client[f[2]].multi /\ \A i \in DOMAIN t : t[i][1] = "exec" => t[i][2] # f[2]
    BY <1>2, <1>5
  <2>3. f[3] \in 1 .. Len(client[f[2]].queue) + 1
    BY <1>2, <1>4, <1>5, <1>8
  <2> HIDE DEF s
  <2>4. StackOK(clients, client, Append(t, f)) /\ NoneBlocked(client, Append(t, f)) /\ Append(t, f) # Undefined
    BY <1>3, <2>1, <2>2, <2>3, StackAppend
  <2> QED BY <2>4 DEF s
<1>12. DataOK(s, lists, pushed, got)
  <2>1. f[1] # "rpoplpush"
    BY <1>5
  <2> QED BY <1>3, <1>5, <1>11, <2>1, DataAppend
<1>13. MultiOK(s, slaveMulti)
  <2>1. /\ DOMAIN stack = 1 .. Len(t) + 1 /\ DOMAIN s = 1 .. Len(t) + 1 /\ stack[Len(t) + 1] = Last(stack)
        /\ s[Len(t) + 1] = f /\ Len(t) \in Nat
        /\ \A i \in 1 .. Len(t) : s[i] = stack[i]
    <3>1. DOMAIN stack = 1 .. Len(t) + 1 /\ stack[Len(t) + 1] = Last(stack) /\ \A i \in 1 .. Len(t) : stack[i] = t[i]
      BY <1>3
    <3>2. DOMAIN s = 1 .. Len(t) + 1 /\ s[Len(t) + 1] = f /\ Len(t) \in Nat /\ \A i \in 1 .. Len(t) : s[i] = t[i]
      BY ONLY <1>3, <1>5, AppendIs
    <3> QED BY <3>1, <3>2
  <2> HIDE DEF s
  <2>2. slaveMulti \in BOOLEAN
    BY <1>1 DEF MultiOK
  <2>3. ASSUME slaveMulti
        PROVE  \E i \in DOMAIN s : /\ s[i][1] = "call" /\ s[i][3][1] = "exec"
                                   /\ s[i][4] \/ (i + 1 \in DOMAIN s /\ s[i + 1][1] = "exec")
    <3>1. PICK i \in DOMAIN stack : /\ stack[i][1] = "call" /\ stack[i][3][1] = "exec"
                                    /\ stack[i][4] \/ (i + 1 \in DOMAIN stack /\ stack[i + 1][1] = "exec")
      BY <1>1, <1>3, <2>3 DEF MultiOK
    <3>2. i \in 1 .. Len(t) /\ s[i] = stack[i]
      BY <1>6, <2>1, <3>1
    <3>3. i + 1 \in DOMAIN stack /\ stack[i + 1][1] = "exec" => i + 1 \in DOMAIN s /\ s[i + 1][1] = "exec"
      <4> HAVE i + 1 \in DOMAIN stack /\ stack[i + 1][1] = "exec"
      <4>1. CASE i + 1 \in 1 .. Len(t)
        BY <2>1, <4>1
      <4>2. CASE i + 1 = Len(t) + 1
        BY <1>5, <2>1, <4>2
      <4> QED BY <2>1, <3>2, <4>1, <4>2
    <3> QED BY <2>1, <3>1, <3>2, <3>3
  <2> QED BY <2>2, <2>3 DEF MultiOK
<1>14. At(s, client)
  BY <1>1, <1>11, <1>12, <1>13 DEF At
<1>15. call(c, cmd, s, client)
  BY <1>4, <1>7
<1> HIDE DEF s
<1>16. cmd[1] # "quit" /\ cmd[1] \notin {"exec", "discard"}
  BY <1>10
<1> QED BY <1>2, <1>9, <1>11, <1>14, <1>15, <1>16, CallBegins

\* EXEC calls the next command of its queue.
LEMMA ExecStepKeeps ==
  ASSUME At(stack, client), execStep
  PROVE  At(stack, client)'
<1>1. stack # << >> /\ Top[1] = "exec"
  BY DEF execStep
<1>2. /\ Last(stack)[3] \in Nat /\ client[Last(stack)[2]] \in ClientRec
  BY <1>1, TopExec DEF Top
<1>3. Len(client[Top[2]].queue) \in Nat /\ Top[3] \in Nat
  BY <1>2 DEF ClientRec, Top
<1>4. CASE Top[3] > Len(client[Top[2]].queue)
  BY <1>1, <1>4, ExecEndKeeps DEF execStep
<1>5. CASE ~(Top[3] > Len(client[Top[2]].queue))
  <2>1. Top[3] <= Len(client[Top[2]].queue)
    BY <1>3, <1>5
  <2>2. call(Top[2], client[Top[2]].queue[Top[3]], InCall(<< <<"exec", Top[2], Top[3] + 1>> >>), client)
    BY <1>5 DEF execStep
  <2> QED BY <1>1, <2>1, <2>2, ExecNextKeeps
<1> QED BY <1>4, <1>5

-----------------------------------------------------------------------------
(* RPOPLPUSH ends *)

\* The node of e is gone, and so are those of fr, which are given away.
Left(ls2, ls, e, fr) ==
  /\ e \notin fr /\ \A x \in fr : InList(ls, x)
  /\ ListsOK(ls2) /\ \A x : InList(ls2, x) <=> InList(ls, x) /\ x # e /\ x \notin fr
  /\ \A x \in Key : ls2[x] # << >> => ls[x] # << >>
\* Those of fr are given away once more.
Given(go2, go, fr) ==
  /\ go2 \in [1 .. MaxPushed -> Nat]
  /\ \A x \in 1 .. MaxPushed : go2[x] = IF x \in fr THEN go[x] + 1 ELSE go[x]

\* The node that rpoplpush has in its hands goes, and perhaps others with its list.
LEMMA NodeGone ==
  ASSUME NEW t \in Seq(Frame), t # Undefined, NEW f \in Frame, f[1] = "rpoplpush", ~f[5],
         Append(t, f) # Undefined, NEW ls, NEW pu, NEW go, DataOK(Append(t, f), ls, pu, go),
         NEW fr, NEW ls2, Left(ls2, ls, f[4], fr), NEW go2, Given(go2, go, fr)
  PROVE  DataOK(Freed(Dirtied(t), {f[4]} \cup fr), ls2, pu, go2)
<1> DEFINE e == f[4]
           s == Append(t, f)
           es == {e} \cup fr
           d == Freed(Dirtied(t), es)
<1>0. /\ e = f[4] /\ s = Append(t, f) /\ s # Undefined /\ DataOK(s, ls, pu, go)
      /\ \A x : x \in es <=> x = e \/ x \in fr
      /\ e \notin fr /\ \A x \in fr : InList(ls, x)
      /\ ListsOK(ls2) /\ \A x : InList(ls2, x) <=> InList(ls, x) /\ x # e /\ x \notin fr
      /\ go2 \in [1 .. MaxPushed -> Nat]
      /\ \A x \in 1 .. MaxPushed : go2[x] = IF x \in fr THEN go[x] + 1 ELSE go[x]
  BY DEF Left, Given
<1> HIDE DEF e, s, es
<1>1. /\ Alike(d, t)
      /\ \A n \in DOMAIN t : /\ t[n][1] = "rpoplpush" /\ t[n][4] \in es => d[n][5]
                             /\ t[n][1] = "rpoplpush" /\ t[n][4] \notin es => d[n] = t[n]
  BY NotedAlike
<1> HIDE DEF d
<1>2. /\ pu \in 0 .. MaxPushed /\ go \in [1 .. MaxPushed -> Nat] /\ ListsOK(ls)
      /\ \A x \in 1 .. MaxPushed : ElementOK(s, ls, pu, go[x], x)
  BY <1>0 DEF DataOK
<1>3. MaxPushed \in Nat /\ e \in 1 .. MaxPushed
  BY <1>0, FrameKinds, ClientsBoundAssumption
<1>4. \A n \in DOMAIN t : Holds(t[n], e) => d[n][5]
  <2>1. e \in es
    BY <1>0
  <2> QED BY <1>1, <2>1 DEF Holds
<1>5. ASSUME NEW x \in 1 .. MaxPushed, x # e
      PROVE  ElementOK(d, ls2, pu, go2[x], x)
  <2>1. ElementOK(s, ls, pu, go[x], x)
    BY <1>2
  <2>2. ~Holds(f, x)
    BY <1>0, <1>5 DEF Holds
  <2>3. ElementOK(t, ls, pu, go[x], x)
    BY <1>0, <2>1, <2>2, ElementAppend
  <2>4. \/ (InList(ls, x) <=> InList(ls2, x)) /\ go[x] = go2[x]
        \/ /\ InList(ls, x) /\ ~InList(ls2, x) /\ go2[x] = go[x] + 1
           /\ \A n \in DOMAIN t : Holds(t[n], x) => d[n][5]
    <3>1. CASE x \in fr
      <4>1. x \in es /\ InList(ls, x) /\ ~InList(ls2, x) /\ go2[x] = go[x] + 1
        BY <1>0, <3>1
      <4>2. \A n \in DOMAIN t : Holds(t[n], x) => d[n][5]
        BY <1>1, <4>1 DEF Holds
      <4> QED BY <4>1, <4>2
    <3>2. CASE x \notin fr
      BY <1>0, <1>5, <3>2
    <3> QED BY <3>1, <3>2
  <2> QED BY <1>1, <2>3, <2>4, ElementAlike
<1>6. ElementOK(d, ls2, pu, go2[e], e)
  <2>1. /\ DOMAIN t = 1 .. Len(t) /\ Len(t) \in Nat /\ DOMAIN s = 1 .. Len(t) + 1 /\ s[Len(t) + 1] = f
        /\ \A n \in 1 .. Len(t) : s[n] = t[n]
    BY AppendIs DEF s
  <2>2. Holds(s[Len(t) + 1], e) /\ Len(t) + 1 \in DOMAIN s
    BY <1>0, <2>1 DEF Holds
  <2>3. ElementOK(s, ls, pu, go[e], e)
    BY <1>2, <1>3
  <2>4. ~(pu < e)
    BY <2>2, <2>3 DEF ElementOK
  <2>5. e <= pu
    BY <1>2, <1>3, <2>4
  <2>6. (\A m \in DOMAIN s : m # Len(t) + 1 => ~Holds(s[m], e)) => go[e] = 1
    <3>1. s # Undefined /\ ~s[Len(t) + 1][5]
      BY <1>0, <2>1
    <3> QED BY <2>2, <2>3, <2>5, <3>1 DEF ElementOK
  <2>7. ~InList(ls2, e) /\ go2[e] = go[e]
    BY <1>0, <1>3
  <2>8. /\ DOMAIN d = DOMAIN t /\ \A n \in DOMAIN t : Holds(d[n], e) <=> Holds(t[n], e)
    <3>1. ASSUME NEW n \in DOMAIN t
          PROVE  Holds(d[n], e) <=> Holds(t[n], e)
      <4>0. t[n] \in Frame
        OBVIOUS
      <4>1. t[n] \in Frame /\ Marked(d[n], t[n])
        BY <1>1, <4>0 DEF Alike
      <4>2. d[n][1] = t[n][1] /\ (t[n][1] = "rpoplpush" => d[n][4] = t[n][4])
        BY <4>1, MarkKeeps
      <4> QED BY <4>2 DEF Holds
    <3>2. DOMAIN d = DOMAIN t
      <4>1. d \in Seq(Frame) /\ Len(d) = Len(t)
        BY <1>1 DEF Alike
      <4> QED BY <2>1, <4>1
    <3> QED BY <3>1, <3>2
  <2>9. (\A n \in DOMAIN d : ~Holds(d[n], e)) => go2[e] = 1
    <3> HAVE \A n \in DOMAIN d : ~Holds(d[n], e)
    <3>1. ASSUME NEW m \in DOMAIN s, m # Len(t) + 1
          PROVE  ~Holds(s[m], e)
      <4>1. m \in 1 .. Len(t)
        BY <2>1, <3>1
      <4>2. m \in DOMAIN t /\ m \in DOMAIN d /\ s[m] = t[m]
        BY <2>1, <2>8, <4>1
      <4> QED BY <2>8, <4>2
    <3> QED BY <2>6, <2>7, <3>1
  <2>10. \A n \in DOMAIN d : Holds(d[n], e) => d[n][5]
    BY <1>4, <2>8
  <2> QED BY <2>4, <2>7, <2>9, <2>10 DEF ElementOK
<1>7. \A x \in 1 .. MaxPushed : ElementOK(d, ls2, pu, go2[x], x)
  BY <1>5, <1>6
<1>8. DataOK(d, ls2, pu, go2)
  BY <1>0, <1>2, <1>7 DEF DataOK
<1> QED BY <1>8 DEF d, es, e

\* Whatever is said of the dataset and the clients does not depend on the calls under way.
LEMMA UndefinedOK ==
  ASSUME NEW s, NEW cl, At(s, cl)
  PROVE  At(Undefined, cl)
<1>1. /\ Undefined \in Seq(Frame) /\ Len(Undefined) = 1 /\ DOMAIN Undefined = {1}
      /\ Undefined[1] = <<"undefined">> /\ ~Owned(Undefined[1]) /\ Undefined[1][1] = "undefined"
  BY FramesAre DEF Undefined, Owned
<1>2. StackOK(clients, cl, Undefined)
  BY <1>1 DEF StackOK
<1>3. DataOK(s, lists, pushed, got) /\ MultiOK(s, slaveMulti)
  BY DEF At
<1>4. DataOK(Undefined, lists, pushed, got)
  <2>1. \A x \in 1 .. MaxPushed : ~Holds(Undefined[1], x)
    BY <1>1 DEF Holds
  <2>2. ASSUME NEW x \in 1 .. MaxPushed
        PROVE  ElementOK(Undefined, lists, pushed, got[x], x)
    <3>1. pushed < x => ~InList(lists, x) /\ got[x] = 0
      BY <1>3 DEF DataOK, ElementOK
    <3> QED BY <1>1, <2>1, <3>1 DEF ElementOK
  <2> QED BY <1>3, <2>2 DEF DataOK
<1>5. MultiOK(Undefined, slaveMulti)
  BY <1>3 DEF MultiOK
<1> QED BY <1>2, <1>4, <1>5 DEF At

\* fr are the elements of the lists ks of l.
Elements(fr, l, ks) == \A x : x \in fr <=> \E j \in ks : x \in ToSet(l[j])

\* The lists that are left, and the elements that are gone.
LEMMA ListsLeft ==
  ASSUME NEW ls, ListsOK(ls), NEW e, NEW ks \in SUBSET Key, NEW fr, Elements(fr, Removed(ls, e), ks)
  PROVE  Left(Emptied(Removed(ls, e), ks), ls, e, fr)
<1> DEFINE l == Removed(ls, e)
           new == Emptied(l, ks)
<1>1. l = Removed(ls, e) /\ new = Emptied(l, ks)
  OBVIOUS
<1>2. \A x : x \in fr <=> \E j \in ks : x \in ToSet(l[j])
  BY DEF Elements
<1> HIDE DEF l, new
<1>3. /\ ListsOK(new)
      /\ \A x \in Key : ToSet(l[x]) = ToSet(ls[x]) \ {e} /\ (new[x] # << >> => ls[x] # << >>)
      /\ \A x : InList(new, x) <=> InList(ls, x) /\ x # e /\ \A j \in ks \cap Key : x \notin ToSet(l[j])
  BY <1>1, ListsWithout
<1>4. \A x \in Key : \A y : y \in ToSet(l[x]) <=> y \in ToSet(ls[x]) /\ y # e
  BY <1>3
<1>5. \A j \in ks : j \in Key
  OBVIOUS
<1>6. \A x \in fr : x # e /\ InList(ls, x)
  BY <1>2, <1>4, <1>5 DEF InList
<1>7. \A x : InList(new, x) <=> InList(ls, x) /\ x # e /\ x \notin fr
  <2>1. \A x : (\A j \in ks \cap Key : x \notin ToSet(l[j])) <=> x \notin fr
    BY <1>2, <1>5
  <2> QED BY <1>3, <2>1
<1>8. \A x \in Key : new[x] # << >> => ls[x] # << >>
  BY <1>3
<1>9. ListsOK(new)
  BY <1>3
<1> QED BY <1>6, <1>7, <1>8, <1>9 DEF new, l, Left

\* rpoplpush ends, and finds its node where it was.
LEMMA NodeDeleted ==
  ASSUME At(stack, client), stack # << >>, Last(stack)[1] = "rpoplpush", ~Last(stack)[5],
         NEW fr, NEW ls2, Left(ls2, lists, Last(stack)[4], fr), NEW go2, Given(go2, got, fr)
  PROVE  LET d == Freed(Dirtied(Front(stack)), {Last(stack)[4]} \cup fr)
         IN  /\ StackOK(clients, client, d) /\ DataOK(d, ls2, pushed, go2) /\ MultiOK(d, slaveMulti)
             /\ BlockOK(clients, client, ls2, blockingkeys, order, {x \in renamed : ls2[x] # << >>})
<1> DEFINE t == Front(stack)
           f == Last(stack)
           es == {f[4]} \cup fr
           d == Freed(Dirtied(t), es)
           ren2 == {x \in renamed : ls2[x] # << >>}
<1>1. /\ StackOK(clients, client, stack) /\ DataOK(stack, lists, pushed, got) /\ MultiOK(stack, slaveMulti)
      /\ BlockOK(clients, client, lists, blockingkeys, order, renamed)
  BY DEF At
<1>2. stack \in Seq(Frame)
  BY <1>1 DEF StackOK
<1>3. t \in Seq(Frame) /\ f \in Frame /\ stack = Append(t, f) /\ Last(stack) = f
  BY <1>2, Recombined
<1>4. stack # Undefined /\ t # Undefined
  BY <1>1, NotUndefined
<1>5. StackOK(clients, client, t)
  BY <1>1, StackPop
<1>6. MultiOK(t, slaveMulti)
  BY <1>1, <1>2, <1>4, MultiPop
<1>7. f[1] = "rpoplpush" /\ ~f[5] /\ Left(ls2, lists, f[4], fr)
  OBVIOUS
<1>8. \A x \in Key : ls2[x] # << >> => lists[x] # << >>
  BY <1>7 DEF Left
<1> HIDE DEF t, f
<1>9. DataOK(d, ls2, pushed, go2)
  <2>1. DataOK(Append(t, f), lists, pushed, got) /\ Append(t, f) # Undefined
    BY <1>1, <1>3, <1>4
  <2> QED BY <1>3, <1>4, <1>7, <2>1, NodeGone
<1> HIDE DEF es
<1>10. Alike(d, t)
  BY <1>3, NotedAlike
<1> HIDE DEF d
<1>11. StackOK(clients, client, d)
  BY <1>5, <1>10, StackAlike
<1>12. MultiOK(d, slaveMulti)
  BY <1>3, <1>6, <1>10, MultiAlike
<1>13. BlockOK(clients, client, ls2, blockingkeys, order, ren2)
  <2>1. renamed \subseteq Key /\ \A j \in Key : lists[j] # << >> /\ blockingkeys[j] # << >> => j \in renamed
    BY <1>1 DEF BlockOK
  <2>2. \A x : x \in ren2 <=> x \in renamed /\ ls2[x] # << >>
    OBVIOUS
  <2> HIDE DEF ren2
  <2>3. ren2 \in SUBSET Key
    BY <2>1, <2>2
  <2>4. \A j \in Key : ls2[j] # << >> /\ blockingkeys[j] # << >> => j \in ren2
    BY <1>8, <2>1, <2>2
  <2> QED BY <1>1, <2>3, <2>4, BlockLists
<1> QED BY <1>9, <1>11, <1>12, <1>13 DEF d, es, t, f

\* RPOPLPUSH takes the node it has pushed from out of its list, with all the list if that is empty then.
LEMMA RpoplpushEndKeeps ==
  ASSUME At(stack, client), rpoplpushEnd
  PROVE  At(stack, client)'
<1> DEFINE k == Top[3]
           e == Top[4]
           at == {x \in Key : e \in ToSet(lists[x])}
           l == [x \in Key |-> Without(lists[x], {e})]
           deleted == IF \A x \in at : l[x] = << >> THEN {k} ELSE {}
           fr == UNION {ToSet(l[x]) : x \in deleted}
           es == {e} \cup fr
<1>1. stack # << >> /\ Last(stack)[1] = "rpoplpush"
  BY DEF rpoplpushEnd, Top
<1>2. /\ clients' = clients /\ client' = client /\ blockingkeys' = blockingkeys /\ order' = order /\ slaveMulti' = slaveMulti
      /\ pubsub_channels' = pubsub_channels /\ pubsub_patterns' = pubsub_patterns
  BY DEF rpoplpushEnd, blocking, pubsub
<1>3. CASE Top[5]
  <2>1. stack' = Undefined /\ lists' = lists /\ pushed' = pushed /\ got' = got /\ renamed' = renamed
    BY <1>3 DEF rpoplpushEnd, data
  <2>2. At(Undefined, client)
    BY UndefinedOK
  <2> QED BY <1>2, <2>1, <2>2 DEF At
<1>4. CASE ~Top[5]
  <2>1. /\ lists' = [x \in Key |-> IF x \in deleted THEN << >> ELSE l[x]]
        /\ got' = [x \in DOMAIN got |-> IF x \in fr THEN got[x] + 1 ELSE got[x]]
        /\ renamed' = {x \in renamed : lists'[x] # << >>}
        /\ stack' = Freed(Dirtied(Front(stack)), {e} \cup fr)
        /\ pushed' = pushed
    BY <1>4 DEF rpoplpushEnd
  <2>2. deleted \in SUBSET {k}
    OBVIOUS
  <2>3. k = Last(stack)[3] /\ e = Last(stack)[4] /\ ~Last(stack)[5]
    BY <1>4 DEF Top
  <2>4. Elements(fr, l, deleted) /\ l = Removed(lists, e)
    BY DEF Removed, Elements
  <2> HIDE DEF k, e, at, l, deleted, fr
  <2>5. lists' = Emptied(l, deleted)
    BY <2>1 DEF Emptied
  <2>6. k \in Key /\ ListsOK(lists) /\ got \in [1 .. MaxPushed -> Nat]
    <3>1. stack \in Seq(Frame) /\ ListsOK(lists) /\ got \in [1 .. MaxPushed -> Nat]
      BY DEF At, StackOK, DataOK
    <3>2. Last(stack) \in Frame
      BY <1>1, <3>1, Recombined
    <3> QED BY <1>1, <2>3, <3>1, <3>2, FrameKinds
  <2>7. deleted \in SUBSET Key
    BY <2>2, <2>6
  <2>8. Left(Emptied(Removed(lists, e), deleted), lists, e, fr)
    <3>1. Elements(fr, Removed(lists, e), deleted)
      BY <2>4
    <3> QED BY <2>6, <2>7, <3>1, ListsLeft
  <2>9. Left(lists', lists, Last(stack)[4], fr)
    BY <2>3, <2>4, <2>5, <2>8
  <2>10. Given(got', got, fr)
    BY <2>1, <2>6 DEF Given
  <2>11. LET d == Freed(Dirtied(Front(stack)), {Last(stack)[4]} \cup fr)
         IN  /\ StackOK(clients, client, d) /\ DataOK(d, lists', pushed, got') /\ MultiOK(d, slaveMulti)
             /\ BlockOK(clients, client, lists', blockingkeys, order, {x \in renamed : lists'[x] # << >>})
    BY <1>1, <2>3, <2>9, <2>10, NodeDeleted
  <2>12. /\ StackOK(clients, client, stack') /\ DataOK(stack', lists', pushed, got') /\ MultiOK(stack', slaveMulti)
         /\ BlockOK(clients, client, lists', blockingkeys, order, renamed')
    BY <2>1, <2>3, <2>11
  <2> QED BY <1>2, <2>1, <2>12 DEF At
<1> QED BY <1>3, <1>4

-----------------------------------------------------------------------------
(* Events *)

\* The only call is one for c, or one of the cron.
LEMMA FirstCall ==
  ASSUME NEW cl, At(<< >>, cl), NEW f \in Frame, f[1] \in {"cron", "input"},
         f[1] = "input" => f[2] \in ToSet(clients) /\ cl[f[2]].buf # << >>
  PROVE  /\ At(<<f>>, cl) /\ <<f>> # Undefined /\ <<f>> \in Seq(Frame)
         /\ f[1] = "cron" => (\A n \in DOMAIN <<f>> : ~Owned(<<f>>[n])) /\ NoneBlocked(cl, <<f>>)
<1> DEFINE s == <<f>>
<1>1. s \in Seq(Frame) /\ Len(s) = 1 /\ DOMAIN s = {1} /\ s[1] = f /\ s = Append(<< >>, f) /\ << >> \in Seq(Frame)
  OBVIOUS
<1>2. << >> # Undefined
  <2>1. Len(Undefined) = 1
    BY DEF Undefined
  <2> QED BY <2>1
<1>3. s # Undefined
  <2>1. Undefined[1][1] = "undefined"
    BY DEF Undefined
  <2> HIDE DEF s
  <2> QED BY <1>1, <2>1
<1> HIDE DEF s
<1>4. DataOK(<< >>, lists, pushed, got) /\ MultiOK(<< >>, slaveMulti)
  BY DEF At
<1>5. StackOK(clients, cl, s)
  BY <1>1 DEF StackOK, Owned
<1>6. DataOK(s, lists, pushed, got)
  <2>1. f[1] # "rpoplpush"
    OBVIOUS
  <2>2. DataOK(Append(<< >>, f), lists, pushed, got)
    BY <1>1, <1>2, <1>3, <1>4, <2>1, DataAppend
  <2> QED BY <1>1, <2>2
<1>7. MultiOK(s, slaveMulti)
  <2>1. MultiOK(Append(<< >>, f), slaveMulti)
    BY <1>1, <1>2, <1>4, MultiAppend
  <2> QED BY <1>1, <2>1
<1>8. At(s, cl)
  BY <1>5, <1>6, <1>7 DEF At
<1>9. f[1] = "cron" => (\A n \in DOMAIN s : ~Owned(s[n])) /\ NoneBlocked(cl, s)
  BY <1>1 DEF Owned, NoneBlocked
<1> QED BY <1>1, <1>3, <1>8, <1>9 DEF s

\* The client after c, or none.
LEMMA FollowingIs ==
  ASSUME clients \in Seq(Client), NEW c, Live(c)
  PROVE  Following(c) \in Client \cup {NIL}
<1> DEFINE n == CHOOSE n \in DOMAIN clients : clients[n] = c
<1>1. \E m \in DOMAIN clients : clients[m] = c
  BY DEF Live, ToSet
<1>2. n \in DOMAIN clients
  BY <1>1
<1>3. DOMAIN clients = 1 .. Len(clients) /\ Len(clients) \in Nat
  OBVIOUS
<1>4. Following(c) = IF n < Len(clients) THEN clients[n + 1] ELSE NIL
  BY DEF Following
<1> HIDE DEF n
<1>5. n < Len(clients) => clients[n + 1] \in Client
  BY <1>2, <1>3
<1> QED BY <1>4, <1>5

\* One client in the cron.
LEMMA TimeoutKeeps ==
  ASSUME At(stack, client), closeTimedoutClient
  PROVE  At(stack, client)'
<1> DEFINE c == Top[2]
           s == << <<"cron", Following(c)>> >>
<1>1. stack # << >> /\ Last(stack)[1] = "cron"
  BY DEF closeTimedoutClient, Top
<1>2. StackOK(clients, client, stack) /\ ClientsOK(clients, client)
  BY DEF At
<1>3. stack \in Seq(Frame) /\ clients \in Seq(Client) /\ client \in [Client -> ClientRec]
  BY <1>2 DEF StackOK, ClientsOK
<1>4. /\ Last(stack) \in Frame /\ Last(stack) = stack[Len(stack)] /\ Len(stack) \in DOMAIN stack
      /\ Front(stack) \in Seq(Frame) /\ Len(Front(stack)) = Len(stack) - 1
  BY <1>1, <1>3, Recombined
<1>5. Len(stack) = 1
  BY <1>1, <1>2, <1>4 DEF StackOK
<1>6. Front(stack) = << >>
  BY <1>4, <1>5
<1>7. At(<< >>, client)
  BY <1>1, <1>6, TopGoes
<1>8. c \in Client \cup {NIL}
  BY <1>1, <1>4, FrameKinds DEF Top
<1> HIDE DEF c
<1>9. ASSUME Live(c)
      PROVE  /\ At(s, client) /\ s # Undefined /\ s \in Seq(Frame) /\ c \in Client /\ c \in ToSet(clients)
             /\ (\A n \in DOMAIN s : ~Owned(s[n])) /\ NoneBlocked(client, s)
  <2> DEFINE f == <<"cron", Following(c)>>
  <2>1. Following(c) \in Client \cup {NIL}
    BY <1>3, <1>9, FollowingIs
  <2>2. f \in Frame /\ f[1] = "cron"
    BY <2>1, FramesAre
  <2>3. s = <<f>>
    OBVIOUS
  <2> HIDE DEF f, s
  <2>4. c \in ToSet(clients) /\ \A x \in ToSet(clients) : x \in Client
    BY <1>3, <1>9 DEF Live, ToSet
  <2>5. /\ At(<<f>>, client) /\ <<f>> # Undefined /\ <<f>> \in Seq(Frame)
        /\ (\A n \in DOMAIN <<f>> : ~Owned(<<f>>[n])) /\ NoneBlocked(client, <<f>>)
    BY <1>7, <2>2, FirstCall
  <2> QED BY <2>3, <2>4, <2>5
<1>10. CASE Nothing(Front(stack), client)
  BY <1>6, <1>7, <1>10, NothingKeeps
<1>11. CASE Nothing(Undefined, client)
  <2>1. At(Undefined, client)
    BY UndefinedOK
  <2> QED BY <1>11, <2>1, NothingKeeps
<1>12. CASE Live(c) /\ freeClient(c) /\ stack' = s
  <2>1. At(s, client) /\ c \in Client /\ \A n \in DOMAIN s : Owned(s[n]) => s[n][2] # c
    BY <1>9, <1>12
  <2>2. freeClient(c) /\ stack' = s
    BY <1>12
  <2> HIDE DEF s
  <2> QED BY <2>1, <2>2, FreeKeeps
<1>13. CASE Live(c) /\ Nothing(s, client)
  BY <1>9, <1>13, NothingKeeps
<1>14. CASE /\ Live(c) /\ Blocked(c)
            /\ unblockClientWaitingData(c)
            /\ client' = [client EXCEPT ![c].bkeys = << >>, ![c].timed = FALSE]
            /\ stack' = s \o Input(c)
            /\ UNCHANGED <<clients, data, pubsub, slaveMulti>>
  <2> DEFINE cl2 == [client EXCEPT ![c].bkeys = << >>, ![c].timed = FALSE]
             i == Input(c)
  <2>1. /\ At(s, client) /\ s # Undefined /\ s \in Seq(Frame) /\ c \in Client /\ c \in ToSet(clients)
        /\ NoneBlocked(client, s) /\ \A n \in DOMAIN s : ~Owned(s[n])
    BY <1>9, <1>14
  <2>2. /\ blockingkeys' = Unlisted(blockingkeys, c) /\ order' = Without(order, {c}) /\ client' = cl2 /\ stack' = s \o i
        /\ clients' = clients /\ lists' = lists /\ pushed' = pushed /\ got' = got /\ renamed' = renamed
        /\ pubsub_channels' = pubsub_channels /\ pubsub_patterns' = pubsub_patterns /\ slaveMulti' = slaveMulti
    BY <1>14 DEF unblockClientWaitingData, Unblocked, Unlisted, data, pubsub
  <2>3. i = IF client[c].buf # << >> THEN << <<"input", c>> >> ELSE << >>
    BY DEF Input
  <2> HIDE DEF s, i
  <2>4. Waiting(cl2, client, c, << >>)
    <3>1. << >> \in Seq(Key) /\ FALSE \in BOOLEAN
      OBVIOUS
    <3> QED BY <1>3, <2>1, <3>1, WaitingIs
  <2> HIDE DEF cl2
  <2>5. cl2[c].bkeys = << >> /\ cl2[c].buf = client[c].buf
    BY <2>4 DEF Waiting
  <2>6. client[c].bkeys # << >>
    BY <1>14 DEF Blocked
  <2>7. /\ StackOK(clients, client, s) /\ DataOK(s, lists, pushed, got) /\ MultiOK(s, slaveMulti)
        /\ ClientsOK(clients, client) /\ BlockOK(clients, client, lists, blockingkeys, order, renamed)
        /\ PubOK(clients, client, pubsub_channels, pubsub_patterns)
    BY <2>1 DEF At
  <2>8. StackOK(clients, cl2, s) /\ NoneBlocked(cl2, s)
    BY <2>1, <2>4, <2>6, <2>7, UnwaitingCalls
  <2>9. ClientsOK(clients, cl2)
    BY <2>1, <2>4, <2>7, WaitingClients
  <2>10. PubOK(clients, cl2, pubsub_channels, pubsub_patterns)
    BY <2>1, <2>4, <2>7, WaitingPub
  <2>11. BlockOK(clients, cl2, lists, Unlisted(blockingkeys, c), Without(order, {c}), renamed)
    BY <2>1, <2>4, <2>6, <2>7, UnwaitingBlock
  <2>12. StackOK(clients, cl2, s \o i) /\ DataOK(s \o i, lists, pushed, got) /\ MultiOK(s \o i, slaveMulti)
    <3>1. i = IF cl2[c].buf # << >> THEN << <<"input", c>> >> ELSE << >>
      BY <2>3, <2>5
    <3>2. \A n \in DOMAIN s : Owned(s[n]) => s[n][2] # c
      BY <2>1
    <3>3. DataOK(s, lists, pushed, got) /\ MultiOK(s, slaveMulti)
      BY <2>7
    <3> QED BY <2>1, <2>5, <2>8, <3>1, <3>2, <3>3, InputAdded
  <2> QED BY <2>2, <2>9, <2>10, <2>11, <2>12 DEF At
<1>15. \/ Nothing(Front(stack), client)
       \/ Nothing(Undefined, client)
       \/ Live(c) /\ freeClient(c) /\ stack' = s
       \/ /\ Live(c) /\ Blocked(c)
          /\ unblockClientWaitingData(c)
          /\ client' = [client EXCEPT ![c].bkeys = << >>, ![c].timed = FALSE]
          /\ stack' = s \o Input(c)
          /\ UNCHANGED <<clients, data, pubsub, slaveMulti>>
       \/ Live(c) /\ Nothing(s, client)
  BY DEF closeTimedoutClient, c
<1> QED BY <1>10, <1>11, <1>12, <1>13, <1>14, <1>15

\* A client connects.
LEMMA AcceptKeeps ==
  ASSUME At(stack, client), NEW c \in Client, acceptHandler(c)
  PROVE  At(stack, client)'
<1>1. /\ stack = << >> /\ c \notin ToSet(clients) /\ clients' = Append(clients, c)
      /\ client' = client /\ stack' = stack /\ lists' = lists /\ pushed' = pushed /\ got' = got /\ renamed' = renamed
      /\ blockingkeys' = blockingkeys /\ order' = order /\ slaveMulti' = slaveMulti
      /\ pubsub_channels' = pubsub_channels /\ pubsub_patterns' = pubsub_patterns
  BY DEF acceptHandler, Live, data, blocking, pubsub
<1>2. /\ DataOK(stack, lists, pushed, got) /\ MultiOK(stack, slaveMulti)
      /\ ClientsOK(clients, client) /\ BlockOK(clients, client, lists, blockingkeys, order, renamed)
      /\ PubOK(clients, client, pubsub_channels, pubsub_patterns)
  BY DEF At
<1>3. clients \in Seq(Client) /\ IsInjective(clients)
  BY <1>2 DEF ClientsOK
<1>4. clients' \in Seq(Client) /\ IsInjective(clients') /\ \A x \in ToSet(clients) : x \in ToSet(clients')
  <2> DEFINE t == Append(clients, c)
  <2>1. t \in Seq(Client) /\ IsInjective(t) /\ \A x : x \in ToSet(t) <=> x \in ToSet(clients) \/ x = c
    BY <1>1, <1>3, AppendIs
  <2>2. clients' = t
    BY <1>1
  <2> HIDE DEF t
  <2> QED BY <2>1, <2>2
<1> DEFINE cls2 == clients'
<1>5. ClientsOK(cls2, client)
  BY <1>2, <1>4 DEF ClientsOK
<1>6. StackOK(cls2, client, << >>)
  <2>1. << >> \in Seq(Frame) /\ DOMAIN << >> = {}
    OBVIOUS
  <2> QED BY <2>1 DEF StackOK
<1>7. BlockOK(cls2, client, lists, blockingkeys, order, renamed)
  BY <1>2, <1>4 DEF BlockOK
<1>8. PubOK(cls2, client, pubsub_channels, pubsub_patterns)
  BY <1>2, <1>4 DEF PubOK
<1> QED BY <1>1, <1>2, <1>5, <1>6, <1>7, <1>8 DEF At

\* A client is read from.
LEMMA ReadKeeps ==
  ASSUME CInv, NEW c \in Client, NEW n \in 1 .. MaxBuf, readQueryFromClient(c, n)
  PROVE  CInv'
<1> DEFINE more == SubSeq(todo[c], 1, n)
           buf == client[c].buf \o more
           rec == [client[c] EXCEPT !.buf = buf]
           cl2 == [client EXCEPT ![c].buf = @ \o SubSeq(todo[c], 1, n)]
           f == <<"input", c>>
<1>1. /\ stack = << >> /\ c \in ToSet(clients) /\ n <= Len(todo[c]) /\ Len(client[c].buf) + n <= MaxBuf
      /\ client' = cl2 /\ stack' = <<f>>
      /\ todo' = [todo EXCEPT ![c] = SubSeq(@, n + 1, Len(@))]
      /\ clients' = clients /\ lists' = lists /\ pushed' = pushed /\ got' = got /\ renamed' = renamed
      /\ blockingkeys' = blockingkeys /\ order' = order /\ slaveMulti' = slaveMulti
      /\ pubsub_channels' = pubsub_channels /\ pubsub_patterns' = pubsub_patterns
  BY DEF readQueryFromClient, Live, data, blocking, pubsub
<1>2. At(stack, client) /\ todo \in [Client -> Seq(Command)]
  BY DEF CInv
<1>3. ClientsOK(clients, client)
  BY <1>2 DEF At
<1>4. client \in [Client -> ClientRec] /\ client[c] \in ClientRec /\ client[c].buf \in Seq(Command) /\ MaxBuf \in Nat
  BY <1>3, ClientsBoundAssumption DEF ClientsOK, ClientRec
<1>5. todo[c] \in Seq(Command) /\ n \in Nat /\ Len(todo[c]) \in Nat
  BY <1>2, <1>4
<1>6. more \in Seq(Command) /\ Len(more) = n
  BY <1>1, <1>5
<1>7. buf \in Seq(Command) /\ Len(buf) = Len(client[c].buf) + n /\ buf # << >>
  <2> HIDE DEF more
  <2>1. buf \in Seq(Command) /\ Len(buf) = Len(client[c].buf) + n /\ Len(client[c].buf) \in Nat /\ n > 0
    <3> DEFINE b == client[c].buf
    <3>1. b \in Seq(Command) /\ n > 0
      BY <1>4
    <3> HIDE DEF b
    <3>2. b \o more \in Seq(Command) /\ Len(b \o more) = Len(b) + n /\ Len(b) \in Nat
      BY ONLY <1>6, <3>1
    <3> QED BY ONLY <3>1, <3>2 DEF b, buf
  <2> HIDE DEF buf
  <2>2. buf = << >> => Len(buf) = 0
    OBVIOUS
  <2> QED BY <1>5, <2>1, <2>2
<1>8. cl2 = [client EXCEPT ![c] = rec]
  BY <1>4
<1> HIDE DEF cl2, more, buf
<1>9. /\ rec \in ClientRec /\ rec.buf = buf /\ rec.queue = client[c].queue /\ rec.bkeys = client[c].bkeys
      /\ rec.multi = client[c].multi /\ rec.chans = client[c].chans /\ rec.pats = client[c].pats
  BY <1>4, <1>7 DEF ClientRec
<1> HIDE DEF rec
<1>10. Set(cl2, client, c, rec)
  <2>1. Set([client EXCEPT ![c] = rec], client, c, rec)
    BY <1>4, <1>9, SetIs
  <2> QED BY <1>8, <2>1
<1>11. At(<< >>, cl2)
  <2>1. /\ At(<< >>, client) /\ Len(rec.buf) <= MaxBuf
        /\ \A x \in ToSet(rec.queue) : x[1] \notin {"exec", "discard", "quit"}
        /\ rec \in ClientRec
    BY <1>1, <1>2, <1>3, <1>7, <1>9 DEF ClientsOK
  <2>2. \A m \in DOMAIN << >> : Owned(<< >>[m]) /\ << >>[m][2] = c => << >>[m][1] = "input" /\ rec.buf # << >>
    OBVIOUS
  <2> QED BY <1>9, <1>10, <2>1, <2>2, BuffersSet
<1>12. At(<<f>>, cl2)
  <2>1. f \in Frame /\ f[1] = "input" /\ f[2] = c
    BY FramesAre
  <2>2. cl2[f[2]].buf # << >>
    BY <1>7, <1>9, <1>10, <2>1 DEF Set
  <2> HIDE DEF f
  <2> QED BY <1>1, <1>11, <2>1, <2>2, FirstCall
<1> HIDE DEF f
<1>13. At(stack, client)'
  BY <1>1, <1>12 DEF At
<1>14. todo' \in [Client -> Seq(Command)]
  <2>1. SubSeq(todo[c], n + 1, Len(todo[c])) \in Seq(Command)
    BY <1>1, <1>5
  <2> QED BY <1>1, <1>2, <2>1
<1> QED BY <1>13, <1>14 DEF CInv

\* The cron looks at the clients.
LEMMA CronKeeps ==
  ASSUME At(stack, client), serverCron
  PROVE  At(stack, client)'
<1> DEFINE f == <<"cron", Head(clients)>>
<1>1. /\ stack = << >> /\ clients # << >> /\ stack' = <<f>>
      /\ clients' = clients /\ client' = client /\ lists' = lists /\ pushed' = pushed /\ got' = got /\ renamed' = renamed
      /\ blockingkeys' = blockingkeys /\ order' = order /\ slaveMulti' = slaveMulti
      /\ pubsub_channels' = pubsub_channels /\ pubsub_patterns' = pubsub_patterns
  BY DEF serverCron, data, blocking, pubsub
<1>2. clients \in Seq(Client)
  BY DEF At, ClientsOK
<1>3. f \in Frame /\ f[1] = "cron"
  <2>1. Head(clients) \in Client
    BY <1>1, <1>2
  <2> QED BY <2>1, FramesAre
<1> HIDE DEF f
<1>4. At(<<f>>, client)
  BY <1>1, <1>3, FirstCall
<1> QED BY <1>1, <1>4 DEF At

\* A connection is lost.
LEMMA LostKeeps ==
  ASSUME At(stack, client), NEW c \in Client, connectionLost(c)
  PROVE  At(stack, client)'
<1>1. stack = << >> /\ freeClient(c) /\ stack' = stack
  BY DEF connectionLost
<1>2. \A n \in DOMAIN stack : Owned(stack[n]) => stack[n][2] # c
  BY <1>1
<1> QED BY <1>1, <1>2, FreeKeeps

-----------------------------------------------------------------------------
(* The beginning *)

\* A new server, which has the clients cls.
LEMMA NewServer ==
  ASSUME NEW cls \in Seq(Client), IsInjective(cls)
  PROVE  LET cl == [c \in Client |-> NewClient]
         IN  /\ ClientsOK(cls, cl) /\ StackOK(cls, cl, << >>)
             /\ BlockOK(cls, cl, NoLists, NoLists, << >>, {})
             /\ DataOK(<< >>, NoLists, 0, NoneGot)
             /\ PubOK(cls, cl, NoSubscribers, << >>) /\ MultiOK(<< >>, FALSE)
<1> DEFINE cl == [c \in Client |-> NewClient]
<1>1. /\ NewClient \in ClientRec /\ NewClient.bkeys = << >> /\ NewClient.buf = << >> /\ NewClient.queue = << >>
      /\ NewClient.chans = {} /\ NewClient.pats = {}
  <2>1. << >> \in Seq(Command) /\ << >> \in Seq(Key) /\ FALSE \in BOOLEAN
    OBVIOUS
  <2> QED BY <2>1 DEF NewClient, ClientRec
<1>2. cl \in [Client -> ClientRec] /\ \A c \in Client : cl[c] = NewClient
  BY <1>1
<1> HIDE DEF cl
<1>3. Len(<< >>) = 0 /\ ToSet(<< >>) = {} /\ DOMAIN << >> = {} /\ MaxBuf \in Nat /\ MaxPushed \in Nat
  BY ClientsBoundAssumption DEF ToSet
<1>4. << >> \in Seq(Client) /\ << >> \in Seq(Frame) /\ << >> \in Seq(1 .. MaxPushed) /\ << >> \in Seq(Client \X Pattern)
  OBVIOUS
<1>5. IsInjective(<< >>)
  BY <1>3 DEF IsInjective
<1>6. ClientsOK(cls, cl)
  BY <1>1, <1>2, <1>3 DEF ClientsOK
<1>7. StackOK(cls, cl, << >>)
  BY <1>3, <1>4 DEF StackOK
<1>8. \A k \in Key : NoLists[k] = << >>
  BY DEF NoLists
<1>9. BlockOK(cls, cl, NoLists, NoLists, << >>, {})
  <2>1. NoLists \in [Key -> Seq(Client)]
    BY <1>4 DEF NoLists
  <2>2. \A c \in Client, k \in Key : Count(NoLists[k], c) = Count(cl[c].bkeys, k)
    <3>1. ASSUME NEW x PROVE Count(<< >>, x) = 0
      <4>1. x \notin ToSet(<< >>)
        BY <1>3
      <4> QED BY <1>4, <4>1, CountIs
    <3> QED BY <1>1, <1>2, <1>8, <3>1
  <2>3. \A c \in Client : c \in ToSet(<< >>) <=> cl[c].bkeys # << >>
    BY <1>1, <1>2, <1>3
  <2>4. \A c \in Client : cl[c].bkeys # << >> => c \in ToSet(cls) /\ ~cl[c].multi
    BY <1>1, <1>2
  <2> QED BY <1>3, <1>4, <1>5, <1>8, <2>1, <2>2, <2>3, <2>4 DEF BlockOK
<1>10. DataOK(<< >>, NoLists, 0, NoneGot)
  <2>1. NoneGot \in [1 .. MaxPushed -> Nat] /\ \A e \in 1 .. MaxPushed : NoneGot[e] = 0
    BY DEF NoneGot
  <2>2. NoLists \in [Key -> Seq(1 .. MaxPushed)]
    BY <1>4 DEF NoLists
  <2>3. ListsOK(NoLists)
    BY <1>3, <1>8, <2>2 DEF ListsOK
  <2>4. \A e : ~InList(NoLists, e)
    BY <1>3, <1>8 DEF InList
  <2>5. \A e \in 1 .. MaxPushed : ElementOK(<< >>, NoLists, 0, NoneGot[e], e)
    BY <1>3, <2>1, <2>4 DEF ElementOK
  <2> QED BY <1>3, <2>1, <2>3, <2>5 DEF DataOK
<1>11. PubOK(cls, cl, NoSubscribers, << >>)
  <2>1. NoSubscribers \in [Channel -> Seq(Client)] /\ \A h \in Channel : NoSubscribers[h] = << >>
    BY <1>4 DEF NoSubscribers
  <2> QED BY <1>1, <1>2, <1>3, <1>4, <1>5, <2>1 DEF PubOK
<1>12. MultiOK(<< >>, FALSE)
  BY DEF MultiOK
<1> QED BY <1>6, <1>7, <1>9, <1>10, <1>11, <1>12 DEF cl

\* The server ends where its behaviour is undefined, and starts again.
LEMMA RestartKeeps ==
  ASSUME At(stack, client), restart
  PROVE  At(stack, client)'
<1>1. << >> \in Seq(Client) /\ IsInjective(<< >>)
  BY DEF IsInjective
<1> QED BY <1>1, NewServer DEF restart, At

\* In the beginning each client is connected once.
LEMMA CInitially ==
  CInit => CInv
<1> SUFFICES ASSUME CInit PROVE CInv
  OBVIOUS
<1> DEFINE n == Cardinality(Client)
<1>1. n \in Nat /\ clients \in [1 .. n -> Client] /\ ToSet(clients) = Client
  BY ClientsFiniteAssumption, FS_CardinalityType DEF CInit
<1>2. /\ client = [c \in Client |-> NewClient]
      /\ lists = NoLists /\ pushed = 0 /\ got = NoneGot /\ renamed = {}
      /\ blockingkeys = NoLists /\ order = << >>
      /\ pubsub_channels = NoSubscribers /\ pubsub_patterns = << >>
      /\ stack = << >> /\ slaveMulti = FALSE /\ todo \in [Client -> Program]
  BY DEF CInit
<1> HIDE DEF n
<1>3. clients \in Seq(Client)
  BY <1>1, SeqDef
<1>4. IsInjective(clients)
  <2>1. IsFiniteSet(1 .. n) /\ Cardinality(1 .. n) = n
    <3>1. 1 \in Int /\ n \in Int /\ (IF 1 > n THEN 0 ELSE n - 1 + 1) = n
      BY <1>1
    <3> QED BY <3>1, FS_Interval
  <2>2. DOMAIN clients = 1 .. n
    BY <1>1
  <2>3. clients \in Surjection(1 .. n, Client)
    BY <1>1, <2>2 DEF Surjection, ToSet
  <2>4. clients \in Injection(1 .. n, Client)
    BY <2>1, <2>3, FS_SurjSameCardinalityImpliesInj DEF n
  <2> QED BY <2>4 DEF Injection
<1>5. At(stack, client)
  BY <1>2, <1>3, <1>4, NewServer DEF At
<1>6. todo \in [Client -> Seq(Command)]
  BY <1>2, ClientsProgramAssumption
<1> QED BY <1>5, <1>6 DEF CInv

-----------------------------------------------------------------------------
(* Every step *)

\* Every step keeps the invariant.
LEMMA CStep ==
  CInv /\ [CNext]_cvars => CInv'
<1> SUFFICES ASSUME CInv, [CNext]_cvars PROVE CInv'
  OBVIOUS
<1>1. At(stack, client) /\ todo \in [Client -> Seq(Command)]
  BY DEF CInv
<1>2. CASE UNCHANGED cvars
  BY <1>1, <1>2 DEF cvars, data, blocking, pubsub, CInv, At
<1>3. ASSUME NEW c \in Client, acceptHandler(c) PROVE CInv'
  BY <1>1, <1>3, AcceptKeeps DEF CInv, acceptHandler
<1>4. ASSUME NEW c \in Client, connectionLost(c) PROVE CInv'
  BY <1>1, <1>4, LostKeeps DEF CInv, connectionLost
<1>5. ASSUME NEW c \in Client, NEW n \in 1 .. MaxBuf, readQueryFromClient(c, n) PROVE CInv'
  BY <1>5, ReadKeeps
<1>6. CASE serverCron
  BY <1>1, <1>6, CronKeeps DEF CInv, serverCron
<1>7. CASE processInputBuffer
  BY <1>1, <1>7, InputKeeps DEF CInv, processInputBuffer
<1>8. CASE callEnd
  BY <1>1, <1>8, CallEndKeeps DEF CInv, callEnd
<1>9. CASE execStep
  BY <1>1, <1>9, ExecStepKeeps DEF CInv, execStep
<1>10. CASE rpoplpushEnd
  BY <1>1, <1>10, RpoplpushEndKeeps DEF CInv, rpoplpushEnd
<1>11. CASE closeTimedoutClient
  BY <1>1, <1>11, TimeoutKeeps DEF CInv, closeTimedoutClient
<1>12. CASE restart
  BY <1>1, <1>12, RestartKeeps DEF CInv, restart
<1> QED BY <1>2, <1>3, <1>4, <1>5, <1>6, <1>7, <1>8, <1>9, <1>10, <1>11, <1>12 DEF CNext

\* The invariant holds always.
LEMMA CAlways ==
  CSpec => []CInv
BY CInitially, CStep, PTL DEF CSpec

-----------------------------------------------------------------------------
(* What the invariant says of waiting clients *)

\* BlockOK, as WaitersSound says it.
LEMMA WaitersFromInv ==
  CInv => WaitersSound
<1> SUFFICES ASSUME CInv PROVE WaitersSound
  OBVIOUS
<1>1. BlockOK(clients, client, lists, blockingkeys, order, renamed)
  BY DEF CInv, At
<1>2. BlockedBothWays
  BY <1>1 DEF BlockOK, BlockedBothWays, Blocked, Live
<1>3. NobodyStarves
  BY <1>1 DEF BlockOK, NobodyStarves
<1> QED BY <1>2, <1>3 DEF WaitersSound

-----------------------------------------------------------------------------
(* What it says of what is handed on *)

\* A sequence without repetition is as long as it has elements.
LEMMA LengthIs ==
  ASSUME NEW S, NEW s \in Seq(S), IsInjective(s)
  PROVE  Len(s) = Cardinality(ToSet(s)) /\ IsFiniteSet(ToSet(s))
<1> DEFINE A == 1 .. Len(s)
           B == ToSet(s)
<1>1. Len(s) \in Nat /\ DOMAIN s = A
  OBVIOUS
<1>2. IsFiniteSet(A) /\ Cardinality(A) = Len(s)
  <2>1. 1 \in Int /\ Len(s) \in Int /\ (IF 1 > Len(s) THEN 0 ELSE Len(s) - 1 + 1) = Len(s)
    BY <1>1
  <2> QED BY <2>1, FS_Interval
<1>3. s \in [A -> B] /\ (\A x, y \in A : s[x] = s[y] => x = y) /\ \A b \in B : \E a \in A : s[a] = b
  BY <1>1 DEF ToSet, IsInjective
<1> HIDE DEF A, B
<1>4. IsFiniteSet(B) /\ Cardinality(B) = Cardinality(A)
  BY <1>2, <1>3, AsMany
<1> QED BY <1>2, <1>4 DEF B

\* The parts of the invariant give the types.
LEMMA TypesFromInv ==
  CInv => ClientsTypeOK
<1> SUFFICES ASSUME CInv PROVE ClientsTypeOK
  OBVIOUS
<1>1. /\ StackOK(clients, client, stack) /\ DataOK(stack, lists, pushed, got) /\ MultiOK(stack, slaveMulti)
      /\ ClientsOK(clients, client) /\ BlockOK(clients, client, lists, blockingkeys, order, renamed)
  BY DEF CInv, At
<1>2. clients \in Seq(Client) /\ IsInjective(clients) /\ client \in [Client -> ClientRec]
  BY <1>1 DEF ClientsOK
<1>3. ToSet(clients) \subseteq Client /\ Len(clients) = Cardinality(ToSet(clients))
  <2>1. ToSet(clients) \subseteq Client
    BY <1>2 DEF ToSet
  <2> QED BY <1>2, <2>1, LengthIs
<1>4. \A c \in Client : /\ client[c].buf \in Seq(Command) /\ Len(client[c].buf) <= MaxBuf
                        /\ client[c].queue \in Seq(Command)
                        /\ client[c].bkeys \in Seq(Key)
                        /\ client[c].chans \subseteq Channel /\ client[c].pats \subseteq Pattern
                        /\ client[c].multi \in BOOLEAN /\ client[c].timed \in BOOLEAN
  <2> TAKE c \in Client
  <2>1. client[c] \in ClientRec
    BY <1>2
  <2>2. Len(client[c].buf) <= MaxBuf
    BY <1>1 DEF ClientsOK
  <2> QED BY <2>1, <2>2 DEF ClientRec
<1>5. \A k \in Key : lists[k] \in Seq(1 .. MaxPushed) /\ blockingkeys[k] \in Seq(Client)
  BY <1>1 DEF DataOK, ListsOK, BlockOK
<1>6. stack \in Seq(Frame) /\ DOMAIN stack = 1 .. Len(stack) /\ Len(stack) \in Nat
  <2>1. stack \in Seq(Frame)
    BY <1>1 DEF StackOK
  <2> QED BY <2>1
<1>7. ASSUME NEW n \in DOMAIN stack
      PROVE  FrameOK(stack[n])
  <2>1. stack[n] \in Frame
    BY <1>6
  <2>2. stack[n][1] = "exec" => stack[n][3] \in 1 .. Len(client[stack[n][2]].queue) + 1
    BY <1>1 DEF StackOK
  <2> DEFINE f == stack[n]
  <2> HIDE DEF f
  <2>3. f \in Frame /\ (f[1] = "exec" => f[3] \in 1 .. Len(client[f[2]].queue) + 1)
    BY <2>1, <2>2 DEF f
  <2>4. f[1] \in {"input", "call", "exec", "rpoplpush"} => f[2] \in Client
    BY <2>3, FrameKinds DEF Owned
  <2>5. FrameOK(f)
    BY <2>3, <2>4, FrameKinds DEF FrameOK
  <2> QED BY <2>5 DEF f
<1>8. ASSUME NEW n \in DOMAIN stack, NEW m \in DOMAIN stack, n # m, stack[n][1] = "input", stack[m][1] = "input"
      PROVE  stack[n][2] # stack[m][2]
  <2>1. Owned(stack[n]) /\ Owned(stack[m])
    BY <1>8 DEF Owned
  <2>2. CASE n < m
    BY <1>1, <1>8, <2>1, <2>2 DEF StackOK
  <2>3. CASE m < n
    BY <1>1, <1>8, <2>1, <2>3 DEF StackOK
  <2> QED BY <1>6, <1>8, <2>2, <2>3
<1>9. slaveMulti \in BOOLEAN /\ renamed \subseteq Key
  BY <1>1 DEF MultiOK, BlockOK
<1>10. ToSet(order) \subseteq Client
  BY <1>1 DEF BlockOK, ToSet
<1> QED BY <1>3, <1>4, <1>5, <1>7, <1>8, <1>9, <1>10 DEF ClientsTypeOK

\* A list is not longer than there are elements.
LEMMA ListLength ==
  ASSUME NEW ls, ListsOK(ls), NEW k \in Key
  PROVE  Len(ls[k]) <= MaxPushed /\ ls[k] \in Seq(1 .. MaxPushed)
<1>1. ls[k] \in Seq(1 .. MaxPushed) /\ IsInjective(ls[k])
  BY DEF ListsOK, IsInjective
<1>2. MaxPushed \in Nat
  BY ClientsBoundAssumption
<1>3. Len(ls[k]) = Cardinality(ToSet(ls[k]))
  BY <1>1, LengthIs
<1>4. IsFiniteSet(1 .. MaxPushed) /\ Cardinality(1 .. MaxPushed) = MaxPushed
  <2>1. 1 \in Int /\ MaxPushed \in Int /\ (IF 1 > MaxPushed THEN 0 ELSE MaxPushed - 1 + 1) = MaxPushed
    BY <1>2
  <2> QED BY <2>1, FS_Interval
<1>5. ToSet(ls[k]) \subseteq 1 .. MaxPushed
  <2>1. ASSUME NEW S, NEW s \in Seq(S)
        PROVE  \A n \in DOMAIN s : s[n] \in S
    OBVIOUS
  <2>2. \A n \in DOMAIN ls[k] : ls[k][n] \in 1 .. MaxPushed
    BY <1>1, <2>1
  <2> QED BY <2>2 DEF ToSet
<1>6. Cardinality(ToSet(ls[k])) <= Cardinality(1 .. MaxPushed)
  BY <1>4, <1>5, FS_Subset
<1> QED BY <1>1, <1>3, <1>4, <1>6

\* ElementOK counts, when no call is under way, the places where an element is.
LEMMA ConservedFromInv ==
  CInv => Conserved
<1> SUFFICES ASSUME CInv, stack = << >>, NEW e \in 1 .. MaxPushed
             PROVE  Cardinality({q \in Key \X (1 .. MaxPushed) : q[2] <= Len(lists[q[1]]) /\ lists[q[1]][q[2]] = e}) + got[e]
                      = IF e <= pushed THEN 1 ELSE 0
  BY DEF Conserved
<1> DEFINE P == {q \in Key \X (1 .. MaxPushed) : q[2] <= Len(lists[q[1]]) /\ lists[q[1]][q[2]] = e}
<1>1. DataOK(<< >>, lists, pushed, got)
  BY DEF CInv, At
<1>2. /\ ListsOK(lists) /\ pushed \in 0 .. MaxPushed /\ got[e] \in Nat /\ ElementOK(<< >>, lists, pushed, got[e], e)
      /\ MaxPushed \in Nat
  BY <1>1, ClientsBoundAssumption DEF DataOK
<1>3. << >> # Undefined /\ DOMAIN << >> = {}
  <2>1. Len(Undefined) = 1
    BY DEF Undefined
  <2> QED BY <2>1
<1>4. /\ pushed < e => ~InList(lists, e) /\ got[e] = 0
      /\ e <= pushed => got[e] = IF InList(lists, e) THEN 0 ELSE 1
  BY <1>2, <1>3 DEF ElementOK
<1>5. ASSUME InList(lists, e)
      PROVE  Cardinality(P) = 1
  <2>6. PICK k \in Key : e \in ToSet(lists[k])
    BY <1>5 DEF InList
  <2>1. PICK n \in DOMAIN lists[k] : lists[k][n] = e
    BY <2>6 DEF ToSet
  <2>2. n \in 1 .. MaxPushed /\ n <= Len(lists[k])
    BY <1>2, <2>1, ListLength
  <2>3. <<k, n>> \in P
    BY <2>1, <2>2
  <2>4. ASSUME NEW q \in P PROVE q = <<k, n>>
    <3>1. q[1] \in Key /\ q[2] \in 1 .. MaxPushed /\ q = <<q[1], q[2]>> /\ q[2] <= Len(lists[q[1]]) /\ lists[q[1]][q[2]] = e
      OBVIOUS
    <3>2. lists[q[1]] \in Seq(1 .. MaxPushed)
      BY <1>2, <3>1, ListLength
    <3>3. q[2] \in DOMAIN lists[q[1]]
      BY <3>1, <3>2
    <3>4. q[1] = k /\ q[2] = n
      BY <1>2, <2>1, <3>1, <3>3 DEF ListsOK
    <3> QED BY <3>1, <3>4
  <2>5. P = {<<k, n>>}
    BY <2>3, <2>4
  <2> QED BY <2>5, FS_Singleton
<1>6. ASSUME ~InList(lists, e)
      PROVE  Cardinality(P) = 0
  <2>1. ASSUME NEW q \in P PROVE FALSE
    <3>1. q[1] \in Key /\ q[2] \in 1 .. MaxPushed /\ q[2] <= Len(lists[q[1]]) /\ lists[q[1]][q[2]] = e
      OBVIOUS
    <3>2. lists[q[1]] \in Seq(1 .. MaxPushed)
      BY <1>2, <3>1, ListLength
    <3>3. q[2] \in DOMAIN lists[q[1]]
      BY <3>1, <3>2
    <3> QED BY <1>6, <3>1, <3>3 DEF InList, ToSet
  <2>2. P = {}
    BY <2>1
  <2> QED BY <2>2, FS_EmptySet
<1> DEFINE size == Cardinality(P)
<1> HIDE DEF P
<1>7. size = IF InList(lists, e) THEN 1 ELSE 0
  BY <1>5, <1>6
<1> HIDE DEF size
<1>8. pushed < e \/ e <= pushed
  BY <1>2
<1>9. pushed < e => ~(e <= pushed)
  BY <1>2
<1>10. size + got[e] = IF e <= pushed THEN 1 ELSE 0
  BY <1>2, <1>4, <1>7, <1>8, <1>9
<1> QED BY <1>10 DEF P, size

\* Who has a pattern that matches, and which of ps match.
Hits(pp, ch) ==
  LET hit == Kept(pp, {q \in Client \X Pattern : <<ch, q[2]>> \in Matches})
  IN  [n \in DOMAIN hit |-> hit[n][1]]
\* The patterns that match the channel.
Matching(ps, ch) == {p \in ps : <<ch, p>> \in Matches}
\* ps are the patterns of c.
Asks(pp, c, ps) == ps \subseteq Pattern /\ \A p \in Pattern : <<c, p>> \in ToSet(pp) <=> p \in ps

\* How often c is among those who have a pattern that matches.
LEMMA MatchesCounted ==
  ASSUME NEW pp \in Seq(Client \X Pattern), IsInjective(pp), NEW c \in Client, NEW ps, Asks(pp, c, ps), NEW ch
  PROVE  /\ Hits(pp, ch) \in Seq(Client)
         /\ Count(Hits(pp, ch), c) = Cardinality(Matching(ps, ch))
         /\ c \in ToSet(Hits(pp, ch)) => ps # {}
<1> DEFINE Q == {q \in Client \X Pattern : <<ch, q[2]>> \in Matches}
           hit == Kept(pp, Q)
           t == [n \in DOMAIN hit |-> hit[n][1]]
           A == {n \in DOMAIN t : t[n] = c}
           B == {p \in ps : <<ch, p>> \in Matches}
           f == [n \in A |-> hit[n][2]]
<1>1. \A x, y : <<x, y>> \in Q <=> x \in Client /\ y \in Pattern /\ <<ch, y>> \in Matches
  OBVIOUS
<1>14. ps \subseteq Pattern /\ \A p \in Pattern : <<c, p>> \in ToSet(pp) <=> p \in ps
  BY DEF Asks
<1>2. /\ hit \in Seq(Client \X Pattern) /\ ToSet(hit) = ToSet(pp) \cap Q
      /\ \A i, j \in DOMAIN hit : i < j => \E m, n \in DOMAIN pp : m < n /\ hit[i] = pp[m] /\ hit[j] = pp[n]
  <2> HIDE DEF Q
  <2> QED BY KeptHas
<1> HIDE DEF Q, hit
<1>3. /\ DOMAIN hit = 1 .. Len(hit) /\ Len(hit) \in Nat
      /\ \A n \in DOMAIN hit : hit[n] \in Client \X Pattern /\ hit[n] = <<hit[n][1], hit[n][2]>>
  BY <1>2
<1>4. t \in Seq(Client)
  <2>1. \A n \in DOMAIN hit : hit[n][1] \in Client
    BY <1>3
  <2> QED BY <1>3, <2>1
<1>5. DOMAIN t = DOMAIN hit /\ \A n \in DOMAIN hit : t[n] = hit[n][1]
  OBVIOUS
<1> HIDE DEF t
<1>6. IsFiniteSet(A) /\ Count(t, c) = Cardinality(A)
  BY <1>4, PlacesFinite DEF Places
<1>7. \A n \in A : hit[n] = <<c, hit[n][2]>> /\ hit[n][2] \in B
  <2> TAKE n \in A
  <2>1. n \in DOMAIN hit /\ hit[n][1] = c /\ hit[n] = <<c, hit[n][2]>> /\ hit[n][2] \in Pattern
    BY <1>3, <1>5
  <2>2. hit[n] \in ToSet(pp) /\ hit[n] \in Q
    BY <1>2, <2>1 DEF ToSet
  <2> QED BY <1>1, <1>14, <2>1, <2>2
<1>8. \A b \in B : \E a \in A : f[a] = b
  <2> TAKE b \in B
  <2>1. b \in Pattern /\ <<c, b>> \in ToSet(pp) /\ <<c, b>> \in Q
    BY <1>1, <1>14
  <2>2. PICK n \in DOMAIN hit : hit[n] = <<c, b>>
    <3>1. <<c, b>> \in ToSet(hit)
      BY <1>2, <2>1
    <3> QED BY <3>1 DEF ToSet
  <2>3. n \in A /\ f[n] = b
    BY <1>5, <2>2
  <2> QED BY <2>3
<1>9. \A i, j \in DOMAIN hit : hit[i] = hit[j] => i = j
  <2>1. ASSUME NEW i \in DOMAIN hit, NEW j \in DOMAIN hit, i < j PROVE hit[i] # hit[j]
    <3>1. PICK m \in DOMAIN pp, n \in DOMAIN pp : m < n /\ hit[i] = pp[m] /\ hit[j] = pp[n]
      BY <1>2, <2>1
    <3>2. m \in Nat /\ n \in Nat
      OBVIOUS
    <3> QED BY <3>1, <3>2 DEF IsInjective
  <2> QED BY <1>3, <2>1
<1>10. \A x, y \in A : f[x] = f[y] => x = y
  <2> TAKE x, y \in A
  <2> HAVE f[x] = f[y]
  <2>1. x \in DOMAIN hit /\ y \in DOMAIN hit /\ hit[x][2] = hit[y][2]
    BY <1>5
  <2>2. hit[x] = hit[y]
    BY <1>7, <2>1
  <2> QED BY <1>9, <2>1, <2>2
<1>11. f \in [A -> B]
  BY <1>7
<1> HIDE DEF A, B, f
<1>12. Cardinality(B) = Cardinality(A)
  BY <1>6, <1>8, <1>10, <1>11, AsMany
<1>13. c \in ToSet(t) => ps # {}
  <2> HAVE c \in ToSet(t)
  <2>1. PICK n \in DOMAIN t : t[n] = c
    BY DEF ToSet
  <2>2. n \in A
    BY <2>1 DEF A
  <2> QED BY <1>7, <2>2 DEF B
<1> QED BY <1>4, <1>6, <1>12, <1>13 DEF t, hit, Q, B, Hits, Matching

\* PubOK gives who gets a message.
LEMMA MessagesFromInv ==
  CInv => MessagesToSubscribers
<1> SUFFICES ASSUME CInv, NEW ch \in Channel, NEW c \in Client
             PROVE  /\ Count(Receivers(ch), c) = Cardinality(client[c].chans \cap {ch})
                                                 + Cardinality({p \in client[c].pats : <<ch, p>> \in Matches})
                    /\ c \in ToSet(Receivers(ch)) => Live(c)
  BY DEF MessagesToSubscribers
<1> DEFINE pc == pubsub_channels[ch]
           t == Hits(pubsub_patterns, ch)
           B == Matching(client[c].pats, ch)
<1>1. PubOK(clients, client, pubsub_channels, pubsub_patterns) /\ ClientsOK(clients, client)
  BY DEF CInv, At
<1>2. client[c] \in ClientRec
  BY <1>1 DEF ClientsOK
<1>3. client[c].pats \in SUBSET Pattern
  BY <1>2 DEF ClientRec
<1>4. /\ pc \in Seq(Client) /\ IsInjective(pc) /\ (c \in ToSet(pc) <=> ch \in client[c].chans)
      /\ pubsub_patterns \in Seq(Client \X Pattern) /\ IsInjective(pubsub_patterns)
      /\ \A p \in Pattern : <<c, p>> \in ToSet(pubsub_patterns) <=> p \in client[c].pats
      /\ client[c].chans # {} \/ client[c].pats # {} => Live(c)
  BY <1>1 DEF PubOK, Live
<1>5. t \in Seq(Client) /\ Count(t, c) = Cardinality(B) /\ (c \in ToSet(t) => client[c].pats # {})
  <2>1. Asks(pubsub_patterns, c, client[c].pats)
    BY <1>3, <1>4 DEF Asks
  <2> QED BY <1>4, <2>1, MatchesCounted
<1>6. Receivers(ch) = pc \o t
  BY DEF Receivers, Hits
<1> HIDE DEF pc, t, B
<1>7. Count(pc, c) = Cardinality(client[c].chans \cap {ch})
  <2>1. CASE ch \in client[c].chans
    <3>1. client[c].chans \cap {ch} = {ch}
      BY <2>1
    <3>2. Count(pc, c) = 1
      BY <1>4, <2>1, CountIs
    <3> QED BY <3>1, <3>2, FS_Singleton
  <2>2. CASE ch \notin client[c].chans
    <3>1. client[c].chans \cap {ch} = {}
      BY <2>2
    <3>2. Count(pc, c) = 0
      BY <1>4, <2>2, CountIs
    <3> QED BY <3>1, <3>2, FS_EmptySet
  <2> QED BY <2>1, <2>2
<1>8. Count(pc \o t, c) = Count(pc, c) + Count(t, c)
  BY <1>4, <1>5, CountConcat
<1>9. c \in ToSet(pc \o t) => c \in ToSet(pc) \/ c \in ToSet(t)
  <2>1. Count(pc, c) = 0 <=> c \notin ToSet(pc)
    BY <1>4, CountIs
  <2>2. Count(t, c) = 0 <=> c \notin ToSet(t)
    BY <1>5, CountIs
  <2>3. Count(pc \o t, c) = 0 <=> c \notin ToSet(pc \o t)
    <3>1. pc \o t \in Seq(Client)
      BY <1>4, <1>5
    <3> QED BY <3>1, CountIs
  <2> QED BY <1>8, <2>1, <2>2, <2>3
<1>10. c \in ToSet(Receivers(ch)) => Live(c)
  BY <1>4, <1>5, <1>6, <1>9
<1> QED BY <1>5, <1>6, <1>7, <1>8, <1>10 DEF B, Matching

\* The parts of the invariant give DeliveredOnce.
LEMMA DeliveredFromInv ==
  CInv => DeliveredOnce
<1> SUFFICES ASSUME CInv PROVE DeliveredOnce
  OBVIOUS
<1>1. PropagatedWhole
  <2> SUFFICES ASSUME stack = << >> PROVE ~slaveMulti
    BY DEF PropagatedWhole
  <2>1. MultiOK(<< >>, slaveMulti)
    BY DEF CInv, At
  <2>2. << >> # Undefined /\ DOMAIN << >> = {}
    <3>1. Len(Undefined) = 1
      BY DEF Undefined
    <3> QED BY <3>1
  <2> QED BY <2>1, <2>2 DEF MultiOK
<1> QED BY <1>1, TypesFromInv, ConservedFromInv, MessagesFromInv DEF DeliveredOnce

-----------------------------------------------------------------------------
(* The theorems *)

\* The lists of the keys and those of the clients that wait for them agree, through services,
\* timeouts, disconnections and transactions, and no client waits for a list that has elements
\* and that no RENAME made.
THEOREM WaitersAlwaysSound ==
  CSpec => []WaitersSound
BY CAlways, WaitersFromInv, PTL

\* Between two events an element is in one list or was given away once, a message goes once to
\* each subscription that asks for it, and no slave is left in a transaction, although the
\* commands of unblocked clients run inside the commands of others.
THEOREM DeliveredAlwaysOnce ==
  CSpec => []DeliveredOnce
BY CAlways, DeliveredFromInv, PTL

-----------------------------------------------------------------------------
(* Who is served first *)

\* Somebody who waits for k is the one that is served.
Hands(k) == k \in Key /\ blockingkeys[k] # << >> /\ order' = Without(order, {Receiver(k)})

\* A command gives nothing away, or nobody stops to wait, or it serves the first who waits for a key.
LEMMA ProcServes ==
  ASSUME NEW c, NEW cmd \in Command, NEW s, NEW cl, Proc(c, cmd, s, cl)
  PROVE  got' = got \/ order' = order \/ \E k : Hands(k)
<1>1. WellFormed(cmd)
  BY ClientsProgramAssumption
<1>2. CASE cmd[1] = "push" /\ pushGenericCommand(c, cmd[2], s, cl)
  <2>1. cmd[2] \in Key
    BY <1>1, <1>2 DEF WellFormed
  <2>2. CASE blockingkeys[cmd[2]] # << >>
    <3>1. order' = Without(order, {Receiver(cmd[2])})
      BY <1>2, <2>2 DEF pushGenericCommand, handleClientsWaitingListPush, unblockClientWaitingData
    <3> QED BY <2>1, <2>2, <3>1 DEF Hands
  <2>3. CASE blockingkeys[cmd[2]] = << >>
    BY <1>2, <2>3 DEF pushGenericCommand, blocking
  <2> QED BY <2>2, <2>3
<1>3. CASE cmd[1] = "pop" /\ popGenericCommand(cmd[2], s, cl)
  BY <1>3 DEF popGenericCommand, Popped, Nothing, blocking
<1>4. CASE cmd[1] = "blpop" /\ blockingPopGenericCommand(c, cmd[2], cmd[3], s, cl)
  BY <1>4 DEF blockingPopGenericCommand, Popped, Nothing, blocking, data
<1>5. CASE cmd[1] = "rpoplpush" /\ rpoplpushcommand(c, cmd[2], cmd[3], s, cl)
  <2>1. cmd[3] \in Key
    BY <1>1, <1>5 DEF WellFormed
  <2>2. CASE lists[cmd[2]] = << >>
    BY <1>5, <2>2 DEF rpoplpushcommand, Nothing, blocking
  <2>3. CASE lists[cmd[2]] # << >> /\ blockingkeys[cmd[3]] # << >>
    <3>1. order' = Without(order, {Receiver(cmd[3])})
      BY <1>5, <2>3 DEF rpoplpushcommand, handleClientsWaitingListPush, unblockClientWaitingData
    <3> QED BY <2>1, <2>3, <3>1 DEF Hands
  <2>4. CASE lists[cmd[2]] # << >> /\ blockingkeys[cmd[3]] = << >>
    BY <1>5, <2>4 DEF rpoplpushcommand, blocking
  <2> QED BY <2>2, <2>3, <2>4
<1>6. CASE cmd[1] = "rename" /\ renameCommand(cmd[2], cmd[3], s, cl)
  BY <1>6 DEF renameCommand, Nothing, blocking
<1>7. CASE cmd[1] = "multi" /\ multiCommand(c, s, cl)
  BY <1>7 DEF multiCommand, blocking
<1>8. CASE cmd[1] = "discard" /\ discardCommand(c, s, cl)
  BY <1>8 DEF discardCommand, Nothing, blocking
<1>9. CASE cmd[1] = "exec" /\ execCommand(c, s, cl)
  BY <1>9 DEF execCommand, Nothing, blocking
<1>10. CASE cmd[1] = "subscribe" /\ pubsubSubscribeChannel(c, cmd[2], s, cl)
  BY <1>10 DEF pubsubSubscribeChannel, blocking
<1>11. CASE cmd[1] = "unsubscribe" /\ pubsubUnsubscribeChannel(c, cmd[2], s, cl)
  BY <1>11 DEF pubsubUnsubscribeChannel, blocking
<1>12. CASE cmd[1] = "psubscribe" /\ pubsubSubscribePattern(c, cmd[2], s, cl)
  BY <1>12 DEF pubsubSubscribePattern, blocking
<1>13. CASE cmd[1] = "punsubscribe" /\ pubsubUnsubscribePattern(c, cmd[2], s, cl)
  BY <1>13 DEF pubsubUnsubscribePattern, blocking
<1> QED BY <1>2, <1>3, <1>4, <1>5, <1>6, <1>7, <1>8, <1>9, <1>10, <1>11, <1>12, <1>13 DEF Proc

\* So does every step, but that of a new server.
LEMMA StepServes ==
  ASSUME CInv, [CNext]_cvars
  PROVE  stack = Undefined \/ got' = got \/ order' = order \/ \E k : Hands(k)
<1>1. At(stack, client)
  BY DEF CInv
<1>2. CASE UNCHANGED cvars
  BY <1>2 DEF cvars, data
<1>3. ASSUME NEW c \in Client, acceptHandler(c) PROVE got' = got
  BY <1>3 DEF acceptHandler, data
<1>4. ASSUME NEW c \in Client, connectionLost(c) PROVE got' = got
  BY <1>4 DEF connectionLost, freeClient, data
<1>5. ASSUME NEW c \in Client, NEW n \in 1 .. MaxBuf, readQueryFromClient(c, n) PROVE got' = got
  BY <1>5 DEF readQueryFromClient, data
<1>6. CASE serverCron
  BY <1>6 DEF serverCron, data
<1>7. CASE processInputBuffer
  <2> DEFINE c == Top[2]
             cmd == Head(client[c].buf)
             s == IF Len(client[c].buf) = 1 THEN Front(stack) ELSE stack
             cl == [client EXCEPT ![c].buf = Tail(@)]
  <2>1. stack # << >> /\ Last(stack)[1] = "input"
    BY <1>7 DEF processInputBuffer, Top
  <2>2. client[c] \in ClientRec /\ client[c].buf # << >>
    BY <1>1, <2>1, TopInput DEF Top
  <2>3. cmd \in Command
    <3>1. client[c].buf \in Seq(Command)
      BY <2>2 DEF ClientRec
    <3> QED BY <2>2, <3>1
  <2>4. CASE Blocked(c)
    BY <1>7, <2>4 DEF processInputBuffer, Nothing, data
  <2>5. CASE ~Blocked(c)
    <3>1. processCommand(c, cmd, s, cl)
      BY <1>7, <2>5 DEF processInputBuffer
    <3> HIDE DEF cmd, s, cl, c
    <3>2. \/ freeClient(c) \/ Nothing(s, cl) \/ Nothing(s, [cl EXCEPT ![c].queue = Append(@, cmd)])
          \/ Proc(c, cmd, Append(s, <<"call", c, cmd, FALSE>>), cl)
      BY <3>1 DEF processCommand, call
    <3>3. CASE freeClient(c)
      BY <3>3 DEF freeClient, data
    <3>4. CASE Nothing(s, cl) \/ Nothing(s, [cl EXCEPT ![c].queue = Append(@, cmd)])
      BY <3>4 DEF Nothing, data
    <3>5. CASE Proc(c, cmd, Append(s, <<"call", c, cmd, FALSE>>), cl)
      BY <2>3, <3>5, ProcServes
    <3> QED BY <3>2, <3>3, <3>4, <3>5
  <2> QED BY <2>4, <2>5
<1>8. CASE callEnd
  BY <1>8 DEF callEnd, data
<1>9. CASE execStep
  <2> DEFINE c == Top[2]
             n == Top[3]
             q == client[c].queue
             s == InCall(<< <<"exec", c, n + 1>> >>)
  <2>1. stack # << >> /\ Last(stack)[1] = "exec"
    BY <1>9 DEF execStep, Top
  <2>2. client[c] \in ClientRec /\ n \in Nat \ {0}
    BY <1>1, <2>1, TopExec DEF Top
  <2>3. q \in Seq(Command)
    BY <2>2 DEF ClientRec
  <2>4. CASE n > Len(q)
    BY <1>9, <2>4 DEF execStep, data
  <2>5. CASE ~(n > Len(q))
    <3>1. call(c, q[n], s, client)
      BY <1>9, <2>5 DEF execStep
    <3>2. q[n] \in Command
      BY <2>2, <2>3, <2>5
    <3> HIDE DEF c, n, q, s
    <3>3. Proc(c, q[n], Append(s, <<"call", c, q[n], FALSE>>), client)
      BY <3>1 DEF call
    <3> QED BY <3>2, <3>3, ProcServes
  <2> QED BY <2>4, <2>5
<1>10. CASE rpoplpushEnd
  BY <1>10 DEF rpoplpushEnd, blocking
<1>11. CASE closeTimedoutClient
  BY <1>11 DEF closeTimedoutClient, Nothing, freeClient, data
<1>12. CASE restart
  BY <1>12 DEF restart
<1> QED BY <1>2, <1>3, <1>4, <1>5, <1>6, <1>7, <1>8, <1>9, <1>10, <1>11, <1>12 DEF CNext

\* Who is served first has waited longest of those who wait for all of its keys.
LEMMA FirstServed ==
  ASSUME CInv, NEW k, Hands(k), NEW n \in DOMAIN order, order[n] \notin ToSet(order'), NEW m \in 1 .. n - 1
  PROVE  ~(ToSet(client[order[n]].bkeys) \subseteq ToSet(client[order[m]].bkeys))
<1> SUFFICES ASSUME ToSet(client[order[n]].bkeys) \subseteq ToSet(client[order[m]].bkeys)
             PROVE  FALSE
  OBVIOUS
<1> DEFINE r == Receiver(k)
           o == order[m]
           bk == blockingkeys[k]
<1>1. BlockOK(clients, client, lists, blockingkeys, order, renamed) /\ ClientsOK(clients, client)
  BY DEF CInv, At
<1>2. /\ k \in Key /\ bk # << >> /\ order' = Without(order, {r}) /\ bk \in Seq(Client)
      /\ order \in Seq(Client) /\ IsInjective(order)
      /\ \A c \in Client : Count(bk, c) = Count(client[c].bkeys, k)
      /\ \A i, j \in DOMAIN bk : i < j => \A p, q \in DOMAIN order : order[p] = bk[i] /\ order[q] = bk[j] => p <= q
  BY <1>1 DEF Hands, BlockOK
<1>3. r \in Client /\ r \in ToSet(bk) /\ 1 \in DOMAIN bk /\ r = bk[1]
  BY <1>2, HeadIs DEF Receiver
<1>4. n \in Nat /\ m \in DOMAIN order /\ m \in Nat /\ m < n /\ o \in Client
  BY <1>2
<1> HIDE DEF r, bk
<1>5. order[n] = r
  <2>1. ToSet(order') = ToSet(order) \ {r}
    BY <1>2, WithoutIs DEF LeftOf
  <2>2. order[n] \in ToSet(order)
    BY DEF ToSet
  <2> QED BY <2>1, <2>2
<1>6. \A c \in Client : client[c].bkeys \in Seq(Key)
  BY <1>1 DEF ClientsOK, ClientRec
<1>7. \A c \in Client : c \in ToSet(bk) <=> k \in ToSet(client[c].bkeys)
  <2> TAKE c \in Client
  <2>1. Count(bk, c) = 0 <=> c \notin ToSet(bk)
    BY <1>2, CountIs
  <2>2. Count(client[c].bkeys, k) = 0 <=> k \notin ToSet(client[c].bkeys)
    BY <1>6, CountIs
  <2> QED BY <1>2, <2>1, <2>2
<1>8. o \in ToSet(bk)
  BY <1>3, <1>4, <1>5, <1>7
<1>9. PICK j \in DOMAIN bk : bk[j] = o
  BY <1>8 DEF ToSet
<1>10. j \in Nat /\ 1 <= j
  BY <1>2
<1>11. CASE j = 1
  BY <1>2, <1>3, <1>4, <1>5, <1>9, <1>11 DEF IsInjective
<1>12. CASE 1 < j
  <2>1. n <= m
    BY <1>2, <1>3, <1>4, <1>5, <1>9, <1>12
  <2> QED BY <1>4, <2>1
<1> QED BY <1>10, <1>11, <1>12

\* A client is given an element only if nobody who began to wait earlier waits for all of its keys.
THEOREM AlwaysServedInOrder ==
  CSpec => ServedInOrder
<1>1. CInv /\ [CNext]_cvars =>
        [\A n \in DOMAIN order :
           order[n] \notin ToSet(order') /\ got' # got /\ stack # Undefined =>
             \A m \in 1 .. n - 1 : ~(ToSet(client[order[n]].bkeys) \subseteq ToSet(client[order[m]].bkeys))]_cvars
  <2> SUFFICES ASSUME CInv, [CNext]_cvars, NEW n \in DOMAIN order,
                      order[n] \notin ToSet(order'), got' # got, stack # Undefined, NEW m \in 1 .. n - 1
               PROVE  ~(ToSet(client[order[n]].bkeys) \subseteq ToSet(client[order[m]].bkeys))
    OBVIOUS
  <2>1. order' # order
    BY DEF ToSet
  <2>2. PICK k : Hands(k)
    BY <2>1, StepServes
  <2> QED BY <2>2, FirstServed
<1> QED BY <1>1, CAlways, PTL DEF CSpec, ServedInOrder

=============================================================================
