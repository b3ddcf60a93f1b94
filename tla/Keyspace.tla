------------------------------ MODULE Keyspace ------------------------------
(***************************************************************************)
(* The commands of redis that change the dataset (examples/redis-2.0.2/    *)
(* redis.c, "Strings" to "Expire"), each as a function from the state of   *)
(* a server to the next, and two servers that receive them: a master, and  *)
(* a slave (or the same server when it loads its append only file) that is *)
(* sent the commands after which the master found its dataset dirty.       *)
(*                                                                         *)
(* Time is not modelled: a volatile key may be past its time at any moment *)
(* and at a different one on each server (the link is slow, the clocks     *)
(* differ, the file is loaded later).  So it makes no difference that the  *)
(* slave runs a command together with the master and not later.            *)
(*                                                                         *)
(* A key is a pair of a database and a name.  A string is a sequence of    *)
(* characters: 0 is a letter, others are digits.  A value is a pair of its *)
(* type and its content.                                                   *)
(***************************************************************************)
EXTENDS Integers, Sequences, FiniteSets, SequencesExt, FiniteSetsExt

CONSTANTS Key,                        \* pairs of database and name
          Elem,                       \* strings that commands bring in
          hash_max_zipmap_entries,
          hash_max_zipmap_value,
          MaxText,                    \* bound: length of a string
          MaxElems,                   \* bound: elements in a dataset
          MaxVolatile,                \* bound: volatile keys in a dataset
          MaxKeys,                    \* bound: keys that one of the datasets has
          MaxChanges                  \* bound: changes that a FLUSHALL finds counted

ASSUME KeyspaceKeyAssumption == \A k \in Key : k = <<k[1], k[2]>>
ASSUME KeyspaceFiniteAssumption == IsFiniteSet(Key)
ASSUME KeyspaceLimitAssumption == hash_max_zipmap_entries \in Nat /\ MaxChanges \in Nat
ASSUME KeyspaceElemAssumption == \A e \in Elem : e \in Seq(0 .. 9) /\ Len(e) \in 1 .. MaxText

VARIABLES master, slave,
          exact,      \* no command has run after which the two may differ
          outlived    \* keys of the master whose value the last command replaced, and their
                      \* time to live not

kvars == <<master, slave, exact, outlived>>

None == <<"none", {}>>
String(t) == <<"string", t>>
List(l) == <<"list", l>>
Set(S) == <<"set", S>>
ZSet(S) == <<"zset", S>>                       \* pairs of element and score

EmptyServer == [db |-> [k \in Key |-> None], expires |-> {}, dirty |-> 0]

Databases == {k[1] : k \in Key}
SameDb(ks) == \A k, l \in ks : k[1] = l[1]

Type(s, k) == s.db[k][1]
Val(s, k) == s.db[k][2]
Is(s, k, type) == Type(s, k) = type
Missing(s, k) == s.db[k] = None
Size(v) == CASE v[1] \in {"string", "list"} -> Len(v[2])
             [] v[1] = "hash" -> Cardinality(v[2].map)
             [] OTHER -> Cardinality(v[2])

Dirty(s, n) == [s EXCEPT !.dirty = @ + n]
Put(s, k, v) == [s EXCEPT !.db[k] = v]

-----------------------------------------------------------------------------
\* Mutant of deleteKey: the time to live of the key is left behind.
MutExpiresKept(s, k) == [s EXCEPT !.db[k] = None]

deleteKey(s, k) == [s EXCEPT !.db[k] = None, !.expires = @ \ {k}]

\* "time(NULL) <= when": late tells whether the key is past its time.
expireIfNeeded(s, k, late) == IF late /\ k \in s.expires THEN deleteKey(s, k) ELSE s

deleteIfVolatile(s, k) == IF k \in s.expires THEN Dirty(deleteKey(s, k), 1) ELSE s

lookupKeyRead(s, k, late) == expireIfNeeded(s, k, late)

\* Mutant of lookupKeyWrite: a volatile key is changed in place.
MutLookupKeyWrite(s, k) == s

lookupKeyWrite(s, k) == deleteIfVolatile(s, k)

lookupAllWrite(s, ks) ==
  LET after[n \in 0 .. Len(ks)] == IF n = 0 THEN s ELSE lookupKeyWrite(after[n - 1], ks[n])
  IN  after[Len(ks)]

removeExpire(s, k) == [s EXCEPT !.expires = @ \ {k}]

setExpire(s, k) == [s EXCEPT !.expires = @ \cup {k}]

\* An aggregate that has become empty goes.
PutOrDelete(s, k, v) == IF Size(v) = 0 THEN deleteKey(s, k) ELSE Put(s, k, v)

-----------------------------------------------------------------------------
\* Strings

Text == BoundedSeq(UNION {ToSet(e) : e \in Elem}, MaxText)
IsNumber(t) == 0 \notin ToSet(t)
Number(t) == FoldLeft(LAMBDA n, digit : 10 * n + digit, 0, t)
\* createStringObjectFromLongLong; nothing when the number is beyond Text.
Numerals == {t \in Text : IsNumber(t) /\ t # << >>}
NumberText(n) == {t \in Numerals : Number(t) = n}

setGenericCommand(s0, nx, k, v, expire) ==
  LET s == IF nx THEN deleteIfVolatile(s0, k) ELSE s0
      t == removeExpire(Dirty(Put(s, k, String(v)), 1), k)
  IN  IF nx /\ ~Missing(s, k) THEN s
      ELSE IF expire THEN setExpire(t, k) ELSE t

getsetCommand(s0, k, v, late) ==
  LET s == lookupKeyRead(s0, k, late)
  IN  IF ~Missing(s, k) /\ ~Is(s, k, "string") THEN s
      ELSE removeExpire(Dirty(Put(s, k, String(v)), 1), k)

\* pairs: what to set, in order.
setAll(s, pairs) ==
  LET after[n \in 0 .. Len(pairs)] ==
        IF n = 0 THEN s
        ELSE removeExpire(Put(after[n - 1], pairs[n][1], String(pairs[n][2])), pairs[n][1])
  IN  after[Len(pairs)]

msetGenericCommand(s0, pairs, nx) ==
  LET s == IF nx THEN lookupAllWrite(s0, [n \in DOMAIN pairs |-> pairs[n][1]]) ELSE s0
  IN  IF nx /\ \E n \in DOMAIN pairs : ~Missing(s, pairs[n][1]) THEN s
      ELSE Dirty(setAll(s, pairs), Len(pairs))

\* A missing key counts as 0.
incrDecrCommand(s0, k, incr) ==
  LET s == lookupKeyWrite(s0, k)
      value == IF Missing(s, k) THEN 0 ELSE Number(Val(s, k))
  IN  IF (~Missing(s, k) /\ (~Is(s, k, "string") \/ ~IsNumber(Val(s, k)))) \/ NumberText(value + incr) = {} THEN s
      ELSE Dirty(Put(s, k, String(CHOOSE t \in NumberText(value + incr) : TRUE)), 1)

appendCommand(s0, k, v) ==
  LET s == lookupKeyWrite(s0, k)
  IN  IF Missing(s, k) THEN Dirty(Put(s, k, String(v)), 1)
      ELSE IF ~Is(s, k, "string") THEN s
      ELSE Dirty(Put(s, k, String(Val(s, k) \o v)), 1)

-----------------------------------------------------------------------------
\* Keys

delCommand(s, ks) ==
  LET after[n \in 0 .. Len(ks)] ==
        IF n = 0 THEN s
        ELSE IF Missing(after[n - 1], ks[n]) THEN after[n - 1] ELSE Dirty(deleteKey(after[n - 1], ks[n]), 1)
  IN  after[Len(ks)]

renameGenericCommand(s0, k, k2, nx) ==
  LET s == lookupKeyWrite(s0, k)
      t == deleteIfVolatile(s, k2)
  IN  IF k = k2 THEN s0
      ELSE IF Missing(s, k) THEN s
      ELSE IF nx /\ ~Missing(t, k2) THEN t
      ELSE Dirty(deleteKey(Put(t, k2, t.db[k]), k), 1)

\* To the key of the same name in another database.
moveCommand(s0, k, k2) ==
  LET s == lookupKeyWrite(s0, k)
      t == deleteIfVolatile(s, k2)
  IN  IF k = k2 THEN s0
      ELSE IF Missing(s, k) THEN s
      ELSE IF ~Missing(t, k2) THEN t
      ELSE Dirty(deleteKey(Put(t, k2, t.db[k]), k), 1)

InDb(d) == {k \in Key : k[1] = d}

flushdbCommand(s, d) ==
  [db |-> [k \in Key |-> IF k \in InDb(d) THEN None ELSE s.db[k]],
   expires |-> s.expires \ InDb(d),
   dirty |-> s.dirty + Cardinality({k \in InDb(d) : ~Missing(s, k)})]

\* All databases.  The snapshot that it writes is part of Persist; here it counts that
\* rdbSave, when it succeeds, sets dirty to 0.
flushallCommand(s, saved) ==
  LET removed == Cardinality({k \in Key : ~Missing(s, k)})
  IN  [EmptyServer EXCEPT !.dirty = (IF saved THEN 0 ELSE s.dirty + removed) + 1]

\* past: the time given is not in the future.
expireGenericCommand(s, k, past) ==
  IF Missing(s, k) THEN s
  ELSE IF past THEN Dirty(deleteKey(s, k), 1)
  ELSE IF k \in s.expires THEN s ELSE Dirty(setExpire(s, k), 1)

-----------------------------------------------------------------------------
\* Lists.  Nobody waits in BLPOP here: that is part of Clients.

pushGenericCommand(s0, k, e, where) ==
  LET s == lookupKeyWrite(s0, k)
      l == IF Missing(s, k) THEN << >> ELSE Val(s, k)
  IN  IF ~Missing(s, k) /\ ~Is(s, k, "list") THEN s
      ELSE Dirty(Put(s, k, List(IF where = "head" THEN <<e>> \o l ELSE Append(l, e))), 1)

\* listIndex, counted from 0, or from the end when negative.
IndexOf(l, i) == IF i < 0 THEN Len(l) + i + 1 ELSE i + 1

lsetCommand(s0, k, i, e) ==
  LET s == lookupKeyWrite(s0, k)
  IN  IF ~Is(s, k, "list") \/ IndexOf(Val(s, k), i) \notin DOMAIN Val(s, k) THEN s
      ELSE Dirty(Put(s, k, List([Val(s, k) EXCEPT ![IndexOf(Val(s, k), i)] = e])), 1)

popGenericCommand(s0, k, where) ==
  LET s == lookupKeyWrite(s0, k)
      l == Val(s, k)
  IN  IF ~Is(s, k, "list") \/ l = << >> THEN s
      ELSE Dirty(PutOrDelete(s, k, List(IF where = "head" THEN Tail(l) ELSE Front(l))), 1)

\* The indices of LRANGE, LTRIM and their like: negative ones count from the end,
\* both ends are cut off.
Start(len, start) == Max({IF start < 0 THEN len + start ELSE start, 0})
End(len, end) == Min({IF end < 0 THEN len + end ELSE end, len - 1})

\* LRANGE's reply.
lrangeCommand(l, start, end) == SubSeq(l, Start(Len(l), start) + 1, End(Len(l), end) + 1)

EmptyRange(start, end, llen) == start > end \/ start >= llen

ltrimCommand(s0, k, start0, end0) ==
  LET s == lookupKeyWrite(s0, k)
      l == Val(s, k)
      llen == Len(l)
      start == IF start0 < 0 THEN Max({llen + start0, 0}) ELSE start0
      end == IF end0 < 0 THEN llen + end0 ELSE end0
      out == EmptyRange(start, end, llen)
      ltrim == IF out THEN llen ELSE start
      rtrim == IF out THEN 0 ELSE llen - Min({end, llen - 1}) - 1
  IN  IF ~Is(s, k, "list") THEN s
      ELSE Dirty(PutOrDelete(s, k, List(SubSeq(l, ltrim + 1, llen - rtrim))), 1)

\* The places of the first n elements of l that are e; of all of them when n is 0.
FirstPlaces(l, e, n) ==
  LET all == {i \in DOMAIN l : l[i] = e}
  IN  IF n = 0 THEN all ELSE {i \in all : Cardinality({j \in all : j < i}) < n}

Without(l, places) == [n \in 1 .. Len(l) - Cardinality(places) |->
  l[CHOOSE i \in DOMAIN l \ places : Cardinality((1 .. i) \ places) = n]]

\* From the tail when toremove is negative.
lremCommand(s0, k, toremove, e) ==
  LET s == lookupKeyWrite(s0, k)
      l == Val(s, k)
      kept == IF toremove < 0 THEN Reverse(Without(Reverse(l), FirstPlaces(Reverse(l), e, -toremove)))
              ELSE Without(l, FirstPlaces(l, e, toremove))
  IN  IF ~Is(s, k, "list") THEN s
      ELSE Dirty(PutOrDelete(s, k, List(kept)), Len(l) - Len(kept))

\* The element is first pushed, and then taken from the tail where it was.
rpoplpushcommand(s0, k, k2) ==
  LET s == lookupKeyWrite(s0, k)
      t == lookupKeyWrite(s, k2)
      ele == Last(Val(s, k))
      u == Put(t, k2, List(<<ele>> \o (IF Missing(t, k2) THEN << >> ELSE Val(t, k2))))
  IN  IF ~Is(s, k, "list") \/ Val(s, k) = << >> THEN s
      ELSE IF ~Missing(t, k2) /\ ~Is(t, k2, "list") THEN t
      ELSE Dirty(PutOrDelete(u, k, List(Front(Val(u, k)))), 1)

-----------------------------------------------------------------------------
\* Sets

saddCommand(s0, k, e) ==
  LET s == lookupKeyWrite(s0, k)
      S == IF Missing(s, k) THEN {} ELSE Val(s, k)
  IN  IF ~Missing(s, k) /\ ~Is(s, k, "set") THEN s
      ELSE Dirty(Put(s, k, Set(S \cup {e})), IF e \in S THEN 0 ELSE 1)

sremCommand(s0, k, e) ==
  LET s == lookupKeyWrite(s0, k)
  IN  IF ~Is(s, k, "set") \/ e \notin Val(s, k) THEN s
      ELSE Dirty(PutOrDelete(s, k, Set(Val(s, k) \ {e})), 1)

smoveCommand(s0, k, k2, e) ==
  LET s == lookupKeyWrite(lookupKeyWrite(s0, k), k2)
      t == IF k = k2 THEN Put(s, k, Set(Val(s, k) \ {e})) ELSE PutOrDelete(s, k, Set(Val(s, k) \ {e}))
  IN  IF ~Is(s, k, "set") THEN s
      ELSE IF ~Missing(s, k2) /\ ~Is(s, k2, "set") THEN s
      ELSE IF e \notin Val(s, k) THEN s
      ELSE Dirty(Put(t, k2, Set((IF Missing(t, k2) THEN {} ELSE Val(t, k2)) \cup {e})), 1)

\* Some element: pick, where that is one.
spopCommand(s0, k, pick) ==
  LET s == lookupKeyWrite(s0, k)
      e == IF pick \in Val(s, k) THEN pick ELSE CHOOSE x \in Val(s, k) : TRUE
  IN  IF ~Is(s, k, "set") THEN s ELSE Dirty(PutOrDelete(s, k, Set(Val(s, k) \ {e})), 1)

\* The result replaces what is at dstkey, or leaves nothing there.
StoreResult(s, dstkey, v) ==
  LET t == deleteKey(s, dstkey) IN IF Size(v) = 0 THEN t ELSE Put(t, dstkey, v)

\* The keys are looked up one by one; the first that is missing or no set ends it.
sinterGenericCommand(s0, ks, dstkey) ==
  LET after(n) == lookupAllWrite(s0, SubSeq(ks, 1, n))
      bad == {n \in DOMAIN ks : ~Is(after(n), ks[n], "set")}
      s == after(IF bad = {} THEN Len(ks) ELSE Min(bad))
  IN  IF bad = {}
      THEN Dirty(StoreResult(s, dstkey, Set({e \in Val(s, ks[1]) : \A n \in DOMAIN ks : e \in Val(s, ks[n])})), 1)
      ELSE IF Missing(s, ks[Min(bad)]) /\ ~Missing(s, dstkey) THEN Dirty(deleteKey(s, dstkey), 1)
      ELSE s

\* A missing key is an empty set; one of another type ends it.
sunionDiffGenericCommand(s0, ks, dstkey, op) ==
  LET after(n) == lookupAllWrite(s0, SubSeq(ks, 1, n))
      bad == {n \in DOMAIN ks : ~Missing(after(n), ks[n]) /\ ~Is(after(n), ks[n], "set")}
      s == after(IF bad = {} THEN Len(ks) ELSE Min(bad))
      rest == UNION {Val(s, ks[n]) : n \in 2 .. Len(ks)}
  IN  IF bad # {} THEN s
      ELSE Dirty(StoreResult(s, dstkey, Set(IF op = "union" THEN Val(s, ks[1]) \cup rest ELSE Val(s, ks[1]) \ rest)), 1)

-----------------------------------------------------------------------------
\* Sorted sets.  SkipList models how they are kept.

ScoreIn(S, e) == (CHOOSE p \in S : p[1] = e)[2]
Has(S, e) == \E p \in S : p[1] = e
But(S, e) == {p \in S : p[1] # e}

\* ZADD and ZINCRBY.
zaddCommand(s0, k, e, scoreval, doincrement) ==
  LET s == lookupKeyWrite(s0, k)
      S == IF Missing(s, k) THEN {} ELSE Val(s, k)
      score == IF doincrement /\ Has(S, e) THEN ScoreIn(S, e) + scoreval ELSE scoreval
  IN  IF ~Missing(s, k) /\ ~Is(s, k, "zset") THEN s
      ELSE Dirty(Put(s, k, ZSet(But(S, e) \cup {<<e, score>>})), IF <<e, score>> \in S THEN 0 ELSE 1)

zremFromSet(s0, k, gone(_)) ==
  LET s == lookupKeyWrite(s0, k)
      out == {p \in Val(s, k) : gone(p)}
  IN  IF ~Is(s, k, "zset") THEN s
      ELSE Dirty(PutOrDelete(s, k, ZSet(Val(s, k) \ out)), Cardinality(out))

Aggregate(aggregate, x, y) ==
  CASE aggregate = "sum" -> x + y [] aggregate = "min" -> Min({x, y}) [] OTHER -> Max({x, y})

\* src: what is at the source keys.  Every source gives an element's score times its weight.
zunionSources(src, e) == SelectSeq([n \in DOMAIN src |-> n], LAMBDA n : Has(src[n], e))
zunionScore(src, weights, aggregate, e) ==
  LET sources == zunionSources(src, e)
      scores == [n \in DOMAIN sources |-> weights[sources[n]] * ScoreIn(src[sources[n]], e)]
  IN  FoldLeft(LAMBDA x, y : Aggregate(aggregate, x, y), Head(scores), Tail(scores))

zunionInterGenericCommand(s0, dstkey, ks, weights, aggregate, op) ==
  LET after(n) == lookupAllWrite(s0, SubSeq(ks, 1, n))
      bad == {n \in DOMAIN ks : ~Missing(after(n), ks[n]) /\ ~Is(after(n), ks[n], "zset")}
      s == after(IF bad = {} THEN Len(ks) ELSE Min(bad))
      src == [n \in DOMAIN ks |-> Val(s, ks[n])]
      all == UNION {{p[1] : p \in src[n]} : n \in DOMAIN ks}
      in == IF op = "union" THEN all ELSE {e \in all : Len(zunionSources(src, e)) = Len(ks)}
      result == ZSet({<<e, zunionScore(src, weights, aggregate, e)>> : e \in in})
  IN  IF bad # {} THEN s
      ELSE Dirty(StoreResult(s, dstkey, result), (IF Missing(s, dstkey) THEN 0 ELSE 1) + (IF in = {} THEN 0 ELSE 1))

-----------------------------------------------------------------------------
\* Hashes

TooLong(t) == Len(t) > hash_max_zipmap_value

\* Of the fields and values that are to be stored, one is too long.  The last argument
\* of a command is kept as a number if it is one, and does not count then.
hashTryConversion(h, pairs) ==
  IF \E n \in DOMAIN pairs :
       \/ TooLong(pairs[n][1])
       \/ TooLong(pairs[n][2]) /\ (n < Len(pairs) \/ ~IsNumber(pairs[n][2]))
  THEN [h EXCEPT !.enc = "ht"] ELSE h

\* A zipmap that has become too large becomes a hash table.
hashSet(h, f, v) ==
  LET map == But(h.map, f) \cup {<<f, v>>}
  IN  [enc |-> IF Cardinality(map) > hash_max_zipmap_entries THEN "ht" ELSE h.enc, map |-> map]

hashSetAll(h, pairs) ==
  LET after[n \in 0 .. Len(pairs)] == IF n = 0 THEN h ELSE hashSet(after[n - 1], pairs[n][1], pairs[n][2])
  IN  after[Len(pairs)]

\* hashLookupWriteOrCreate: the hash at k, a new one if there is none.
HashAt(s, k) == IF Missing(s, k) THEN [enc |-> "zipmap", map |-> {}] ELSE Val(s, k)
NoHash(s, k) == ~Missing(s, k) /\ ~Is(s, k, "hash")

\* HSET and HMSET.
hmsetCommand(s0, k, pairs) ==
  LET s == lookupKeyWrite(s0, k)
      h == hashTryConversion(HashAt(s, k), pairs)
  IN  IF NoHash(s, k) THEN s
      ELSE Dirty(Put(s, k, <<"hash", hashSetAll(h, pairs)>>), 1)

\* The conversion comes before the field is looked up.
hsetnxCommand(s0, k, f, v) ==
  LET s == lookupKeyWrite(s0, k)
      h == hashTryConversion(HashAt(s, k), <<<<f, v>>>>)
  IN  IF NoHash(s, k) THEN s
      ELSE IF Has(h.map, f) THEN Put(s, k, <<"hash", h>>)
      ELSE Dirty(Put(s, k, <<"hash", hashSet(h, f, v)>>), 1)

\* Without hashTryConversion.
hincrbyCommand(s0, k, f, incr) ==
  LET s == lookupKeyWrite(s0, k)
      h == HashAt(s, k)
      value == IF Has(h.map, f) THEN Number(ScoreIn(h.map, f)) ELSE 0
  IN  IF NoHash(s, k) \/ (Has(h.map, f) /\ ~IsNumber(ScoreIn(h.map, f))) \/ NumberText(value + incr) = {} THEN s
      ELSE Dirty(Put(s, k, <<"hash", hashSet(h, f, CHOOSE t \in NumberText(value + incr) : TRUE)>>), 1)

hdelCommand(s0, k, f) ==
  LET s == lookupKeyWrite(s0, k)
      h == Val(s, k)
  IN  IF ~Is(s, k, "hash") \/ ~Has(h.map, f) THEN s
      ELSE Dirty(PutOrDelete(s, k, <<"hash", [h EXCEPT !.map = But(@, f)]>>), 1)

-----------------------------------------------------------------------------
\* SORT k LIMIT start count STORE dst, without BY and ALPHA.

SortVector(s, k) == IF Is(s, k, "list") THEN Val(s, k)
                    ELSE SetToSeq(IF Is(s, k, "set") THEN Val(s, k) ELSE {p[1] : p \in Val(s, k)})

\* What strtod makes of a string: the number before its first letter.
SortScore(t) ==
  LET letters == {n \in DOMAIN t : t[n] = 0}
  IN  Number(IF letters = {} THEN t ELSE SubSeq(t, 1, Min(letters) - 1))

\* Two elements that SORT does not tell apart come from a hash table, whose order is its own.
Tied(s, k) ==
  LET elements == IF Is(s, k, "set") THEN Val(s, k) ELSE {p[1] : p \in Val(s, k)}
  IN  Type(s, k) \in {"set", "zset"} /\ \E x, y \in elements : x # y /\ SortScore(x) = SortScore(y)

SortedVector(vector) ==
  LET before(i) == {j \in DOMAIN vector : \/ SortScore(vector[j]) < SortScore(vector[i])
                                          \/ SortScore(vector[j]) = SortScore(vector[i]) /\ j < i}
  IN  [n \in 1 .. Len(vector) |-> vector[CHOOSE i \in DOMAIN vector : Cardinality(before(i)) = n - 1]]

\* What SORT leaves of the sorted vector: an offset past the end gives nothing.
SortRange(vector, limit_start, limit_count) ==
  LET n == Len(vector)
      start == Max({limit_start, 0})
      end == IF limit_count < 0 THEN n - 1 ELSE start + limit_count - 1
  IN  IF start >= n THEN << >> ELSE SubSeq(vector, start + 1, Min({end, n - 1}) + 1)

\* The source is looked up as if it were only read, and the time to live of dst stays.
sortCommand(s0, k, limit_start, limit_count, dst, late) ==
  LET s == lookupKeyRead(s0, k, late)
      result == SortRange(SortedVector(SortVector(s, k)), limit_start, limit_count)
  IN  IF Type(s, k) \notin {"list", "set", "zset"} THEN s
      ELSE Dirty(Put(s, dst, List(result)), 1 + Len(result))

-----------------------------------------------------------------------------
KInit == master = EmptyServer /\ slave = EmptyServer /\ exact = TRUE /\ outlived = {}

Elements(s) == Cardinality(UNION {{k} \X (1 .. Size(s.db[k])) : k \in Key})
Scores == 1 .. 2
Within(s) ==
  /\ Elements(s) <= MaxElems
  /\ Cardinality(s.expires) <= MaxVolatile
  /\ Cardinality({k \in Key : Is(s, k, "hash")}) <= 1          \* no command is about two
  /\ \A k \in Key : Is(s, k, "zset") => \A p \in Val(s, k) : p[2] \in Scores
  /\ \A k \in Key : Is(s, k, "string") => Len(Val(s, k)) <= MaxText

Outlived == {k \in master.expires \cap master'.expires : master'.db[k] # master.db[k]}

\* call: the master runs a command, and if that made its dataset dirty the slave is
\* sent it.
Propagated(onMaster, onSlave(_)) ==
  /\ master' = [onMaster EXCEPT !.dirty = 0]
  /\ slave' = IF onMaster.dirty > 0 THEN [onSlave(slave) EXCEPT !.dirty = 0] ELSE slave
  /\ \A s \in {master', slave'} : Within(s)
  /\ Cardinality({k \in Key : ~Missing(master', k) \/ ~Missing(slave', k)}) <= MaxKeys

Call2(onMaster, onSlave(_)) == Propagated(onMaster, onSlave) /\ outlived' = Outlived

Call(cmd(_)) == Call2(cmd(master), cmd) /\ UNCHANGED exact

\* A key that one of the two may not have any more.
Volatile(k) == k \in master.expires \cup slave.expires

\* Whether server s finds k past its time.
Late(s, k) == {FALSE} \cup {(k \in s.expires)}

\* SETEX gives the new value a time to live of its own.
setexCommand(k, v) ==
  /\ Propagated(setGenericCommand(master, FALSE, k, v, TRUE), LAMBDA s : setGenericCommand(s, FALSE, k, v, TRUE))
  /\ outlived' = Outlived \ {k} /\ UNCHANGED exact

\* SET, SETNX, SETEX.
setCommands ==
  \E k \in Key, v \in Elem :
    \/ \E nx \in BOOLEAN : Call(LAMBDA s : setGenericCommand(s, nx, k, v, FALSE))
    \/ setexCommand(k, v)

getset ==
  \E k \in Key, v \in Elem : \E late \in Late(master, k), late2 \in Late(slave, k) :
    /\ Call2(getsetCommand(master, k, v, late), LAMBDA s : getsetCommand(s, k, v, late2))
    /\ exact' = (exact /\ ~Volatile(k))

msetCommands ==
  \E k, l \in Key, v \in Elem, nx \in BOOLEAN :
    SameDb({k, l}) /\ Call(LAMBDA s : msetGenericCommand(s, <<<<k, v>>, <<l, v>>>>, nx))

incrCommands == \E k \in Key, incr \in {1, 10} : Call(LAMBDA s : incrDecrCommand(s, k, incr))

append == \E k \in Key, v \in Elem : Call(LAMBDA s : appendCommand(s, k, v))

del == \E k, l \in Key : SameDb({k, l}) /\ Call(LAMBDA s : delCommand(s, <<k, l>>))

renameCommands ==
  \E k, l \in Key, nx \in BOOLEAN : SameDb({k, l}) /\ Call(LAMBDA s : renameGenericCommand(s, k, l, nx))

move == \E k, l \in Key : k[2] = l[2] /\ Call(LAMBDA s : moveCommand(s, k, l))

flushdb == \E d \in Databases : Call(LAMBDA s : flushdbCommand(s, d))

\* before: dirty as FLUSHALL finds it.  If the one that rdbSave and the increment behind it leave
\* is the same, the slave is not sent the command; if it is sent, the two agree again.
flushall ==
  \E before \in 0 .. MaxChanges, saved \in BOOLEAN :
    LET flushed == flushallCommand([master EXCEPT !.dirty = before], saved)
        sent == flushed.dirty # before
    IN  /\ master' = [flushed EXCEPT !.dirty = 0]
        /\ slave' = IF sent THEN [flushallCommand(slave, saved) EXCEPT !.dirty = 0] ELSE slave
        /\ exact' = sent /\ outlived' = {}

\* EXPIREAT: the slave may run it when the time has passed.
expireCommands ==
  \E k \in Key, past, past2 \in BOOLEAN :
    Call2(expireGenericCommand(master, k, past), LAMBDA s : expireGenericCommand(s, k, past2)) /\ UNCHANGED exact

pushCommands == \E k \in Key, e \in Elem, where \in {"head", "tail"} : Call(LAMBDA s : pushGenericCommand(s, k, e, where))

popCommands == \E k \in Key, where \in {"head", "tail"} : Call(LAMBDA s : popGenericCommand(s, k, where))

lset == \E k \in Key, i \in {0, -1}, e \in Elem : Call(LAMBDA s : lsetCommand(s, k, i, e))

ltrim ==
  \E k \in Key, range \in {<<0, 0>>, <<1, -1>>, <<-1, -1>>, <<1, 0>>} :
    Call(LAMBDA s : ltrimCommand(s, k, range[1], range[2]))

lrem == \E k \in Key, n \in -1 .. 1, e \in Elem : Call(LAMBDA s : lremCommand(s, k, n, e))

rpoplpush == \E k, l \in Key : SameDb({k, l}) /\ Call(LAMBDA s : rpoplpushcommand(s, k, l))

sadd == \E k \in Key, e \in Elem : Call(LAMBDA s : saddCommand(s, k, e))

srem == \E k \in Key, e \in Elem : Call(LAMBDA s : sremCommand(s, k, e))

smove == \E k, l \in Key, e \in Elem : SameDb({k, l}) /\ Call(LAMBDA s : smoveCommand(s, k, l, e))

spop ==
  \E k \in Key, e, e2 \in Elem :
    /\ Call2(spopCommand(master, k, e), LAMBDA s : spopCommand(s, k, e2))
    /\ exact' = (exact /\ (~Is(master, k, "set") \/ Volatile(k) \/ Cardinality(Val(master, k)) = 1))

storeCommands ==
  \E k, l, dst \in Key :
    /\ SameDb({k, l, dst})
    /\ \/ Call(LAMBDA s : sinterGenericCommand(s, <<k, l>>, dst))
       \/ \E op \in {"union", "diff"} : Call(LAMBDA s : sunionDiffGenericCommand(s, <<k, l>>, dst, op))
       \/ \E op \in {"union", "inter"}, aggregate \in {"sum", "min"} :
            /\ op = "inter" => aggregate = "sum"
            /\ Call(LAMBDA s : zunionInterGenericCommand(s, dst, <<k, l>>, <<1, 1>>, aggregate, op))

zadd ==
  \E k \in Key, e \in Elem, score \in Scores, incr \in BOOLEAN :
    Call(LAMBDA s : zaddCommand(s, k, e, score, incr))

\* ZREM, ZREMRANGEBYSCORE.
zremCommands ==
  \E k \in Key :
    \/ \E e \in Elem : Call(LAMBDA s : zremFromSet(s, k, LAMBDA p : p[1] = e))
    \/ \E score \in Scores : Call(LAMBDA s : zremFromSet(s, k, LAMBDA p : p[2] <= score))

hashCommands ==
  \E k \in Key, f \in Elem :
    \/ \E v \in Elem : Call(LAMBDA s : hmsetCommand(s, k, <<<<f, v>>>>))
    \/ \E g, v \in Elem : g # f /\ Call(LAMBDA s : hmsetCommand(s, k, <<<<f, v>>, <<g, v>>>>))
    \/ \E v \in Elem : Call(LAMBDA s : hsetnxCommand(s, k, f, v))
    \/ \E incr \in {1, 10} : Call(LAMBDA s : hincrbyCommand(s, k, f, incr))
    \/ Call(LAMBDA s : hdelCommand(s, k, f))

sort ==
  \E k, dst \in Key, start \in {0, 2} : \E late \in Late(master, k), late2 \in Late(slave, k) :
    /\ SameDb({k, dst})
    /\ Call2(sortCommand(master, k, start, -1, dst, late), LAMBDA s : sortCommand(s, k, start, -1, dst, late2))
    /\ exact' = (exact /\ ~Volatile(k) /\ ~Volatile(dst) /\ ~Tied(master, k)
                       /\ (Is(master', dst, "list") => Val(master', dst) # << >>))

\* A command that only reads a key, or serverCron, finds a key past its time.
expire ==
  /\ \E k \in Key : \/ k \in master.expires /\ master' = lookupKeyRead(master, k, TRUE) /\ UNCHANGED slave
                    \/ k \in slave.expires /\ slave' = lookupKeyRead(slave, k, TRUE) /\ UNCHANGED master
  /\ outlived' = {} /\ UNCHANGED exact

\* What follows a command after which the two may differ is of no interest here.
KNext ==
  \/ flushall
  \/ exact /\
     \/ setCommands \/ getset \/ msetCommands \/ incrCommands \/ append
     \/ del \/ renameCommands \/ move \/ flushdb \/ expireCommands \/ expire
     \/ pushCommands \/ popCommands \/ lset \/ ltrim \/ lrem \/ rpoplpush
     \/ sadd \/ srem \/ smove \/ spop \/ storeCommands
     \/ zadd \/ zremCommands \/ hashCommands \/ sort

KSpec == KInit /\ [][KNext]_kvars

-----------------------------------------------------------------------------
\* A value without the way it is kept.
Data(v) == IF v[1] = "hash" THEN <<"hash", v[2].map>> ELSE v

\* Master and slave have the same at key k, or one of them found it past its time.
Agree(k) ==
  \/ Data(master.db[k]) = Data(slave.db[k]) /\ (k \in master.expires <=> k \in slave.expires)
  \/ k \in master.expires /\ Missing(slave, k)
  \/ k \in slave.expires /\ Missing(master, k)

\* "a server that receives a given number of commands in the same sequence will end
\* with the same dataset in memory" (doc/ExpireCommand.html), whenever keys expire on
\* the one and on the other: a write that changed the dataset was propagated, and
\* what it did does not depend on whether a volatile key was still there.  Excepted
\* are the commands that exact names: a FLUSHALL whose save leaves dirty as it was, SPOP of one
\* of several elements, GETSET and SORT ... STORE that meet a volatile key, and SORT that
\* stores an empty list or compares elements of a set or sorted set as equal.
SameDataset == exact => \A k \in Key : Agree(k)

\* No set, sorted set or hash is empty: a key goes with its last element.
\* zunionInterGenericCommand sorts its sources by size and counts on it that those
\* that are missing come first; the emptiness of lists is what BLPOP waits on.
NoEmptyAggregates ==
  \A s \in {master, slave}, k \in Key :
    ~Missing(s, k) /\ (exact \/ ~Is(s, k, "list")) /\ ~Is(s, k, "string") => Size(s.db[k]) > 0

\* Every key with a time to live is there: "expires" holds no key that the dataset does
\* not have, which the next value stored at that key would get.
ExpiresExist == \A s \in {master, slave} : \A k \in s.expires : ~Missing(s, k)

\* No value gets the time to live of the one it replaced or was made of ("write operations against volatile keys will destroy the key",
\* doc/ExpireCommand.html), but for the list of a SORT ... STORE: its dictReplace goes past
\* removeExpire.
OldTimesGo == \A k \in outlived : ~exact /\ Is(master, k, "list")

\* A hash that is kept as a zipmap is small, whatever commands made it: few entries, and no
\* field or value too long, but for those of an entry whose value is a number: HINCRBY
\* does not look at lengths, and HSET not at that of a number.
ZipmapSmall ==
  \A s \in {master, slave}, k \in Key :
    Is(s, k, "hash") /\ Val(s, k).enc = "zipmap" =>
      /\ Cardinality(Val(s, k).map) <= hash_max_zipmap_entries
      /\ \A p \in Val(s, k).map : TooLong(p[1]) \/ TooLong(p[2]) => IsNumber(p[2])

\* LTRIM keeps what LRANGE with the same indices returns.
TrimIsRange ==
  \A k \in Key :
    Is(master, k, "list") => \A start, end \in -3 .. 3 :
      LET t == ltrimCommand([master EXCEPT !.expires = {}], k, start, end)
          r == lrangeCommand(Val(master, k), start, end)
      IN  t.db[k] = IF r = << >> THEN None ELSE List(r)

\* Each command leaves a dataset without empty aggregates, without times to live that outlast
\* their values and without zipmaps beyond their limits; LTRIM and LRANGE mean the same range.
KeyspaceSound == NoEmptyAggregates /\ ExpiresExist /\ OldTimesGo /\ ZipmapSmall /\ TrimIsRange
=============================================================================
