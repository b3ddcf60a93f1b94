-------------------------------- MODULE Dict --------------------------------
(***************************************************************************)
(* The hash table of redis (examples/redis-2.0.2/dict.c), which moves its  *)
(* entries to a larger or smaller table a bucket at a time, while it is    *)
(* used and iterated over, together with the policy of redis.c on when to  *)
(* resize (tryResizeHashTables, incrementallyRehash,                       *)
(* updateDictResizePolicy).                                                *)
(*                                                                         *)
(* A table is a sequence of chains, a chain the sequence of its entries,   *)
(* head first.  Hash functions are parameters; sizes stay powers of two    *)
(* times DICT_HT_INITIAL_SIZE, so that the mask is a remainder.            *)
(***************************************************************************)
EXTENDS Integers, Sequences, SequencesExt, FiniteSetsExt

CONSTANTS Key, Value, NULL,
          Hash,                      \* dictHashKey
          DICT_HT_INITIAL_SIZE,
          dict_force_resize_ratio,
          REDIS_HT_MINFILL           \* percent

ASSUME DictSizeAssumption == DICT_HT_INITIAL_SIZE \in Nat \ {0}
ASSUME DictHashAssumption == Hash \in [Key -> Nat]
ASSUME DictNullAssumption == NULL \notin Key \cup Value

VARIABLES d,                 \* the dict
          dict_can_resize,
          iter,              \* the iterator, when there is one
          seen,              \* how often the iterator has returned each key
          stayed             \* keys that were there since dictGetIterator

dictvars == <<d, dict_can_resize, iter, seen, stayed>>

Entry == [key : Key, val : Value]
NoTable == [table |-> << >>, used |-> 0]
NoIter == [on |-> FALSE, table |-> 0, index |-> -1, entry |-> NULL, nextEntry |-> NULL]

-----------------------------------------------------------------------------
Size(ht) == Len(ht.table)
IsRehashing(c) == c.rehashidx # -1

\* The chain for key k: _dictKeyIndex, with "& sizemask" as a remainder.
Bucket(ht, k) == (Hash[k] % Size(ht)) + 1
ChainOf(ht, k) == ht.table[Bucket(ht, k)]
InChain(s, k) == \E n \in DOMAIN s : s[n].key = k

\* Where k is in a chain that it is in.
Place(s, k) == Min({n \in DOMAIN s : s[n].key = k})

\* The tables that a search looks at, the old one first.
Tables(c) == IF IsRehashing(c) THEN {0, 1} ELSE {0}

\* The table that has k, or -1.
TableOf(c, k) ==
  LET hits == {n \in Tables(c) : Size(c.ht[n]) > 0 /\ InChain(ChainOf(c.ht[n], k), k)}
  IN  IF hits = {} THEN -1 ELSE Min(hits)

\* The first size, doubled until it is large enough.
_dictNextPower(size) ==
  LET doubled[n \in 0 .. size] == IF n = 0 THEN DICT_HT_INITIAL_SIZE ELSE 2 * doubled[n - 1]
  IN  doubled[Min({n \in 0 .. size : doubled[n] >= size})]

\* dictExpand: the first table, or a second one to move to.
dictExpand(c, size) ==
  LET n == [table |-> [i \in 1 .. _dictNextPower(size) |-> << >>], used |-> 0]
  IN  IF IsRehashing(c) \/ c.ht[0].used > size THEN c
      ELSE IF Size(c.ht[0]) = 0 THEN [c EXCEPT !.ht = [c.ht EXCEPT ![0] = n]]
      ELSE [ht |-> [c.ht EXCEPT ![1] = n], rehashidx |-> 0, iterators |-> c.iterators]

_dictExpandIfNeeded(c) ==
  IF IsRehashing(c) THEN c
  ELSE IF Size(c.ht[0]) = 0 THEN dictExpand(c, DICT_HT_INITIAL_SIZE)
  ELSE IF c.ht[0].used >= Size(c.ht[0])
          /\ (dict_can_resize \/ c.ht[0].used \div Size(c.ht[0]) > dict_force_resize_ratio)
  THEN dictExpand(c, Max({Size(c.ht[0]), c.ht[0].used}) * 2)
  ELSE c

\* Chain b of table n becomes s, and the table has this many entries more.
WithChain(c, n, b, s, more) ==
  LET h == [table |-> [c.ht[n].table EXCEPT ![b] = s], used |-> c.ht[n].used + more]
  IN  [c EXCEPT !.ht = [c.ht EXCEPT ![n] = h]]

\* Mutant of Insert: the new entry does not point to the old head of its chain.
MutChainLost(c, n, e) == WithChain(c, n, Bucket(c.ht[n], e.key), <<e>>, 1)

Insert(c, n, e) ==
  LET b == Bucket(c.ht[n], e.key)
  IN  WithChain(c, n, b, <<e>> \o c.ht[n].table[b], 1)

Unlink(c, n, k) ==
  LET b == Bucket(c.ht[n], k)
      chain == c.ht[n].table[b]
  IN  WithChain(c, n, b, RemoveAt(chain, Place(chain, k)), -1)

SetVal(c, n, k, v) ==
  LET b == Bucket(c.ht[n], k)
      chain == c.ht[n].table[b]
  IN  WithChain(c, n, b, [chain EXCEPT ![Place(chain, k)] = [key |-> k, val |-> v]], 0)

\* The head of old chain b goes to the head of its new chain.
MoveHead(c, b) ==
  LET e == Head(c.ht[0].table[b])
  IN  Insert(Unlink(c, 0, e.key), 1, e)

\* One step of dictRehash: the table is done, or the next bucket that is not empty
\* moves, its entries one by one.
RehashBucket(c) ==
  IF c.ht[0].used = 0
  THEN [ht |-> [n \in {0, 1} |-> IF n = 0 THEN c.ht[1] ELSE NoTable], rehashidx |-> -1, iterators |-> c.iterators]
  ELSE LET b == Min({n \in c.rehashidx + 1 .. Size(c.ht[0]) : c.ht[0].table[n] # << >>})
           moved[k \in 0 .. Len(c.ht[0].table[b])] == IF k = 0 THEN c ELSE MoveHead(moved[k - 1], b)
       IN  [moved[Len(c.ht[0].table[b])] EXCEPT !.rehashidx = b]

\* dictRehash, n steps.
dictRehash(c, n) ==
  LET after[k \in 0 .. n] ==
        IF k = 0 THEN c ELSE IF IsRehashing(after[k - 1]) THEN RehashBucket(after[k - 1]) ELSE after[k - 1]
  IN  after[n]

\* Mutant of _dictRehashStep: it moves buckets under an iterator.
MutStepAlways(c) == dictRehash(c, 1)

\* Every look-up and update moves a bucket along, unless somebody iterates.
_dictRehashStep(c) == IF c.iterators = 0 THEN dictRehash(c, 1) ELSE c

\* Mutant of AddTo: new entries go to the table that is being emptied.
MutAddToOld(c) == 0

\* New entries go to the new table.
AddTo(c) == IF IsRehashing(c) THEN 1 ELSE 0

Prepared(c) == _dictExpandIfNeeded(_dictRehashStep(c))

\* dictAdd on the dict c: the step, the search in all tables, the insertion.
Added(c, k, v) ==
  LET s == Prepared(c)
  IN  IF TableOf(s, k) # -1 THEN s ELSE Insert(s, AddTo(s), [key |-> k, val |-> v])

-----------------------------------------------------------------------------
DictInit ==
  /\ d = [ht |-> [n \in {0, 1} |-> NoTable], rehashidx |-> -1, iterators |-> 0]
  /\ dict_can_resize = TRUE
  /\ iter = NoIter
  /\ seen = [k \in Key |-> 0]
  /\ stayed = {}

itervars == <<iter, seen, stayed>>

dictAdd(k, v) ==
  /\ d' = Added(d, k, v)
  /\ UNCHANGED <<dict_can_resize, itervars>>

\* dictAdd, and where that fails dictFind and a new value in the entry.
dictReplace(k, v) ==
  LET a == Added(d, k, v)
      s == _dictRehashStep(a)
  IN  /\ d' = IF TableOf(Prepared(d), k) = -1 THEN a ELSE SetVal(s, TableOf(s, k), k, v)
      /\ UNCHANGED <<dict_can_resize, itervars>>

\* "the iterator user may delete the entry we are returning", and no other.
dictGenericDelete(k) ==
  LET s == _dictRehashStep(d)
  IN  /\ iter.on => iter.entry = k
      /\ d' = IF Size(d.ht[0]) = 0 THEN d
              ELSE IF TableOf(s, k) = -1 THEN s ELSE Unlink(s, TableOf(s, k), k)
      /\ stayed' = stayed \ {k}
      /\ UNCHANGED <<dict_can_resize, iter, seen>>

dictFind(k) ==
  LET s == _dictRehashStep(d)
  IN  /\ d' = IF Size(d.ht[0]) = 0 THEN d ELSE s
      /\ UNCHANGED <<dict_can_resize, itervars>>

\* Random buckets until one is not empty; dictSize says that there is one.
dictGetRandomKey ==
  LET s == _dictRehashStep(d)
  IN  /\ d.ht[0].used + d.ht[1].used > 0
      /\ \E n \in Tables(s) : \E b \in DOMAIN s.ht[n].table : s.ht[n].table[b] # << >>
      /\ d' = s
      /\ UNCHANGED <<dict_can_resize, itervars>>

dictEmpty ==
  /\ ~iter.on
  /\ d' = [ht |-> [n \in {0, 1} |-> NoTable], rehashidx |-> -1, iterators |-> 0]
  /\ UNCHANGED <<dict_can_resize, itervars>>

-----------------------------------------------------------------------------
dictGetIterator ==
  /\ ~iter.on
  /\ iter' = [NoIter EXCEPT !.on = TRUE]
  /\ seen' = [k \in Key |-> 0]
  /\ stayed' = {k \in Key : TableOf(d, k) # -1}
  /\ UNCHANGED <<d, dict_can_resize>>

\* The entry after that of key k in its chain of the iterator's bucket.
After(chain, k) == IF Place(chain, k) < Len(chain) THEN chain[Place(chain, k) + 1].key ELSE NULL

\* The first bucket of table n, from index i on, that is not empty.
NonEmpty(n, i) == {b \in i .. Size(d.ht[n]) - 1 : d.ht[n].table[b + 1] # << >>}

\* The iterator at the head of bucket b of table n.
AtHead(n, b) ==
  LET chain == d.ht[n].table[b + 1]
  IN  [on |-> TRUE, table |-> n, index |-> b, entry |-> Head(chain).key, nextEntry |-> After(chain, Head(chain).key)]

\* Where the iterator goes: along the chain, to the next bucket, to the second
\* table, or past the end.
Advanced ==
  IF iter.entry # NULL /\ iter.nextEntry # NULL
  THEN [on |-> TRUE, table |-> iter.table, index |-> iter.index, entry |-> iter.nextEntry,
        nextEntry |-> After(d.ht[iter.table].table[iter.index + 1], iter.nextEntry)]
  ELSE IF NonEmpty(iter.table, iter.index + 1) # {}
  THEN AtHead(iter.table, Min(NonEmpty(iter.table, iter.index + 1)))
  ELSE IF IsRehashing(d) /\ iter.table = 0 /\ NonEmpty(1, 0) # {}
  THEN AtHead(1, Min(NonEmpty(1, 0)))
  ELSE LET last == IF IsRehashing(d) THEN 1 ELSE iter.table
       IN  [on |-> TRUE, table |-> last, index |-> Size(d.ht[last]), entry |-> NULL, nextEntry |-> NULL]

\* The first dictNext counts the iterator.
Counted == IF iter.index = -1 /\ iter.table = 0 THEN d.iterators + 1 ELSE d.iterators

Exhausted == iter.index >= 0 /\ iter.entry = NULL

dictNext ==
  /\ iter.on
  /\ ~Exhausted
  /\ iter' = Advanced
  /\ d' = [d EXCEPT !.iterators = Counted]
  /\ seen' = IF Advanced.entry = NULL THEN seen ELSE [seen EXCEPT ![Advanced.entry] = @ + 1]
  /\ UNCHANGED <<dict_can_resize, stayed>>

\* An iterator that never got to its first dictNext was not counted.
Uncounted == IF iter.index = -1 /\ iter.table = 0 THEN d.iterators ELSE d.iterators - 1

dictReleaseIterator ==
  /\ iter.on
  /\ d' = [d EXCEPT !.iterators = Uncounted]
  /\ iter' = NoIter
  /\ seen' = [k \in Key |-> 0]
  /\ stayed' = {}
  /\ UNCHANGED <<dict_can_resize>>

-----------------------------------------------------------------------------
\* serverCron, between commands: no iterator is under way.
htNeedsResize(c) ==
  LET size == Size(c.ht[0]) + Size(c.ht[1])
      used == c.ht[0].used + c.ht[1].used
  IN  /\ used > 0 /\ size > DICT_HT_INITIAL_SIZE
      /\ (used * 100) \div size < REDIS_HT_MINFILL

dictResize(c) ==
  IF ~dict_can_resize \/ IsRehashing(c) THEN c
  ELSE dictExpand(c, Max({c.ht[0].used, DICT_HT_INITIAL_SIZE}))

tryResizeHashTables ==
  /\ ~iter.on
  /\ htNeedsResize(d)
  /\ d' = dictResize(d)
  /\ UNCHANGED <<dict_can_resize, itervars>>

\* dictRehashMilliseconds: some number of steps, as many as there is time for.
incrementallyRehash ==
  /\ ~iter.on
  /\ IsRehashing(d)
  /\ \E n \in 1 .. Size(d.ht[0]) + 1 : d' = dictRehash(d, n)
  /\ UNCHANGED <<dict_can_resize, itervars>>

\* A child that saves starts or ends.
updateDictResizePolicy ==
  /\ ~iter.on
  /\ dict_can_resize' = ~dict_can_resize
  /\ UNCHANGED <<d, itervars>>

DictNext ==
  \/ \E k \in Key, v \in Value : dictAdd(k, v) \/ dictReplace(k, v)
  \/ \E k \in Key : dictGenericDelete(k) \/ dictFind(k)
  \/ dictGetRandomKey \/ dictEmpty
  \/ dictGetIterator \/ dictNext \/ dictReleaseIterator
  \/ tryResizeHashTables \/ incrementallyRehash \/ updateDictResizePolicy

DictSpec == DictInit /\ [][DictNext]_dictvars

-----------------------------------------------------------------------------
Elements(h) == UNION {ToSet(h.table[b]) : b \in DOMAIN h.table}
Entries(n) == Elements(d.ht[n])

\* The places of a table: which chain, and where in it.
Slots(h) == UNION {{b} \X DOMAIN h.table[b] : b \in DOMAIN h.table}

\* The fields of the dict and of its two tables: rehashidx stays within the old table and
\* iterators, which dictNext and dictReleaseIterator count, with the one iterator.
DictTypeOK ==
  /\ \A n \in {0, 1} : Entries(n) \subseteq Entry /\ d.ht[n].used \in Nat
  /\ d.rehashidx \in -1 .. Size(d.ht[0])
  /\ d.iterators \in 0 .. 1
  /\ dict_can_resize \in BOOLEAN

\* Every entry is in the chain where a search looks for it, no key has two, and
\* used counts them: after any mixture of moving, adding and deleting.
WellPlaced ==
  /\ \A n \in {0, 1} : \A b \in DOMAIN d.ht[n].table : \A e \in ToSet(d.ht[n].table[b]) :
       Bucket(d.ht[n], e.key) = b
  /\ \A n \in {0, 1} : d.ht[n].used = Cardinality(Slots(d.ht[n]))
  /\ d.ht[0].used + d.ht[1].used = Cardinality({e.key : e \in Entries(0) \cup Entries(1)})

\* While it moves, what is below rehashidx has moved ("rehashidx can't overflow as
\* we are sure there are more elements because ht[0].used != 0").
MovedBehind ==
  IF IsRehashing(d)
  THEN Size(d.ht[1]) > 0 /\ \A b \in DOMAIN d.ht[0].table : b <= d.rehashidx => d.ht[0].table[b] = << >>
  ELSE d.ht[1] = NoTable

\* "When we have iterators in the middle of a rehashing we can't mess with the two
\* hash tables otherwise some element can be missed or duplicated": an iterator
\* that has come to its end has returned every key that was there all along, once.
IterationComplete ==
  (iter.on /\ Exhausted) => \A k \in stayed : seen[k] = 1

\* The table behaves as a map: moving buckets about changes nothing that a user can
\* see, and every call changes the entry of its own key only.
Map == INSTANCE DictMap WITH content <- Entries(0) \cup Entries(1)
\* The refinement: DictMap with the entries of both tables as its content.
ImplementsMap == Map!MSpec

\* Between any two calls, in the middle of a rehashing too, each entry is where dictFind looks
\* for it, once, and the part of the old table behind rehashidx is empty.
DictSound == DictTypeOK /\ WellPlaced /\ MovedBehind
=============================================================================
