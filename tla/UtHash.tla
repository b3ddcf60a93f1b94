------------------------------- MODULE UtHash -------------------------------
(***************************************************************************)
(* The hash table of contrib/uthash/uthash_xform.h, which the type table   *)
(* uses: rows with locks of their own, a lock against expansion that every *)
(* user of a row holds for reading, and the expansion of the table by a    *)
(* thread that finds its row too long after it has released both locks.    *)
(*                                                                         *)
(* The users are disciplined ones, as mktypptr is: the row they lock is    *)
(* that of the key they look up and add.  Left out: those who look a key   *)
(* up without any lock, as get_typeinfo_from_table does for visit.         *)
(*                                                                         *)
(* The array of rows has a number: an expansion frees the old array, and   *)
(* what is read from it afterwards can be anything.  Abstracted: the order *)
(* of a row's entries; the chain is how many entries each key has in it.   *)
(***************************************************************************)
EXTENDS Integers, FiniteSets, FiniteSetsExt

CONSTANTS User,                          \* threads
          HashKey,                       \* keys
          HashValue,                     \* hashv of each key
          XHASH_INITIAL_NUM_BUCKETS, XHASH_MAX_NUM_BUCKETS, XHASH_MAX_NUM_MUTEX, XHASH_BKT_CAPACITY_THRESH,
          MaxUses                        \* bound: operations of each thread

\* 2^n
Doubled[n \in Nat] == IF n = 0 THEN 1 ELSE 2 * Doubled[n - 1]

ASSUME KeyAssumption == HashKey # {} /\ IsFiniteSet(HashKey) /\ HashValue \in [HashKey -> Nat]
ASSUME UserAssumption == IsFiniteSet(User)
\* The sizes are powers of two in the code.
ASSUME SizeAssumption ==
  /\ XHASH_INITIAL_NUM_BUCKETS \in Nat \ {0} /\ XHASH_MAX_NUM_MUTEX \in Nat \ {0}
  /\ XHASH_MAX_NUM_BUCKETS \in Nat
  /\ \E d \in 0 .. XHASH_MAX_NUM_BUCKETS : XHASH_MAX_NUM_BUCKETS = 2 * (XHASH_INITIAL_NUM_BUCKETS * Doubled[d])

VARIABLES num_buckets, buckets,          \* the rows: chain and expand_mult
          array,                         \* the number of the array of rows
          num_items, ineff_expands, noexpand,
          expand_lock,                   \* who holds it for reading, and who for writing
          bucket_mutex,                  \* who holds the lock of each row
          user                           \* what each thread is at: place, key, row, array it read, and operations begun

hashvars == <<num_buckets, buckets, array, num_items, ineff_expands, noexpand, expand_lock, bucket_mutex, user>>
tablevars == <<num_buckets, buckets, array, num_items, ineff_expands, noexpand>>

-----------------------------------------------------------------------------
XHASH_TO_BKT(k, n) == HashValue[k] % n

\* Rows beyond the number of locks share them.
MutexOf(b) == b % XHASH_MAX_NUM_MUTEX

Row(entries, mult) == [chain |-> entries, expand_mult |-> mult]

AtPlace(t, p) == user[t].pc = p
Goes(t, p) == user' = [user EXCEPT ![t].pc = p]

HashInit ==
  /\ num_buckets = XHASH_INITIAL_NUM_BUCKETS
  /\ buckets = [b \in 0 .. num_buckets - 1 |-> Row([k \in HashKey |-> 0], 0)]
  /\ array = 1 /\ num_items = 0 /\ ineff_expands = 0 /\ noexpand = FALSE
  /\ expand_lock = [readers |-> {}, writer |-> {}]
  /\ bucket_mutex = [m \in 0 .. XHASH_MAX_NUM_MUTEX - 1 |-> {}]
  /\ user \in [User -> {[pc |-> "idle", key |-> k, bkt |-> 0, array |-> 0, uses |-> 0] : k \in {CHOOSE k \in HashKey : TRUE}}]

-----------------------------------------------------------------------------
\* Mutant of XHASH_WRLOCK_BUCKET: the row is looked up before the table is kept from growing.
MutRowFirst(t, k) ==
  /\ AtPlace(t, "idle") /\ user[t].uses < MaxUses
  /\ user' = [user EXCEPT ![t] = [pc |-> "row", key |-> k, bkt |-> XHASH_TO_BKT(k, num_buckets), array |-> array, uses |-> @.uses + 1]]
  /\ UNCHANGED <<tablevars, expand_lock, bucket_mutex>>

\* XHASH_WRLOCK_BUCKET: the lock against expansion, then the row's.
XHASH_WRLOCK_BUCKET(t, k) ==
  /\ AtPlace(t, "idle") /\ user[t].uses < MaxUses
  /\ expand_lock.writer = {}
  /\ expand_lock' = [expand_lock EXCEPT !.readers = @ \cup {t}]
  /\ user' = [user EXCEPT ![t] = [pc |-> "row", key |-> k, bkt |-> XHASH_TO_BKT(k, num_buckets), array |-> array, uses |-> @.uses + 1]]
  /\ UNCHANGED <<tablevars, bucket_mutex>>

wrlock_row(t) ==
  /\ AtPlace(t, "row")
  /\ bucket_mutex[MutexOf(user[t].bkt)] = {}
  /\ bucket_mutex' = [bucket_mutex EXCEPT ![MutexOf(user[t].bkt)] = {t}]
  /\ Goes(t, "find")
  /\ UNCHANGED <<tablevars, expand_lock>>

\* XHASH_FIND under the locks, which decides whether the key is added.
XHASH_FIND(t) ==
  /\ AtPlace(t, "find")
  /\ Goes(t, IF buckets[user[t].bkt].chain[user[t].key] > 0 THEN "unlock" ELSE "add")
  /\ UNCHANGED <<tablevars, expand_lock, bucket_mutex>>

\* XHASH_ADD_KEYPTR: the list of all items, under link_lock ...
XHASH_ADD_KEYPTR(t) ==
  /\ AtPlace(t, "add")
  /\ num_items' = num_items + 1
  /\ Goes(t, "bucket")
  /\ UNCHANGED <<num_buckets, buckets, array, ineff_expands, noexpand, expand_lock, bucket_mutex>>

\* ... and the row.
XHASH_ADD_TO_BKT(t) ==
  /\ AtPlace(t, "bucket")
  /\ buckets' = [buckets EXCEPT ![XHASH_TO_BKT(user[t].key, num_buckets)].chain[user[t].key] = @ + 1]
  /\ Goes(t, "unlock")
  /\ UNCHANGED <<num_buckets, array, num_items, ineff_expands, noexpand, expand_lock, bucket_mutex>>

\* XHASH_UNLOCK_BUCKET: both locks are released, then tbl->buckets is read ...
XHASH_UNLOCK_BUCKET(t) ==
  /\ AtPlace(t, "unlock")
  /\ bucket_mutex' = [bucket_mutex EXCEPT ![MutexOf(XHASH_TO_BKT(user[t].key, num_buckets))] = {}]
  /\ expand_lock' = [expand_lock EXCEPT !.readers = @ \ {t}]
  /\ Goes(t, "rows")
  /\ UNCHANGED tablevars

read_rows(t) ==
  /\ AtPlace(t, "rows")
  /\ user' = [user EXCEPT ![t].pc = "count", ![t].array = array]
  /\ UNCHANGED <<tablevars, expand_lock, bucket_mutex>>

\* ... and the count in it, without a lock; what, is the answer when it is an array that
\* was freed.
Count(chain) == MapThenSumSet(LAMBDA k : chain[k], HashKey)
TooLong(b) == Count(b.chain) >= (b.expand_mult + 1) * XHASH_BKT_CAPACITY_THRESH

read_count(t, what) ==
  LET live == user[t].array = array
      long == IF live THEN TooLong(buckets[user[t].bkt]) ELSE what
  IN  /\ AtPlace(t, "count")
      /\ live => ~what
      /\ Goes(t, IF long /\ ~noexpand THEN "expand" ELSE "idle")
      /\ UNCHANGED <<tablevars, expand_lock, bucket_mutex>>

-----------------------------------------------------------------------------
\* XHASH_EXPAND_BUCKETS: the size is compared before the lock is taken.
XHASH_EXPAND_BUCKETS(t) ==
  /\ AtPlace(t, "expand")
  /\ Goes(t, IF num_buckets >= XHASH_MAX_NUM_BUCKETS THEN "idle" ELSE "wrlock")
  /\ UNCHANGED <<tablevars, expand_lock, bucket_mutex>>

wrlock_expand(t) ==
  /\ AtPlace(t, "wrlock")
  /\ expand_lock = [readers |-> {}, writer |-> {}]
  /\ expand_lock' = [expand_lock EXCEPT !.writer = {t}]
  /\ Goes(t, "redistribute")
  /\ UNCHANGED <<tablevars, bucket_mutex>>

\* ceil(n / b)
ideal_chain_maxlen == (num_items \div (2 * num_buckets)) + (IF num_items % (2 * num_buckets) # 0 THEN 1 ELSE 0)

\* Row b of the new array.
Redistributed(b) ==
  [k \in HashKey |-> IF XHASH_TO_BKT(k, 2 * num_buckets) = b THEN buckets[b % num_buckets].chain[k] ELSE 0]

redistribute(t) ==
  LET new == [b \in 0 .. 2 * num_buckets - 1 |-> Redistributed(b)]
      long == {b \in DOMAIN new : Count(new[b]) > ideal_chain_maxlen}
      nonideal_items == MapThenSumSet(LAMBDA b : Count(new[b]) - ideal_chain_maxlen, long)
  IN  /\ AtPlace(t, "redistribute")
      /\ buckets' = [b \in DOMAIN new |-> Row(new[b], IF b \in long THEN Count(new[b]) \div ideal_chain_maxlen ELSE 0)]
      /\ num_buckets' = 2 * num_buckets
      /\ array' = array + 1
      /\ ineff_expands' = IF nonideal_items > num_items \div 2 THEN ineff_expands + 1 ELSE 0
      /\ noexpand' = (noexpand \/ ineff_expands' > 1)
      /\ expand_lock' = [expand_lock EXCEPT !.writer = {}]
      /\ Goes(t, "idle")
      /\ UNCHANGED <<num_items, bucket_mutex>>

-----------------------------------------------------------------------------
Idle == \A t \in User : AtPlace(t, "idle") /\ user[t].uses = MaxUses

HashNext ==
  \/ \E t \in User :
       \/ \E k \in HashKey : XHASH_WRLOCK_BUCKET(t, k)
       \/ wrlock_row(t) \/ XHASH_FIND(t) \/ XHASH_ADD_KEYPTR(t) \/ XHASH_ADD_TO_BKT(t)
       \/ XHASH_UNLOCK_BUCKET(t) \/ read_rows(t) \/ \E what \in BOOLEAN : read_count(t, what)
       \/ XHASH_EXPAND_BUCKETS(t) \/ wrlock_expand(t) \/ redistribute(t)
  \/ Idle /\ UNCHANGED hashvars

-----------------------------------------------------------------------------
\* Keys that have been counted as items and are not in a row yet, and those that are.
Adding == {t \in User : AtPlace(t, "bucket")}
Kept == {k \in HashKey : buckets[XHASH_TO_BKT(k, num_buckets)].chain[k] > 0}

\* However often the table grows under its users, a key has one entry at most, in the row
\* where a look-up expects it, and no entry is lost.
EntriesKept ==
  /\ \A b \in DOMAIN buckets, k \in HashKey :
       buckets[b].chain[k] <= IF b = XHASH_TO_BKT(k, num_buckets) THEN 1 ELSE 0
  /\ num_items = Cardinality(Kept) + Cardinality(Adding)

\* Who uses a row holds the lock of that very row: the table cannot have grown since the
\* row was computed, and nobody else is in it.
RowStaysLocked ==
  \A t \in User :
    user[t].pc \in {"find", "add", "bucket", "unlock"} =>
      /\ expand_lock.writer = {} /\ t \in expand_lock.readers
      /\ user[t].bkt = XHASH_TO_BKT(user[t].key, num_buckets)
      /\ bucket_mutex[MutexOf(user[t].bkt)] = {t}

\* "there is no guarantee that two threads will not call for expansion back to back":
\* together they can pass the limit, which they compare before they have the lock, but by
\* one doubling for each thread and no more.
BackToBackBounded == num_buckets <= (XHASH_MAX_NUM_BUCKETS \div 2) * Doubled[Cardinality(User)]

\* The table may grow at any moment between the critical sections of its users: nobody works
\* on a row that is not locked or not the key's any more, no entry is lost or doubled, and
\* threads that call for an expansion back to back pass the limit by no more than their number.
TableSound == EntriesKept /\ RowStaysLocked /\ BackToBackBounded
=============================================================================
