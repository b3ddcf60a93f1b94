------------------------------ MODULE TypeTable ------------------------------
(***************************************************************************)
(* The table of types (src/src/cstrider_api.c) while traversal threads     *)
(* construct types in it: mktyparr, mktypptr and mktypfromgenargs, over    *)
(* the row locks of contrib/uthash/uthash_xform.h.                         *)
(*                                                                         *)
(* A row of the table is the chain of its entries, newest first.  Adding   *)
(* to a row is two steps, the read of hh_head and the write of hh_head:    *)
(* nothing in XHASH_ADD_TO_BKT keeps two threads apart but the lock that   *)
(* the caller took.  A look-up takes no lock and sees the chain of one     *)
(* moment.                                                                 *)
(*                                                                         *)
(* The hash functions are parameters.  hasharrcs and hashgencs have four   *)
(* bytes of padding that are hashed uninitialised: Pad.                    *)
(*                                                                         *)
(* Abstracted: of an entry, the fields that say which type it is; the      *)
(* others are copies.  Bound: no row reaches XHASH_BKT_CAPACITY_THRESH     *)
(* entries, so that no unlock expands the table.                           *)
(***************************************************************************)
EXTENDS Integers, Sequences, FiniteSets, SequencesExt

CONSTANTS Thread,
          BaseTyp,      \* the types of the generated arrays
          TargetOf,     \* target_type_array
          ArrayLen,     \* array lengths the program uses
          GenArgs,      \* generic arguments the program uses
          Pad,          \* values of uninitialised padding
          Hash(_, _),   \* SuperFastHash of a call's arguments and the padding
          RowOf(_),     \* XHASH_FCN: the row of a type
          MaxCalls,     \* bound: calls per thread
          NoTyp         \* -1

ASSUME BaseAssumption == IsFiniteSet(BaseTyp)
ASSUME TargetAssumption == TargetOf \in [BaseTyp -> BaseTyp \cup {NoTyp}] /\ NoTyp \notin BaseTyp
ASSUME MaxCallsAssumption == MaxCalls \in Nat

VARIABLES table,    \* the chains, by row
          lock,     \* the row locks that are held: pairs of row and thread
          stack,    \* the calls each thread is in, innermost last
          calls,    \* calls that each thread has begun
          result,   \* the last type constructed by each thread
          got,      \* every call that has returned, with the type it returned
          misuse    \* a thread released a row lock that it did not hold

typesvars == <<table, lock, stack, calls, result, got, misuse>>

\* An entry of the table.  args is 0 where there are no generic arguments.
Base(b) == [type |-> b, arrlen |-> 0, arrbase |-> NoTyp, target |-> TargetOf[b], args |-> 0, maintype |-> b]
None == [type |-> NoTyp, arrlen |-> 0, arrbase |-> NoTyp, target |-> NoTyp, args |-> 0, maintype |-> NoTyp]

Chain(r) == IF r \in DOMAIN table THEN table[r] ELSE << >>
Entries == UNION {ToSet(table[r]) : r \in DOMAIN table}

\* A call of a constructor.  x is the length of an array, the arguments of a
\* generic, 0 for a pointer.
CallOn(T) ==
  [fn : {"mktyparr"}, type : T, x : ArrayLen]
    \cup [fn : {"mktypptr"}, type : T, x : {0}]
    \cup [fn : {"mktypfromgenargs"}, type : T, x : GenArgs]

Label == {"wrlock", "find", "make", "target", "link", "publish", "unlock"}

-----------------------------------------------------------------------------
Top(t) == stack[t][Len(stack[t])]
At(t, l) == stack[t] # << >> /\ Top(t).pc = l
Replaced(t, f) == [stack[t] EXCEPT ![Len(stack[t])] = f]
Goto(t, l) == stack' = [stack EXCEPT ![t] = Replaced(t, [Top(t) EXCEPT !.pc = l])]

\* A constructor called with arguments c; p is the padding of what it hashes.
Frame(c, p) == [call |-> c, key |-> Hash(c, p), pc |-> "wrlock", new |-> None, next |-> << >>]

\* Mutant of LockKey: every constructor locks the row of the type it starts from.
MutLockTypeRow(f) == f.call.type

\* The key whose row a constructor locks: mktypptr that of the type it makes, the
\* others that of the type they start from.
LockKey(f) == IF f.call.fn = "mktypptr" THEN f.key ELSE f.call.type
LockRow(f) == RowOf(LockKey(f))

\* get_typeinfo_from_table: the first entry of the row with this key.
Find(k) ==
  LET chain == Chain(RowOf(k))
      hits == {n \in DOMAIN chain : chain[n].type = k}
  IN  IF hits = {} THEN None ELSE chain[CHOOSE n \in hits : \A m \in hits : n <= m]

\* The test that a constructor makes on an entry that it finds under its hash.
Existing(e, c) ==
  CASE c.fn = "mktyparr" -> e.arrlen = c.x /\ e.arrbase = c.type
    [] c.fn = "mktypptr" -> e.target = c.type
    [] c.fn = "mktypfromgenargs" -> e.args = c.x

\* The new entry, from the arguments and the entry te of the type started from.
New(f, te) ==
  CASE f.call.fn = "mktyparr" -> [te EXCEPT !.type = f.key, !.arrlen = f.call.x, !.arrbase = f.call.type]
    [] f.call.fn = "mktypptr" -> [None EXCEPT !.type = f.key, !.target = f.call.type, !.maintype = f.key]
    [] f.call.fn = "mktypfromgenargs" -> [te EXCEPT !.type = f.key, !.args = f.call.x, !.maintype = f.call.type]

\* The innermost call of t returns the type k: to the call of
\* mktypfromgenargs that made it, or to the program.
Return(t, k) ==
  /\ got' = got \cup {[call |-> Top(t).call, type |-> k]}
  /\ IF Len(stack[t]) > 1
     THEN /\ LET caller == Len(stack[t]) - 1
             IN  stack' = [stack EXCEPT ![t] =
                             [Front(stack[t]) EXCEPT ![caller].new.target = k, ![caller].pc = "link"]]
          /\ UNCHANGED result
     ELSE /\ stack' = [stack EXCEPT ![t] = << >>]
          /\ result' = [result EXCEPT ![t] = k]

Unlock(t) ==
  /\ misuse' = (misuse \/ <<LockRow(Top(t)), t>> \notin lock)
  /\ lock' = {h \in lock : h[1] # LockRow(Top(t))}

\* cstrider_type_init.
TypesInit ==
  /\ table = [r \in {RowOf(b) : b \in BaseTyp} |-> SetToSeq({Base(b) : b \in {c \in BaseTyp : RowOf(c) = r}})]
  /\ lock = {}
  /\ stack = [t \in Thread |-> << >>]
  /\ calls = [t \in Thread |-> 0]
  /\ result = [t \in Thread |-> NoTyp]
  /\ got = {}
  /\ misuse = FALSE

\* Generated code or a callback constructs a type, from a generated one or from
\* the one it has just constructed: mktypptr(mktyparr(len, typ)).
call(t) ==
  /\ stack[t] = << >>
  /\ calls[t] < MaxCalls
  /\ \E c \in CallOn(BaseTyp \cup ({result[t]} \ {NoTyp})), p \in Pad :
       stack' = [stack EXCEPT ![t] = <<Frame(c, p)>>]
  /\ calls' = [calls EXCEPT ![t] = @ + 1]
  /\ UNCHANGED <<table, lock, result, got, misuse>>

\* A thread that already holds the row for writing is not made to wait: the lock
\* reports EDEADLK, which the macro ignores.
XHASH_WRLOCK_RESV(t) ==
  /\ At(t, "wrlock")
  /\ \A h \in lock : h[1] = LockRow(Top(t)) => h[2] = t
  /\ lock' = lock \cup {<<LockRow(Top(t)), t>>}
  /\ Goto(t, "find")
  /\ UNCHANGED <<table, calls, result, got, misuse>>

\* The hash is taken.  The row is unlocked before the entry is examined, and stays
\* unlocked when the entry turns out to be another type's.
find_existing(t) ==
  /\ At(t, "find")
  /\ Find(Top(t).key) # None
  /\ Unlock(t)
  /\ IF Existing(Find(Top(t).key), Top(t).call)
     THEN Return(t, Top(t).key)
     ELSE Goto(t, "make") /\ UNCHANGED <<result, got>>
  /\ UNCHANGED <<table, calls>>

\* Mutant of find_none: an existing type is made again.
MutNoCheck(t) ==
  /\ At(t, "find")
  /\ Goto(t, "make")
  /\ UNCHANGED <<table, lock, calls, result, got, misuse>>

\* There is no such type yet.
find_none(t) ==
  /\ At(t, "find")
  /\ Find(Top(t).key) = None
  /\ Goto(t, "make")
  /\ UNCHANGED <<table, lock, calls, result, got, misuse>>

\* The new entry is filled in.  mktypfromgenargs on a pointer type calls itself
\* for the type pointed to, with this call's row locked.  Without an entry for the
\* type it starts from the process exits, and the model stops.
make(t) ==
  LET f == Top(t)
      te == Find(f.call.type)
      filled == [f EXCEPT !.new = New(f, te), !.pc = "link"]
  IN  /\ At(t, "make")
      /\ te # None
      /\ IF f.call.fn = "mktypfromgenargs" /\ te.target # NoTyp
         THEN \E p \in Pad : stack' = [stack EXCEPT ![t] =
                Append(Replaced(t, [filled EXCEPT !.pc = "target"]), Frame([f.call EXCEPT !.type = te.target], p))]
         ELSE stack' = [stack EXCEPT ![t] = Replaced(t, filled)]
      /\ UNCHANGED <<table, lock, calls, result, got, misuse>>

\* XHASH_ADD_TO_BKT: hh_next = hh_head ...
add_link(t) ==
  /\ At(t, "link")
  /\ stack' = [stack EXCEPT ![t] =
                 Replaced(t, [Top(t) EXCEPT !.next = Chain(RowOf(Top(t).key)), !.pc = "publish"])]
  /\ UNCHANGED <<table, lock, calls, result, got, misuse>>

\* ... and hh_head = addhh.
add_publish(t) ==
  LET r == RowOf(Top(t).key)
  IN  /\ At(t, "publish")
      /\ table' = [s \in DOMAIN table \cup {r} |-> IF s = r THEN <<Top(t).new>> \o Top(t).next ELSE table[s]]
      /\ Goto(t, "unlock")
      /\ UNCHANGED <<lock, calls, result, got, misuse>>

XHASH_UNLOCK_RESV(t) ==
  /\ At(t, "unlock")
  /\ Unlock(t)
  /\ Return(t, Top(t).key)
  /\ UNCHANGED <<table, calls>>

ThreadStep(t) ==
  \/ XHASH_WRLOCK_RESV(t) \/ find_existing(t) \/ find_none(t) \/ make(t)
  \/ add_link(t) \/ add_publish(t) \/ XHASH_UNLOCK_RESV(t)

Finished == \A t \in Thread : stack[t] = << >> /\ calls[t] = MaxCalls

TypesNext == (\E t \in Thread : call(t) \/ ThreadStep(t)) \/ (Finished /\ UNCHANGED typesvars)

TypesSpec == TypesInit /\ [][TypesNext]_typesvars

-----------------------------------------------------------------------------
\* Every entry is in the row of its hash, locks are held by threads, and calls are bounded.
TypesTypeOK ==
  /\ \A r \in DOMAIN table : \A e \in ToSet(table[r]) : RowOf(e.type) = r
  /\ \A h \in lock : h[2] \in Thread
  /\ \A t \in Thread : \A n \in DOMAIN stack[t] : stack[t][n].pc \in Label
  /\ calls \in [Thread -> 0 .. MaxCalls]
  /\ misuse \in BOOLEAN

\* What a caller asked for: the header's cstrider_get_num_array_elems "returns
\* number of array elements", and so on.
Describes(e, c) ==
  CASE c.fn = "mktyparr" -> e.arrlen = c.x /\ e.arrbase = c.type
    [] c.fn = "mktypptr" -> e.target = c.type /\ e.arrlen = 0
    [] c.fn = "mktypfromgenargs" -> e.args = c.x /\ e.maintype = c.type

\* The types that calls have made or are making, each with the call.
Frames == UNION {ToSet(stack[t]) : t \in Thread}
Known == {<<f.key, f.call>> : f \in Frames} \cup {<<g.type, g.call>> : g \in got}

\* Two calls were given one hash, or one that of a generated type.  Whoever finds the other's
\* entry under its hash has unlocked the row and goes on to add to it (cstrider_api.c:480).
Collided ==
  \/ \E a, b \in Known : a[1] = b[1] /\ a[2] # b[2]
  \/ \E a \in Known : a[1] \in BaseTyp

\* "the RESV functions make ADD and FIND operations thread-safe" (uthash_xform.h):
\* a type that a constructor has returned is found in the table from then on, and
\* its entry is the one that was asked for, unless hashes have collided: the newer entry
\* then hides the older.
ReturnedTypeFound == Collided \/ \A g \in got : Describes(Find(g.type), g.call)

\* "check for exisiting": under one key there is one entry, however many threads
\* ask for the same type at once.
KeysUnique ==
  \A r \in DOMAIN table : \A m, n \in DOMAIN table[r] :
    table[r][m].type = table[r][n].type => m = n

\* Every lock a constructor takes it gives back, and nobody else's.
LocksBalanced ==
  /\ ~misuse
  /\ \A t \in Thread : stack[t] = << >> => \A h \in lock : h[2] # t

\* The entry of a generated type is never lost, whatever is added to its row, by whom, under
\* which locks and with which hashes, and is found unless a call's hash is the type's index.
GeneratedKept ==
  \A b \in BaseTyp :
    /\ Base(b) \in ToSet(Chain(RowOf(b)))
    /\ (\A a \in Known : a[1] # b) => Find(b) = Base(b)

\* Threads that construct types at once, the same ones or different ones, keep the generated
\* ones (mktypptr, mktyparr, mktypfromgenargs), and as long as no hashes collide leave one entry
\* for each and no lock behind.
ConstructorsSound == TypesTypeOK /\ GeneratedKept /\ (Collided \/ (KeysUnique /\ LocksBalanced))
=============================================================================
