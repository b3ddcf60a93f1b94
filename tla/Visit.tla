-------------------------------- MODULE Visit --------------------------------
(***************************************************************************)
(* The traversal of a heap by visit (src/src/transform.c) and the mapping  *)
(* table that keeps it from entering an object twice (src/src/             *)
(* cstrider_api.c), with the bucket locks of contrib/uthash/               *)
(* uthash_nxform.h.                                                        *)
(*                                                                         *)
(* An object is a struct of pointer fields; the generated traversal code   *)
(* visits them in order, from the object to its counterpart.  The roots    *)
(* are the fields of one more struct, visited by the calling thread.       *)
(*                                                                         *)
(* Tasks are taken from a pool: module WorkQueue shows that the queues     *)
(* implement it.  Primitive fields, which touch nothing shared, are left   *)
(* out.  Of the seed entry of the table, which is its head and is never    *)
(* looked up, only the row matters: it is freed with it.                   *)
(*                                                                         *)
(* The service (perfaction_ptr and how visit is called) is a parameter:    *)
(* it moves some objects to fresh memory and lets the others stay where    *)
(* they are, answers 0, "do not continue", at some, and reads the roots    *)
(* from one struct and writes them to another, or works in place.          *)
(***************************************************************************)
EXTENDS Integers

CONSTANTS NumThreads,          \* NUM_THREADS, the calling thread included
          Object,              \* the addresses of the heap's objects
          NumFields,           \* pointer fields of a struct
          Root, NewRoot,       \* the structs that hold the roots, in and out
          Service,             \* the services to consider
          NumBuckets,          \* rows of the mapping table
          BucketOf,            \* the hash function
          SeedRow,             \* the row of the seed entry
          NULL, Wild           \* the null pointer; uninitialised memory

ASSUME NumThreadsAssumption == NumThreads \in Nat \ {0}
ASSUME NumBucketsAssumption == NumBuckets \in Nat \ {0} /\ NumBuckets % NumThreads = 0
ASSUME NumFieldsAssumption == NumFields \in Nat \ {0}
ASSUME ServiceAssumption ==
  Service \subseteq [moved : SUBSET Object, stop : SUBSET Object, inplace : BOOLEAN]

Thread == 0 .. NumThreads - 1
Main == NumThreads - 1
Bucket == 0 .. NumBuckets - 1
Field == 1 .. NumFields

\* What malloc returns for the new version of o.
Fresh(o) == <<"fresh", o>>

Addr == Object \cup {Fresh(o) : o \in Object}
Struct == Addr \cup {Root, NewRoot}

ASSUME NullAssumption == NULL \notin Struct /\ NULL \notin Thread /\ Wild \notin Addr \cup {NULL}
ASSUME FreshAssumption == \A o \in Object : Fresh(o) \notin Object
ASSUME RootAssumption == Root # NewRoot /\ Root \notin Addr /\ NewRoot \notin Addr
ASSUME BucketAssumption == BucketOf \in [Addr -> Bucket]
ASSUME SeedAssumption == SeedRow \in Bucket

Task == [in : Struct, out : Struct]
NoTask == [in |-> NULL, out |-> NULL]

VARIABLES heap,      \* the heap before the traversal (never changes)
          service,   \* the service (never changes)
          mem,       \* the pointer fields of every struct
          table,     \* the mapping table: NULL where an address has no entry
          lock,      \* holder of each bucket's lock
          queued,    \* the pool of tasks
          task,      \* what each thread works on
          pc,        \* where each thread is in visit
          field,     \* the field it visits
          in_elem,   \* the local of visit
          calls,     \* how often perfaction_ptr was called at each address
          freelater, \* the thread-local tables of transform_delayedfree
          freed,     \* addresses given back with free
          row,       \* i of FREE_ALL_MALLOCED_ENTRIES
          rowfrees   \* how often the entries of each row were freed

given == <<heap, service>>
vars == <<given, mem, table, lock, queued, task, pc, field, in_elem, calls, freelater, freed, row, rowfrees>>

Label == {"idle", "visit", "wrlock", "lookup", "add_mapping", "enqueue", "freeing", "rows", "left", "wild"}

\* The types of the heap, the mapping table with its locks, and the threads' local state.
TypeOK ==
  /\ heap \in [Object \cup {Root} -> [Field -> Object \cup {NULL}]]
  /\ service \in Service
  /\ mem \in [Struct -> [Field -> Addr \cup {NULL, Wild}]]
  /\ table \in [Addr -> Addr \cup {NULL}]
  /\ lock \in [Bucket -> Thread \cup {NULL}]
  /\ queued \subseteq Task
  /\ task \in [Thread -> Task \cup {NoTask}]
  /\ pc \in [Thread -> Label]
  /\ field \in [Thread -> Field]
  /\ in_elem \in [Thread -> Addr \cup {NULL}]
  /\ calls \in [Addr -> Nat]
  /\ freelater \in [Thread -> SUBSET Addr]
  /\ freed \subseteq Addr
  /\ row \in [Thread -> Nat]
  /\ rowfrees \in [Bucket -> Nat]

-----------------------------------------------------------------------------
\* The cell that t visits, read and written.
in(t) == mem[task[t].in][field[t]]
out(t) == mem[task[t].out][field[t]]
SetOut(t, v) == mem' = [mem EXCEPT ![task[t].out][field[t]] = v]

\* Where the service sends a pointer.
Image(a) == IF a \in service.moved THEN Fresh(a) ELSE a

Init ==
  /\ heap \in [Object \cup {Root} -> [Field -> Object \cup {NULL}]]
  /\ service \in Service
  /\ mem = [s \in Struct |-> IF s \in DOMAIN heap THEN heap[s] ELSE [f \in Field |-> Wild]]
  /\ table = [a \in Addr |-> NULL]
  /\ lock = [b \in Bucket |-> NULL]
  /\ queued = {}
  /\ task = [t \in Thread |-> IF t # Main THEN NoTask
                             ELSE [in |-> Root, out |-> IF service.inplace THEN Root ELSE NewRoot]]
  /\ pc = [t \in Thread |-> IF t = Main THEN "visit" ELSE "idle"]
  /\ field = [t \in Thread |-> 1]
  /\ in_elem = [t \in Thread |-> NULL]
  /\ calls = [a \in Addr |-> 0]
  /\ freelater = [t \in Thread |-> {}]
  /\ freed = {}
  /\ row = [t \in Thread |-> 0]
  /\ rowfrees = [b \in Bucket |-> 0]

\* visit returns to the struct's traversal code, which goes to the next field.
NextField(t) ==
  IF field[t] < NumFields
  THEN /\ field' = [field EXCEPT ![t] = @ + 1]
       /\ pc' = [pc EXCEPT ![t] = "visit"]
       /\ UNCHANGED task
  ELSE /\ field' = [field EXCEPT ![t] = 1]
       /\ pc' = [pc EXCEPT ![t] = "idle"]
       /\ task' = [task EXCEPT ![t] = NoTask]

\* Uninitialised memory is not followed: the model ends that thread there.
\* visit reads the pointer, and prepares to lock its row of the table.
visit(t) ==
  /\ pc[t] = "visit"
  /\ in(t) \in Addr
  /\ in_elem' = [in_elem EXCEPT ![t] = in(t)]
  /\ pc' = [pc EXCEPT ![t] = "wrlock"]
  /\ UNCHANGED <<given, mem, table, lock, queued, task, field, calls, freelater, freed, row, rowfrees>>

\* A null pointer: no lock, no mapping; perfaction_ptr copies it and answers 0.
visit_null(t) ==
  /\ pc[t] = "visit"
  /\ in(t) = NULL
  /\ SetOut(t, NULL)
  /\ NextField(t)
  /\ UNCHANGED <<given, table, lock, queued, in_elem, calls, freelater, freed, row, rowfrees>>

\* Mutant of transform_map_wrlock: a read lock, which others can share.
MutRdlock(t) ==
  /\ pc[t] = "wrlock"
  /\ lock' = [lock EXCEPT ![BucketOf[in_elem[t]]] = t]
  /\ pc' = [pc EXCEPT ![t] = "lookup"]
  /\ UNCHANGED <<given, mem, table, queued, task, field, in_elem, calls, freelater, freed, row, rowfrees>>

transform_map_wrlock(t) ==
  /\ pc[t] = "wrlock"
  /\ lock[BucketOf[in_elem[t]]] = NULL
  /\ lock' = [lock EXCEPT ![BucketOf[in_elem[t]]] = t]
  /\ pc' = [pc EXCEPT ![t] = "lookup"]
  /\ UNCHANGED <<given, mem, table, queued, task, field, in_elem, calls, freelater, freed, row, rowfrees>>

transform_map_unlock(t) == lock' = [lock EXCEPT ![BucketOf[in_elem[t]]] = NULL]

\* Mutant of visit_mapped: the answer does not go to out.
MutMappedKeepsOut(t) ==
  /\ pc[t] = "lookup"
  /\ table[in(t)] # NULL
  /\ transform_map_unlock(t)
  /\ NextField(t)
  /\ UNCHANGED <<given, mem, table, queued, in_elem, calls, freelater, freed, row, rowfrees>>

\* Mutant of visit_mapped: an object that was entered before is followed again.
MutMappedFollows(t) ==
  /\ pc[t] = "lookup"
  /\ table[in(t)] # NULL
  /\ SetOut(t, table[in(t)])
  /\ transform_map_unlock(t)
  /\ pc' = [pc EXCEPT ![t] = "enqueue"]
  /\ UNCHANGED <<given, table, queued, task, field, in_elem, calls, freelater, freed, row, rowfrees>>

\* find_mapping has an answer: it goes to out, and this branch ends.
visit_mapped(t) ==
  /\ pc[t] = "lookup"
  /\ table[in(t)] # NULL
  /\ SetOut(t, table[in(t)])
  /\ transform_map_unlock(t)
  /\ NextField(t)
  /\ UNCHANGED <<given, table, queued, in_elem, calls, freelater, freed, row, rowfrees>>

\* find_mapping has none: perfaction_ptr sets out, and may put the old memory on
\* the list of what to free later.
perfaction_ptr(t) ==
  /\ pc[t] = "lookup"
  /\ table[in(t)] = NULL
  /\ calls' = [calls EXCEPT ![in(t)] = @ + 1]
  /\ SetOut(t, Image(in(t)))
  /\ freelater' = [freelater EXCEPT ![t] = IF in(t) \in service.moved THEN @ \cup {in(t)} ELSE @]
  /\ pc' = [pc EXCEPT ![t] = "add_mapping"]
  /\ UNCHANGED <<given, table, lock, queued, task, field, in_elem, freed, row, rowfrees>>

\* add_mapping(*in, *out), both read again, and the unlock.
add_mapping(t) ==
  /\ pc[t] = "add_mapping"
  /\ table' = [table EXCEPT ![in(t)] = IF @ = NULL THEN out(t) ELSE @]
  /\ transform_map_unlock(t)
  /\ IF in_elem[t] \in service.stop
     THEN NextField(t)
     ELSE pc' = [pc EXCEPT ![t] = "enqueue"] /\ UNCHANGED <<task, field>>
  /\ UNCHANGED <<given, mem, queued, in_elem, calls, freelater, freed, row, rowfrees>>

\* visit(*in, ..., *out) of the struct behind the pointer makes a task of it.
addtoqueue(t) ==
  /\ pc[t] = "enqueue"
  /\ queued' = queued \cup {[in |-> in(t), out |-> out(t)]}
  /\ NextField(t)
  /\ UNCHANGED <<given, mem, table, lock, in_elem, calls, freelater, freed, row, rowfrees>>

\* callxformer runs a task: the generated code for the struct, from field 1.
callxformer(t) ==
  /\ pc[t] = "idle"
  /\ \E x \in queued : task' = [task EXCEPT ![t] = x] /\ queued' = queued \ {x}
  /\ pc' = [pc EXCEPT ![t] = "visit"]
  /\ UNCHANGED <<given, mem, table, lock, field, in_elem, calls, freelater, freed, row, rowfrees>>

\* Mutant of allqempty: tasks in flight are forgotten.
MutAllqemptyNoInflight(t) ==
  /\ pc[t] = "idle"
  /\ queued = {}
  /\ pc' = [pc EXCEPT ![t] = "freeing"]
  /\ UNCHANGED <<given, mem, table, lock, queued, task, field, in_elem, calls, freelater, freed, row, rowfrees>>

\* allqempty answers 1: nothing is queued and no thread has a task.
allqempty(t) ==
  /\ pc[t] = "idle"
  /\ queued = {}
  /\ \A u \in Thread : task[u] = NoTask
  /\ pc' = [pc EXCEPT ![t] = "freeing"]
  /\ UNCHANGED <<given, mem, table, lock, queued, task, field, in_elem, calls, freelater, freed, row, rowfrees>>

\* One entry of the thread's own list.
perform_delayedfree(t) ==
  /\ pc[t] = "freeing"
  /\ \E a \in freelater[t] : /\ freed' = freed \cup {a}
                             /\ freelater' = [freelater EXCEPT ![t] = @ \ {a}]
  /\ UNCHANGED <<given, mem, table, lock, queued, task, pc, field, in_elem, calls, row, rowfrees>>

\* The list is empty: on to the thread's share of the table.
perform_delayedfree_end(t) ==
  /\ pc[t] = "freeing"
  /\ freelater[t] = {}
  /\ pc' = [pc EXCEPT ![t] = "rows"]
  /\ row' = [row EXCEPT ![t] = t * (NumBuckets \div NumThreads)]
  /\ UNCHANGED <<given, mem, table, lock, queued, task, field, in_elem, calls, freelater, freed, rowfrees>>

\* The seed entry was freed.  pxform_mappings_head still points to it.
HeadFreed == rowfrees[SeedRow] > 0

\* Mutant of FREE_ALL_MALLOCED_ENTRIES: one row too many.
MutShareOffByOne(t) ==
  /\ pc[t] = "rows"
  /\ IF row[t] <= (NumBuckets \div NumThreads) * (t + 1) /\ row[t] \in Bucket
     THEN /\ rowfrees' = [rowfrees EXCEPT ![row[t]] = @ + 1]
          /\ row' = [row EXCEPT ![t] = @ + 1]
          /\ UNCHANGED pc
     ELSE /\ pc' = [pc EXCEPT ![t] = "left"]
          /\ UNCHANGED <<row, rowfrees>>
  /\ UNCHANGED <<given, mem, table, lock, queued, task, field, in_elem, calls, freelater, freed>>

\* One row of the share; after the last one processqueue returns.  Every turn of the loop
\* and its last test take the address of the table from (head)->hh.tbl.  Once the head is
\* freed the address may be anything, which the model does not follow.
FREE_ALL_MALLOCED_ENTRIES(t) ==
  /\ pc[t] = "rows"
  /\ \/ /\ row[t] < (NumBuckets \div NumThreads) * (t + 1)
        /\ rowfrees' = [rowfrees EXCEPT ![row[t]] = @ + 1]
        /\ row' = [row EXCEPT ![t] = @ + 1]
        /\ UNCHANGED pc
     \/ /\ row[t] >= (NumBuckets \div NumThreads) * (t + 1)
        /\ pc' = [pc EXCEPT ![t] = "left"]
        /\ UNCHANGED <<row, rowfrees>>
     \/ /\ HeadFreed
        /\ pc' = [pc EXCEPT ![t] = "wild"]
        /\ UNCHANGED <<row, rowfrees>>
  /\ UNCHANGED <<given, mem, table, lock, queued, task, field, in_elem, calls, freelater, freed>>

\* What a thread does with the task that it has, and on its way out.
OwnStep(t) ==
  \/ visit(t) \/ visit_null(t) \/ transform_map_wrlock(t) \/ visit_mapped(t)
  \/ perfaction_ptr(t) \/ add_mapping(t) \/ addtoqueue(t)
  \/ perform_delayedfree(t) \/ perform_delayedfree_end(t) \/ FREE_ALL_MALLOCED_ENTRIES(t)

ThreadStep(t) == OwnStep(t) \/ callxformer(t) \/ allqempty(t)

Finished == \A t \in Thread : pc[t] = "left"
Over == \A t \in Thread : pc[t] \in {"left", "wild"}

Next == (\E t \in Thread : ThreadStep(t)) \/ (Over /\ UNCHANGED vars)

Spec == Init /\ [][Next]_vars

\* The scheduler runs a thread that can go on, and a lock that stays free is granted.  When
\* nothing is left to do each thread finds it out (DrainedReturns of WorkQueue).  That a
\* thread comes by a task which is queued is not assumed: others may hold the queue, or be
\* before it, each time it tries.
FairSpec == Spec /\ \A t \in Thread : WF_vars(OwnStep(t)) /\ WF_vars(allqempty(t))

-----------------------------------------------------------------------------
\* No object is entered twice, however many threads meet at it and whichever
\* rows of the table collide.
CalledOnce == \A a \in Addr : calls[a] <= 1

\* "only free old mem once" (the comment on transform_delayedfree): the old memory
\* of an object is put on a list once for every call of perfaction_ptr.
OldMemFreedOnce == \A o \in service.moved : calls[o] <= 1

\* Where a thread uses the mapping table.
InTable == {"wrlock", "lookup", "add_mapping"}

\* The table is taken apart only when nobody will look anything up in it, and
\* old memory is given back, once, only when nobody will read it.  The exception is the
\* seed entry, for the threads in FREE_ALL_MALLOCED_ENTRIES (pc "rows"): they go on to read
\* it as the head of the table after one of them freed it with its row, and go "wild".  The
\* comment on init_parallel_tbls has it that "table destruction won't happen until the end".
NoUseAfterFree ==
  /\ \A t \in Thread : task[t].in \notin freed
  /\ \A x \in queued : x.in \notin freed
  /\ \A t, u \in Thread : freelater[t] \cap (freed \cup IF u = t THEN {} ELSE freelater[u]) = {}
  /\ \A b \in Bucket : rowfrees[b] > 0 => \A t \in Thread : pc[t] \notin InTable

\* "each thread frees an equal share of the shared traversal-related hash map"
\* (the comment in processqueue): no row is in two shares and, if every thread still found
\* the table where it was (none went "wild"), none is left out.
RowsFreedOnce ==
  /\ \A b \in Bucket : rowfrees[b] <= 1
  /\ Finished => \A b \in Bucket : rowfrees[b] = 1

\* The threads' shares of the mapping table are a partition of its rows (FREE_ALL_MALLOCED_ENTRIES),
\* and heap, table, locks and threads stay within their types.  When a row may be freed is
\* said by NoUseAfterFree.
SharesSound == TypeOK /\ RowsFreedOnce

\* The objects that were entered and traversed, and the new version of a struct.
Entered == {o \in Object : calls[o] > 0}
Traversed == (Entered \ service.stop) \cup {Root}
NewVersion(s) == IF s = Root THEN (IF service.inplace THEN Root ELSE NewRoot) ELSE Image(s)

\* What the traversal is for.  Once the first thread leaves, everything that the
\* roots reach without passing an object the service stops at was entered, and the new
\* version of each struct points where the old one did, to new versions: shared
\* pointers are still shared and cycles are still cycles.
HeapCopied ==
  (\E t \in Thread : pc[t] \in {"freeing", "rows", "left", "wild"}) =>
    \A s \in Traversed, f \in Field :
      IF heap[s][f] = NULL
      THEN mem[NewVersion(s)][f] = NULL
      ELSE heap[s][f] \in Entered /\ mem[NewVersion(s)][f] = Image(heap[s][f])

\* The traversal ends: cycles of the heap are not walked for ever, and the bucket
\* locks never leave everyone waiting.  For this the threads must come by what is queued:
\* either there is a task waiting from some time on, always, or all threads are through.
Terminates == []<>(queued = {}) => <>Over
=============================================================================
