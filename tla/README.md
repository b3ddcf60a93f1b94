# c-strider in TLA+

c-strider is a framework for heap traversals in C.  A *service* (profiling,
serialization, dynamic update) supplies four callbacks; a generator reads the
program's types and writes code that visits the fields of every struct; a
run-time system walks the heap from its roots, in one thread or in
`NUM_THREADS`, and calls the callbacks once for each location.  The repository
carries the programs that it is applied to, the largest of which is a redis
server (`examples/redis-2.0.2`).

This directory models the run-time system (`src/src` and the lock-per-row hash
tables under `src/contrib/uthash` that were written for it), the serialization
service, and the redis server with its two file checkers.

## 1. The system

### c-strider

| part | code | state | operations |
|---|---|---|---|
| ring queue | `queue.c`, `queue.h` | `front`, `rear`, `count`, the array `q` | `init_queue`, the critical sections of `enqueue` and `dequeue` |
| work queues, threads, termination detection | `queue.c`, `transform.c` | one queue per thread with its mutex, `inflight`, `thread_started`; `allqdone`, `launched_helpers` | `launch_helpers`, `addtoqueue`, `enqueue`, `dequeue`, `deq_task_finished`, `start_dequeue`, `allqempty`, `processqueue`, `kitsune_helpers_wait` |
| visit and the mapping table | `transform.c`, `cstrider_api.c`, `uthash_nxform.h` | old address -> new address, one rwlock per row; thread-local lists of memory to free | `visit`, `find_mapping`, `add_mapping`, the row locks, `transform_delayedfree`, `FREE_ALL_MALLOCED_ENTRIES` |
| array splitting | `transform.c` | locals | `transform_split_array`, `transform_array` |
| roots and the life of a traversal | `cstrider_api.c` | tables of generated and registered roots | `init`, `register_root`, `deregister_root`, `visit_all`, `finish` |
| type table | `cstrider_api.c`, `uthash_xform.h` | type -> description, one rwlock per row, `expand_lock` | `cstrider_type_init`, `mktypptr`, `mktyparr`, `mktypfromgenargs`, look-ups, the expansion of the table |
| serialization service | `examples/heap_serialize` | the file, the mapping tables of the writing and the reading process | `serial_*`, `deserial_*` |
| symbol table | `cstrider_api.c` | name <-> address | `cstrider_register_key`, look-ups |
| other services | `examples/*` | the callbacks' own | `perfaction_prim`, `_struct`, `_ptr`, `_ptr_mapped` |
| generator | `tools/ocaml-src` | none at run time | prints the traversal code |

`init` fills the type table and the table of roots, resets the queues and starts
the helpers, which look for work at once.  The calling thread then calls
`visit_all`: each root is visited, and every struct that `visit` reaches becomes
a task of some queue.  A thread that takes a task runs the generated code for the
struct, which visits each field.  `visit` on a pointer locks the pointer's row of
the mapping table, and either finds that the object has been seen
(`perfaction_ptr_mapped`) or calls `perfaction_ptr`, adds the mapping, unlocks,
and visits what the pointer points to.  Generated code may construct types (arrays
of a length known at run time, instances of generics) while other threads look
types up and while the table of types grows.  `finish` makes the calling thread a
worker too.  A worker whose `dequeue` came back empty asks `allqempty`; when that
answers 1 it leaves, frees its own list of old memory and its share of the mapping
table, and is joined.

*What is hard.*  All of it is concurrent and mostly without a global lock: queue
lengths are read without locks, `inflight` is written under another queue's mutex,
the end of the traversal has to be detected while tasks make tasks, memory is freed
by each thread as soon as *it* knows that the traversal is over, and rows of tables
are locked one at a time.  A failed assertion ends the process.

*What makes it correct.*  The ring is a bounded FIFO.  The engine runs every task
exactly once, nobody leaves before the last one has run, and everybody leaves then.
`visit` enters each object once and leaves a heap of the same shape.  Nothing is
freed twice or while it can still be read (the head of the mapping table is, section
5).  A split array is visited element by element, once.  Each traversal visits the
roots registered at the time, once.  A
constructed type is found afterwards and is what was asked for, however the table
has grown.  A heap that is written and read back is the same heap.

### redis

| part | code | state | operations |
|---|---|---|---|
| hash table | `dict.c` | two tables, `rehashidx`, `iterators` | add, replace, delete, find, random key, iterate, expand, rehash by steps, resize policy |
| sorted sets | `redis.c` | skip list with spans, and a hash table | the `zsl*` functions and the `Z*` commands |
| zipmap | `zipmap.c` | one block of bytes | set, delete, get, length, iterate |
| event loop | `ae.c`, `ae_epoll.c` | registered and fired events, timers, what the kernel watches | poll, dispatch, handlers of `redis.c`, `processTimeEvents` |
| commands on the dataset | `redis.c` | keys, times to live, `dirty` | the commands that write, expiry, propagation |
| clients | `redis.c`, `adlist.c` | clients, blocked clients, transactions, subscriptions | blocking pops, `MULTI`/`EXEC`, publish and subscribe, timeouts, `freeClient` |
| connections | `redis.c` | input and output buffers | cutting requests, gluing and sending replies |
| persistence, master | `redis.c` | dump, append-only file and their children, slaves | `SAVE`, `BGSAVE`, `BGREWRITEAOF`, `FLUSH*`, `SYNC`, `serverCron`, crashes |
| slave | `redis.c` | the link, `replstate`, the dump | `syncWithMaster`, `SLAVEOF`, the stream of commands |
| dump file, checker | `redis.c`, `redis-check-dump.c` | bytes | save, load, check |
| append-only file, checker | `redis.c`, `redis-check-aof.c` | text | load, check, cut |
| virtual memory | `redis.c` | pages, jobs, I/O threads, blocked clients | swap out and in, cancel, wait for the threads, fork |

One thread runs the event loop: it flushes the append-only file, polls, hands what
arrived to the handlers, which cut it into commands and run them, and runs
`serverCron` ten times a second.  A command changes the dataset, counts that in
`dirty`, and is then appended to the file and sent to the slaves.  Children that
save, or rewrite the file, are forked with a copy of the dataset.  With virtual
memory enabled I/O threads move values between memory and a swap file.

*What is hard.*  Little runs in parallel, but much is unfinished between two
events: buckets that are moved while iterators are open; clients that block and
whose next commands then run inside another client's command; children that end,
fail or are killed while commands are served; slaves in five states; jobs that are
cancelled while a thread carries them out; files that a crash has cut anywhere;
requests and replies that are cut anywhere; keys that expire at different moments
at a master and at its slave.

*What makes it correct.*  The structures behave as a map, a sorted set and a hash.
A command has the same effect at the master, at the slave, and when the file is
loaded.  Every blocked client is served in its turn.  The files rebuild the
dataset, or are refused.  A slave ends with the dataset of its master.  Virtual
memory does not show.

## 2. Modules

| module | what it is |
|---|---|
| `RingQueue`, `FifoQueue` | the critical sections of one queue, and its abstract specification |
| `WorkQueue`, `TaskPool` | the engine, and its abstract specification |
| `Visit` | the traversal of a heap over the mapping table, on a pool of tasks |
| `TypeTable`, `UtHash` | constructors of types over row locks; the growing hash table under them |
| `ArraySplit`, `Roots` | `transform_split_array`; the tables of roots and `init`/`visit_all`/`finish` |
| `Serialize` | a heap written and read back by the serialization service |
| `Dict`, `DictMap` | the hash table of redis, and the map that it implements |
| `SkipList`, `ZipMap` | sorted sets and packed hashes |
| `Events` | the event loop |
| `Keyspace` | the commands, at a master and at its slave |
| `Clients` | blocking, transactions, subscriptions |
| `Persist`, `Replica` | files, children and slaves as the master sees them; the slave |
| `Rdb`, `CheckDump` | the dump file and `redis-check-dump` |
| `Protocol`, `Wire`, `AofFile` | the text of commands; connections; the append-only file and `redis-check-aof` |
| `Vm` | virtual memory |
| `*_proofs` | theorems and proofs |
| `MC*` | instances for TLC |

Actions have the names of the functions they model; where a function is several
actions, the suffix says which part (`allqempty_scan`, `allqempty_lock`, ...).
Definitions whose names begin with `Mut` are deliberate bugs, one for each property,
that show what the property would catch.  `PROJECT.json` maps every other
definition to the lines it models.

`RingQueue` implements `FifoQueue`, which justifies that `WorkQueue` represents a
queue by the sequence of its tasks.  `WorkQueue` implements `TaskPool`, which
justifies that `Visit` takes tasks from a set and that its `allqempty` is one step.
`Dict` implements `DictMap`, which is what `Keyspace` and `Vm` take a database for.
`CheckDump` extends `Rdb`: the checker reads what the server wrote.

Four MC modules (`MCServices`, `MCStructures`, `MCReplication`, `MCFormats`) hold
several components in one model: a variable `part` is chosen in the initial state
and says which of them the behaviour is about.  The components do not interact in
these models; each has its own variables, its own next-state relation and its own
properties, and the reachable states are the union of theirs.

A module `<component>_proofs` EXTENDS the component's module and holds nothing but
definitions for invariants, lemmas and theorems (section 4).  `Parallel_proofs` is about
three small components of c-strider, `RingQueue`, `ArraySplit` and `Roots`, and
`Structures_proofs` about two of redis, `Dict` and `Events`.  `Replication_proofs` is about
`Keyspace` and `Replica`, the commands that a master sends on and the way of a slave to its
dataset.

### c-strider

**WorkQueue.**  Thread `t` owns queue `t`; the last thread is the caller's.  A
lock, a trylock, each read of an unlocked loop (`lowest`, `highest`, the first
loop of `allqempty`) and each critical section with its unlock are one step.
Tasks are names; which tasks a task enqueues, how many roots there are and when
they come is left open.  The program may make several traversals, serial or
parallel.  `assert(0)` on a full queue sets `aborted`, which stops everything.
`stale` is not a variable of the code: it remembers whether `allqdone` was set
when the traversal began.

**Visit.**  Objects are structs of `NumFields` pointers; `Init` ranges over *all*
heaps, cyclic and shared ones included.  The service is a parameter: which objects
it moves to fresh memory, at which it answers "do not follow", whether it works in
place (`in` = `out`, as `visit_all` does for registered roots).  `visit` saves the
pointer in `in_elem`, but looks it up, maps it and follows it by reading `*in`
again, as the code does.  The names of objects, of fresh memory and of the two roots
are different; that is all that is assumed of them.  Rows of the table are locks and counters of how often
their entries were freed; the hash function is a parameter.  A null pointer takes
no lock and gets no mapping, and the callback copies it.  Reading uninitialised
memory as a pointer is undefined: the model stops that thread there.  The head of the
table is its seed entry, which is in some row (`SeedRow`) and is freed with it by the
thread whose share that is; every turn of `FREE_ALL_MALLOCED_ENTRIES` reads the table's
address through the head.  A thread that reads a freed head goes on as before or, if the
memory has been overwritten, to the label "wild", where the model leaves it.

**TypeTable, UtHash.**  In `TypeTable` a row is a chain and adding to it is two
steps, because `XHASH_ADD_TO_BKT` reads `hh_head` and writes it later; threads have
stacks of calls, the innermost last, because `mktypfromgenargs` calls itself; the hash functions and the padding
bytes that they read uninitialised are parameters.  `UtHash` is the table below,
for users that lock the row of the key they add: both locks, the comparison of the
row's length after their release, and the expansion, which frees the array of rows.
`UtHash` is about keys with
different hashes; `TypeTable` lets hashes collide, with one another and with a generated
type.  A row of `UtHash` is how many entries each key has in it; their order, which no operation of these
users looks at, is left out.  What is read from a freed array can be anything.

**ArraySplit** leaves out the element size, a common factor of all offsets.
**Roots** has hash tables that add without looking, as sequences of their keys; the
generated roots are an array without repetitions (`visitalls`); the
program may write its variables between calls, which matters because
`register_root` looks up their contents, and they may hold the addresses of registered
ones.  Nothing is asked of the program: it may call `init` twice and register a cell
twice.  `inits`, `wanted`, `dropped` and `twice` are not variables of the code: they
remember what the program has called and what the look-up of `register_root` made of it.

**Serialize.**  One thread.  The file is a sequence of tokens and has no structure
but the order of the visits.  The reader visits each cell in place, so that what
`malloc` left in the cell is looked up in the mapping table before it is
overwritten: with an address of the old process there, `deserial_ptr_mapped` stops
the process.  `RoundTrip` says that it stops there for no other reason.

### redis

**Dict** keeps both tables, `rehashidx` and the count of iterators; every operation
that moves a bucket on its way does so in the model.  **SkipList** has forward
pointers, spans and backward pointers, and the hash table beside them; the level of
a new node is any.  **ZipMap** has the cells of the block; lengths take one cell or
`INTBYTES` more from `ZIPMAP_BIGLEN` on, which is 254 in the code and small here.
**Events** has a handler's outcomes (close this client, close another, accept,
block, write, create a timer) and leaves out their reasons.

**Keyspace.**  A command is a function from a server to a server.  Time is left
out: a volatile key may be past its time at any moment and at another one at the
slave.  A command is sent to the slave when it leaves `dirty` larger than it was; `FLUSHALL`
begins with changes that are not saved, and ends with its save done or failed, so that it
may leave `dirty` as it was.  `exact` becomes false after the few commands that do not have
the same effect at both; `outlived` remembers the keys whose value the last command replaced
and whose time to live it left.  **Clients.**  A stack holds the calls that are under way, because serving
a blocked client runs its next commands inside the command that pushed the element.
Behaviour that is undefined in C ends the model's behaviour.

**Persist.**  A dataset counts the changes of each database; a file is what becomes
of the commands in it.  `met` remembers which of eight situations (below) a
behaviour has met; the properties except them, and a behaviour that has met one is
followed no further.  **Replica.**  Every step of
`syncWithMaster` can fail, the link can break, the process can crash.  A `write` to the
dump file that is cut short is no failure to the code: what is loaded then is `Short`,
or the slave ends over the file (`exited`), and again at each start.

**Rdb** writes and reads bytes of `W` bits, so that each width of a length, an
integer and a time is crossed by small numbers.  Compression is external: some
strings come out shorter.  **Protocol**, **Wire** and **AofFile** have one cell for
a character or a number, and cut between any two.

**Vm.**  Lock, job lists, pipe and threads as in the code.  Where the main thread
spins until a thread is done, its action waits.  `met` remembers four situations
(below), after which the behaviour is followed no further.

## 3. Runs

| run | instance | checks |
|---|---|---|
| `engine` | 3 threads, capacity 1, 2 tasks, 2 traversals of either mode | `TypeOK`, `LeaveOnlyWhenDone`, `ExactlyOnce`, `OverflowNeedsQueueSizeTasks` |
| `engine_pool` | 3 threads, capacity 2, 2 tasks, 1 traversal | `ImplementsTaskPool`, `DrainedReturns` |
| `visit` | 2 threads, all heaps of 2 objects with 2 fields, 2 rows of which one has a collision, 6 services | `CalledOnce`, `NoUseAfterFree`, `HeapCopied`, `SharesSound`, `Terminates` |
| `services` | ring of 3; arrays of 0 to 40 elements in 4 pieces; 2 generated roots and 2 variables to register, 3 entries of each table; 2 threads with 2 type constructions each; 2 threads with 3 uses of a table that grows from 1 row; heaps of an array, two structs and a string | `ImplementsFifo`, `IndicesAgree`, `PiecesApart`, `AllVisited`, `RootsSound`, `ReturnedTypeFound`, `ConstructorsSound`, `TableSound`, `RoundTrip` |
| `structures` | 3 keys in tables of 1 to 8 buckets; 3 elements on 3 levels; 3 fields with values on both sides of the limits; 2 client sockets and 2 timers | `ImplementsMap`, `IterationComplete`, `DictSound`, `SortedSetSound`, `ZipmapSound`, `EventLoopSound` |
| `replication` | 3 keys in 2 databases, every type; a slave with 3 commands and 3 faults | `SameDataset`, `KeyspaceSound`, `ReplicaSound`, `CatchesUp` |
| `clients` | 3 clients with any of 6 programs, 2 keys | `WaitersSound`, `DeliveredOnce`, `ServedInOrder` |
| `persist` | 2 databases, 2 slaves, 4 commands, 1 crash | `FilesSound`, `SlavesSound` |
| `formats` | datasets with every type and width, files cut at every byte; logs with and without transactions, cut anywhere; 2 or 3 requests in any pieces; 2 keys, 2 clients and 2 I/O threads over 3 pages | `DumpReadersSound`, `AofSound`, `ConnectionSound`, `VmTransparent`, `JobsSound` |

The properties whose names end in `Sound`, and a few others, are conjunctions.
Their parts are definitions of their own, each with its comment:

| property | parts (most also contain the type invariant of their component) |
|---|---|
| `SharesSound` | `RowsFreedOnce` |
| `RootsSound` | `GlobalsOnce`, `RegisteredVisited`, `DeregisteredNotVisited` |
| `ConstructorsSound` | `KeysUnique`, `LocksBalanced` |
| `TableSound` | `EntriesKept`, `RowStaysLocked`, `BackToBackBounded` |
| `RoundTrip` | `InStep`, `SameHeap` |
| `DictSound` | `WellPlaced`, `MovedBehind` |
| `SortedSetSound` | `TwoViewsAgree`, `RanksRight`, `QueriesRight` |
| `ZipmapSound` | `BlockHolds`, `LengthRight`, `FreeBounded` |
| `EventLoopSound` | `EventsAgree`, `SleepsInTime` |
| `KeyspaceSound` | `NoEmptyAggregates`, `ExpiresExist`, `ZipmapSmall`, `TrimIsRange` |
| `ReplicaSound` | `ConnectedIsCurrent`, `OnlyVersions` |
| `WaitersSound`, `DeliveredOnce` | `BlockedBothWays`, `NobodyStarves`; `Conserved`, `MessagesToSubscribers`, `PropagatedWhole` |
| `FilesSound`, `SlavesSound` | `AofRebuildsUnlessMet`, `UnsavedIsDirty`; `SlaveWillMatch`, `WaitersHaveChild` |
| `DumpReadersSound` | `LoadedIsSaved`, `PartRefused`, `CheckerAgrees` |
| `AofSound` | `StartsWithWholeCommands`, `CheckedFileLoads`, `NothingMoreIsCut` |
| `ConnectionSound` | `CommandsAsSent`, `RepliesInOrder` |
| `VmTransparent`, `JobsSound` | `DatasetKept`, `ChildSavesDataset`; `PagesAccounted`, `OneJobPerKey`, `WaitersWillBeServed`, `BytesMatchJobs` |

Runs that show where the code and
what is written about it disagree:

| run | shows |
|---|---|
| `engine_again` | `allqdone` is never cleared; in the second parallel traversal of a process `allqempty` answers 1 while a task is queued |
| `visit_inplace` | in place, a service that moves an object makes `visit` map the *new* address: the object is entered again and its memory is freed twice |
| `types_race` | `mktyparr` locks the row of the element type and adds to the row of the array type; an entry is lost |

**Why the bounds are enough.**

- *engine*: with three threads one can be in `allqempty` holding some of the locks
  while another enqueues and a third finishes; with two tasks one can be made by the
  other, so that every queue is empty while a task is in flight; capacity 1 makes
  overflow, and busy queues that push `enqueue` to a full one, reachable.
- *visit*: two objects with two fields give self-loops, a two-cycle, sharing,
  unreachable objects and null fields; two threads meet at one object, and one row
  serves two objects.  The seed entry is in the share of the first thread, so that the
  second can come to the head before and after it is freed.
- *services*: lengths around the multiples of `SPLIT`, and the proofs cover the
  rest; two threads ask for the same type, for types in one row, and for a generic
  of a pointer type, which takes two locks; one constructed type has the hash of another
  and one that of a generated type; the growing table doubles three times
  and passes the number of its locks and its limit; the heap has cycles, shared
  structs and strings, symbols and null pointers, and fresh memory holds null, an address
  of the old process, or something else.  Two variables can hold their own address, each
  other's or neither, and three entries are two of one variable and one of the other.
- *structures*: keys that share a bucket before a doubling and not after it, two
  doublings behind one another, shrinking in between, an iterator open over any of
  it; skip list nodes of each height in each order; zipmap values that grow, shrink
  and cross the width of a length, and more entries than the count can say; a closed
  socket's number that is given to the next client while its event waits.
- *replication*: two keys of one database and one of another are enough for every
  command that names two keys, `MOVE` and `FLUSHDB`; strings of two characters and
  aggregates of two elements reach every conversion and every emptying.  At most one key
  holds a hash, as no command is about two.  One unsaved change before a `FLUSHALL`
  (`MaxChanges`) is enough for a `dirty` that comes out as it was, and none for one that does
  not; whether it comes out larger or smaller makes no difference to `call`.
- *clients*: the programs were chosen so that one client blocks on keys that are
  repeated, another has commands behind its blocking pop, one pushes inside a
  transaction, and the third pushes.
- *persist*: four commands put one before a fork, one between the fork and the end
  of the child, one in the same turn as the end, and one after it.
- *formats*: numbers and lengths at both ends of each form; a pipe of one byte makes
  threads wait for the main thread.

The bounds are constants of their modules and are commented as such (`MaxTraversals`,
`MaxCalls`, `MaxCount`, `MaxEntries`, `MaxUses`, `MaxFd`,
`MaxClients`, `MaxTimers`, `MaxLate`, `MaxText`, `MaxElems`, `MaxVolatile`,
`MaxKeys`, `MaxChanges`, `MaxCommands`, `MaxFaults`, `MaxBuf`, `MaxPushed`, `MaxOps`, `MaxCrash`,
`MaxEvents`).  Widths and limits of the code that are scaled down keep their names
(`ZIPMAP_BIGLEN`, `REDIS_MAX_WRITE_PER_EVENT`, ...).

Symmetry is used for threads, tasks, clients, slaves and values, which no definition
tells apart, and in no run with a liveness property.

**Assumptions of the runs.**  In `services` constructed types that share a row are
made under one lock, and the rows of pointer types and of their targets are not
locked in a circle; `types_race` drops the first.  In `types_race` hashes do not
collide.  Every run but
`visit_inplace` checks for deadlock, apart from the states where a program ends: a
failed assertion, a heap that has been read, a file that has been checked, a
connection that is closed.

**Fairness.**  *WorkQueue*: each thread's steps are weakly fair, since the
pthreads scheduler runs every thread.  Blocking locks (`pthread_mutex_lock`,
`pthread_rwlock_wrlock`) are strongly fair: a lock that is free again and again is
granted in the end, which glibc gives in practice under a preemptive scheduler.
`pthread_join` is weakly fair.  Nothing is assumed of trylocks, of when the program
enqueues roots, or of when it calls `finish`.  For this reason `DrainedReturns` says
only that a traversal *with no task left* is over in the end.  That a queued task is
taken in the end is not guaranteed by the code: threads that alternate between
`dequeue`, whose trylock fails because another thread is in `allqempty`, and
`allqempty` itself can keep each other from it.  *Visit*: what a thread does with a task
that it has is weakly fair, and so is that a thread finds out that nothing is left
(`allqempty`), which is `DrainedReturns` of the engine.  That a thread comes by a queued task
is *not* fair, for the reason just given; `Terminates` therefore begins with "if the queue
is empty again and again": whoever works comes to an end, waits for no lock for ever,
and cycles are not walked for ever.  Locks of rows need weak fairness only: a thread
asks for one at a time and holds it for one visit, and since objects are entered once there
are finitely many visits, after which a lock that somebody waits for stays free.  *Replica*: the steps of a
synchronization and of the stream are weakly fair, because `serverCron` runs ten
times a second and tries again, and because the master answers a `SYNC`; faults are
not fair, and `MaxFaults` bounds them: "when failures end".

## 4. Theorems

| theorem | says, for every value of the constants |
|---|---|
| `Parallel_proofs!IndicesAlwaysAgree` | `rear`, `front` and `count` agree modulo `QUEUESIZE` |
| `Parallel_proofs!RingImplementsFifo` | the ring implements `FifoQueue` |
| `WorkQueue_proofs!TypeCorrect` | types, and every index into the array of queues |
| `WorkQueue_proofs!LeavingIsSafe` | no thread leaves `processqueue` before all tasks have run, in a traversal that began with `allqdone` clear |
| `WorkQueue_proofs!TasksRunOnce` | no task runs twice, is in two places or is lost |
| `WorkQueue_proofs!OverflowIsExplained` | the assertion on a full queue fails only when `QUEUESIZE` other tasks are waiting |
| `WorkQueue_proofs!EngineIsTaskPool` | the engine implements `TaskPool` in every behaviour with `[]~stale` |
| `WorkQueue_proofs!OneTraversalIsTaskPool` | and, for programs that make one traversal, in every behaviour |
| `Parallel_proofs!PiecesStayApart`, `EverythingVisited` | the pieces are a partition of the array |
| `Visit_proofs!EnteredOnce` | one call of `perfaction_ptr` for an object |
| `Visit_proofs!NothingReadAfterFree` | nobody reads old memory that has been freed, or looks anything up in a table that is being taken apart; the head of the table, read while it is taken apart, is excepted |
| `Visit_proofs!TraversalCopies` | the new heap is the image of the old one, field by field |
| `Visit_proofs!TableFreedOnce` | no row of the mapping table is freed twice, and none is left out if the freed head led no thread astray |
| `Visit_proofs!TraversalSound` | the four together, with a hypothesis on the services alone |
| `Parallel_proofs!RootsVisitedOnce` | `RootsSound`, for any program: a generated root is visited once for each `init`, a registered one once, and no other, with the exceptions that `register_root` makes |
| `Types_proofs!GeneratedTypesStay` | the generated types are never lost from the table, under any additions and hashes |
| `Types_proofs!ConstructedTypesStay` | `ReturnedTypeFound`: a type that was returned is in the table and is the one asked for, unless hashes have collided |
| `Types_proofs!TypeTableSound` | `ConstructorsSound`: until hashes collide, one entry for each type and no lock left behind |
| `Types_proofs!TableStaysSound` | `TableSound`: entries, locks and the bound on the rows |
| `Structures_proofs!DictAlwaysSound` | `DictSound`: every entry of the redis hash table is where a search looks for it, once, at any moment of a rehashing |
| `Structures_proofs!DictImplementsMap` | the two tables with their rehashing implement `DictMap` |
| `Structures_proofs!IterationAlwaysComplete` | an iterator that has come to its end has returned what was there all along, each key once |
| `Structures_proofs!LoopSound` | `EventLoopSound`: what the kernel watches is what the loop has registered for the clients there are now, and the loop sleeps no longer than its timers allow |
| `Clients_proofs!WaitersAlwaysSound` | `WaitersSound`: the lists of the keys and of the waiting clients agree, and nobody waits for a list that has elements and that no `RENAME` made |
| `Clients_proofs!DeliveredAlwaysOnce` | `DeliveredOnce`: between two events an element is in one list or was given away once, a message goes once to each subscription, and slaves are outside a transaction |
| `Clients_proofs!AlwaysServedInOrder` | `ServedInOrder`: nobody is served while another waits longer for all of its keys |
| `Replication_proofs!DatasetAlwaysSame` | `SameDataset`: after any commands a master and its slave have the same at every key, but for keys that one of them has found past their time; the commands that `exact` names are outside, `FLUSHALL` among them |
| `Replication_proofs!KeyspaceAlwaysSound` | `KeyspaceSound`: no aggregate is empty, no time to live is left behind but by `SORT ... STORE`, zipmaps are small, and `LTRIM` keeps what `LRANGE` returns |
| `Replication_proofs!SlaveFollowsMaster` | `ReplicaSound`: a slave shows a version of the master's dataset, and the current one but for what is on its way, or what a short write has left of the dump |
| `Persist_proofs!FilesRebuild` | `FilesSound`: the append-only file rebuilds the dataset, and what the dump lacks is counted, or a situation of `met` was met |
| `Persist_proofs!SlavesEndWithDataset` | `SlavesSound`: a slave's dump and buffer make the dataset, and a slave that waits waits for a child, or a situation of `met` was met |

**Assumptions on the constants** are those that the modules state.  There is at least
one thread, a queue has at least one slot, null is no task and no address; the names of
objects, fresh memory and roots are different; the array of generated roots has no
repetitions; the generated types, the users and the keys of the hash table are finitely
many; so are the databases of redis, numbers among which is 0, and "no child" is none of
the children; the sizes of the hash table are as in the macros, a limit that is twice the
initial size times a power of two.  For the hash table of redis: the first size is at
least 1, hash values are naturals, and null is no key and no value; nothing is assumed of
`dict_force_resize_ratio` and `REDIS_HT_MINFILL`, of which the proofs use nothing.  For the
event loop: the numbers of sockets, clients and timers are naturals, and a second has at
least a millisecond.  For the clients of redis: they are finitely many, the bounds are
naturals, and programs are sequences of commands whose arguments are keys, channels and
patterns (`WellFormed`), which is what the arity and the arguments that a command needs
have been checked for when it runs; what the programs are is left open.  For the commands
on the dataset: keys are finitely many pairs, strings are not empty, and the limit of a
zipmap is a natural number.

**Hypotheses of theorems** are written out in them, and each is a condition under which
the code is used.

- `[]~stale` (`EngineIsTaskPool`): no traversal begins with `allqdone` set.  Nothing in
  the code clears the flag; `engine_again` is a behaviour without the hypothesis.
- `Disciplined`, of the first state (`Visit`): a struct that is traversed in place points to no
  object that the service moves.  `TraversalSound` derives it from the service: one that
  moves nothing, or everything and not in place.  `visit_inplace` is a behaviour
  without it.
- `Plain` (`ConstructedTypesStay`, `TypeTableSound`): the program gives no arguments to
  generics, and it traverses with one thread or its threads construct pointer types only.
  This is a condition on the program, which its source shows; any hash function and any
  rows are allowed.  Without it `mktyparr` and `mktypfromgenargs` lock one row and change
  another, and the property is not true: `types_race` is a behaviour of two threads that
  construct arrays.  `services` checks both properties for arrays and generics, too, where
  types that share a row are made under one lock.  `GeneratedTypesStay` and
  `RootsVisitedOnce` do not need a condition on the program.
- `Closed` (`TypeTable`): what is hashed from types is a type, and no hash is -1.

**The arguments.**

*LeavingIsSafe.*  `LeaveOnlyWhenDone` is not inductive: why a thread may leave
depends on what the flag means, and what the flag means depends on the counters
and the locks.  The inductive invariant `IInv` has these parts.  `RangeInv`:
loop indices are those of queues in use.  `ControlInv`: who takes part.
`MutexInv`: a thread in a critical section holds its mutex, and one inside
`allqempty` holds the mutexes below (or from) its loop index.  `TaskInv`: where
threads have tasks in hand.  `InflightInv`: a home queue's `inflight` is 1
exactly while its thread has a task; this is why counting at *home*, under
another queue's lock, is sound.  `StartedInv`: the calling thread's queue is not
marked started while roots may come.  `QuietInv`: in such a traversal the flag
means that every queue is empty, and no thread has or enqueues a task.  `ExitInv`:
a thread that leaves has seen the flag, or is the only one and its queue is
empty.  `NotLost` and `OnlyMade`: unfinished tasks are in a queue or in a hand.
The step that sets the flag holds every mutex, so that with `MutexInv` nobody is
in a critical section, with `InflightInv` nobody has a task, and with
`StartedInv` the roots are finished.  There is one lemma per part, with one case
per action.

*TasksRunOnce, OverflowIsExplained.*  `IInv` says where a task can be, not that it is
there once.  `OnceInv` adds that: `HandsInv` (two hands hold different tasks),
`QueuedInv` (no task is twice in the queues, nor in a queue and a hand) and
`FinishedInv`.  A full queue is then `QUEUESIZE` different tasks.

*EngineIsTaskPool.*  The refinement maps `running` to the tasks in hands that are not
reported yet, `left` to the threads that have exited, `phase` to where the calling
thread is.  Steps that only look, lock or unlock stutter.  The step that matters is a
thread's exit, which the pool allows when all tasks have run: this is `LeavingIsSafe`
again.

*RingImplementsFifo.*  The refinement maps the abstract queue to the `count`
slots from `front`; the invariant is that `rear` is `front + count - 1` modulo
the size.

*Partition.*  Carried along the loop: the pieces made so far end at `i * share`
and cover everything below.

*Visit.*  `VInv`.  `CallsInv`: an object has been passed to `perfaction_ptr` when it has
an entry, or when a thread is between the call and `add_mapping`; since that thread
holds the row (`LockInv`), nobody else is there for the same object.  `MemInv` and
`OutInv`: the traversal writes the new heap only, so that what it reads again from `*in`
is what it read before; this is where `Disciplined` is needed.  `EnterInv`: the object
of an entry is queued, being traversed or done.  `CellsInv`: a field of the new heap has
its final value once it has been passed.  `FreeInv` and `QuietInv`: memory is on one
list, and lists are freed when nobody works any more.  `RowsInv`: the shares of the
threads are disjoint and cover the table, which needs `NumBuckets % NumThreads = 0`.

*RootsVisitedOnce.*  `TablesInv` counts: a generated root occurs in its table `inits` times, and
a cell in the table of registered roots once if it is registered and was not dropped, and
else never, unless it was added twice; and a registered cell that was not dropped occurs in
any case.  Lemmas say what appending, removing and concatenating do to the number of
occurrences.

*GeneratedTypesStay.*  `RowOK` says of each chain that the generated types of its row are in
it, and that all other entries are under hashes that calls were given; `CallOK` says
the same of the chain that a call has read as `hh_next`.  Two additions to one row undo each
other, but whichever of the two chains is written, the generated types are in it.

*ConstructedTypesStay.*  `LockInv`: a row is locked by a thread exactly when one of its
calls is past its lock, and by one thread only; with `Plain`, no call runs inside another
and calls that are to change one row lock one row (`PlainApart`), so that two calls past
their locks change different rows (`Exclusive`).  `FrameInv` says what follows for a call: the
chain that it has read as `hh_next` is still the chain when it writes `hh_head`, and the
type that it did not find is not added by another.  `TableInv`: an entry is what some
call made of its arguments.  The branch that unlocks the row of an existing type and
goes on (`cstrider_api.c:480`) is taken only by calls that have collided (`Collided`,
which stays true), and the invariant is kept until then.

*TableStaysSound.*  `LockInv` ties the row that a thread has computed to the number of
rows: it holds `expand_lock`, so the number cannot change until it has unlocked.
`KeysInv`: a key that a thread is adding has no entry in its row, which the thread has
locked.  An expansion moves every entry to the half of its row where `hashv` belongs
modulo the doubled size (`HomeSplits`).  `BoundInv`: the number of rows, doubled once
for each thread that has passed the comparison with the limit, is within the bound.  That a recursively defined power of two
exists, and grows, is proved by well-founded induction (`SetInduction`, `Recursion`).

*DictAlwaysSound, DictImplementsMap.*  `DictSound` speaks of counts and places, and is not
inductive: that moving a chain keeps it needs that no chain of a table repeats a key, that
the tables share none, and that the next chain that is not empty exists.  `HtOK` says what
a sound table is, `used` being the number of its entries' places (`Slots`); `DictOK` adds
how the two tables and `rehashidx` go together.  Each helper of the model has a lemma that says what it
returns on a sound dict: `Insert`, `Unlink` and `SetVal` what becomes of the keys and the
entries, `RehashBucket`, `dictRehash` and `dictExpand` that the entries of both tables
together (`Content`) stay (`Kept`).  Moving a bucket is a recursive function of the number
of entries moved so far, and each such function is unfolded once, by induction over a set of
numbers.  A step of `Dict` then does to `Content` nothing, adds the entry of its key, or
takes it away, which is a step of `DictMap`; the same lemmas serve both theorems.  `IterInv`
says when the iterator is counted in `iterators`.

*IterationAlwaysComplete.*  While an iterator is counted, no bucket moves, but tables still
change: chains get new heads, entries are deleted, and a second table may come.  `SeenInv`
says of every key that has stayed: it has been returned once if the iterator is past it
(`Passed`), and not yet otherwise; and `nextEntry`, which the iterator saved before the
caller could delete the entry it was given, is still in its chain (`NextIn`).  `SameFor`
says that a change leaves the order of the keys that matter as it was, in each chain; every
call leaves it so for the keys that stay and `nextEntry`.  The model lets the caller delete
while it iterates only the entry that it was given last, which is what `dict.c` provides for
(`dictNext`: "We need to save the 'next' here, the iterator user may delete the entry we are
returning").

*LoopSound.*  `EvOK`: `maxfd`, what epoll holds and the clients in `clientData` agree with
`events`, and the listening socket is watched for reading alone.  `Readers`: a client is
watched for reading unless it waits for a swapped value.  Each function on the loop's
record (`aeCreateFileEvent`, `aeDeleteFileEvent`, `freeClient`, `createClient`) keeps both,
and beginning to wait or resuming moves a socket between the two cases of `Readers`.  What
is left are the fired events of sockets that have been closed or given to another client:
`Half` tests the mask registered *now*, and `clientData` is read *now*, which is why nothing
need be said of `fired` but its type.  `SleepsInTime` is arithmetic: carrying and borrowing
a second does not change the difference.

*WaitersAlwaysSound, DeliveredAlwaysOnce, AlwaysServedInOrder.*  `CInv` is what holds
between two steps of the server, with any calls under way.  It is stated of a stack and of
the clients' structures (`At`), since a command is called with a stack that is not yet the
one of any state.  `ClientsOK`: clients, their types, and that no `EXEC`, `DISCARD` or
`QUIT` is queued.  `StackOK`: a client has one call that reads its input, the first one that
is under way for it, and executes one transaction; when it has just been blocked, nothing
runs inside its call.  This is why serving a client, whose next commands then run inside
the command of the one that pushed, never begins to read an input that is being read.
`BlockOK`: a key is in a client's `bkeys` as often as the client is in the key's list; in
each list, clients are in the order in which they began to wait; and nobody waits for a
list that has elements, unless it is one of `renamed`.  The order in each list is what
`ServedInOrder` needs, and `handleClientsWaitingListPush` takes the first.  `DataOK`: no
element is in two places, and one that is not in the hands of a `rpoplpush` is in a list or
was given away once.  `Conserved` alone is not inductive, because `rpoplpush` gives an
element to a client while its node is still in the list it comes from, and commands of that
client run before the node is taken out; `ElementOK` says of each element what is true
meanwhile, with any number of `rpoplpush` under way, some of whose nodes are gone.
`PubOK`: the server's lists and the clients' sets of subscriptions agree, so that
`pubsubPublishMessage` counts each once.  `MultiOK`: slaves are in a transaction only while
a call of `EXEC` is under way that has sent a `MULTI`, and it will send the `EXEC`.  The
lemmas say what each command does to each part; `ProcKeeps`, that any command keeps `At`,
is used for one that is read, for one of a transaction, and for one of a client that was
just served.

The proof corrected the model in three places.  `RENAME` frees all nodes of the list it
replaces, and `rpoplpush` all of a list that it deletes, wherever an outer `rpoplpush` has
one of them in its hands; the end of `rpoplpush` takes the node out of the list it is in *by
then*, which a `RENAME` may have put under another key; and the comparison of two states in
`ServedInOrder` does not span the end of a server.

*DatasetAlwaysSame, KeyspaceAlwaysSound.*  `SameDataset` is not inductive, since it says
nothing of what a command meets that it does not look for.  `KInv` adds `Good`, of each
server: values are what their types say, with no empty set, sorted set or hash, one score
for an element and one value for a field, zipmaps within their limit, and every key with a
time to live is there; `Full`, while `exact` is true: no list is empty; and `AgreeAt`, of
each key, which is `Agree`, of any two servers.  A zipmap's entries fit (`Fits`): only one
whose value is a number may be longer than the limit.  `OldTimesGo` is about a step, and is
shown anew for each: a command that writes a key takes its time to live away, or leaves the
value.  A command
that writes a key deletes it first when it is volatile, so that master and slave find the
same (`SeenAlike`), however late the one or the other is.  A command on one key is then
described by what it makes of the value that it finds and by what it adds to `dirty`
(`One`), and it must leave the value as it is when it adds nothing (`Change`): this is what
makes it right not to send it on (`OneKeeps`).  Two hashes are compared by their fields
(`Data`), because one may be a zipmap and the other a hash table; the five commands on hashes
are shown to make the same fields of the same fields.  Commands on several keys are described
by what the look-ups leave (`Looked`), which may make the dataset dirty by themselves, and by the
keys that are written (`Wrote`): `Stops`, `Writes` and `StoredEnds` are the ways in which they end.
`LTRIM` is compared with `LRANGE` by the arithmetic of their indices (`LtrimIs`).

The proof corrected the model of `SORT`: elements of a set or sorted set that compare as equal
come out in the order of the hash table, which the slave need not share; `exact` names this.
`SORT`'s order is written out, because `SortSeq` is defined by what the provers cannot see.
`FLUSHALL` that is not sent makes `exact` false; one that is sent empties both.

*SlaveFollowsMaster.*  `StreamInv`: the commands on their way are the last that the
master executed, from the one after the dump on.  `WaitingInv` and `DumpInv`: at each
step of `syncWithMaster`, which file holds which version, or `Short` after a write that was
cut; commands that are applied to `Short` leave it `Short`.

*FilesRebuild, SlavesEndWithDataset.*  They are about what a buffer of commands makes of
a dataset.  `RunAll` is a recursive function of the buffer's prefixes, so that
`RunAllOneMore` (one more command is one more step) is proved by induction over a set of
numbers, and `FedBuffer` from it: a buffer that has selected the database that
`appendseldb` or a slave's `seldb` says, if it says one, and is fed with a command, does
what the master has done, and has selected the client's database.  One predicate, `Makes`, is then
kept for every such buffer.  `AofInv`: the file and `aofbuf`, and also what a child
writes and `bgrewritebuf`, make the dataset, with *one* `appendseldb` for both, which is
why a rewriting resets it when it begins and when it is done.  `DirtyInv`: `dirty`
exceeds `dirty_before_bgsave` when the dump to come is behind the dataset, which is what
the subtraction in `backgroundSaveDoneHandler` needs.  `SlaveInv`: the buffer of a slave
that waits for a child goes with the dataset that the child was forked with, and, once
the child has ended, with the dump that it wrote; after a `FLUSHALL` that killed the
child it goes with *any* dump.  `DownInv`: a crash leaves nothing but files.  The
invariant is required only while `met` is empty.

**Only model-checked.**  *Liveness* (`DrainedReturns`, `Terminates`, `CatchesUp`) and
whatever else needs fairness or ENABLED: the provers have no rules for it.  *What a
recursive operator or a fold computes*: `Serialize`, `Rdb`, `CheckDump`, `Protocol`,
`Wire`, `AofFile`, `SkipList` and `ZipMap` are defined with them, and a theorem about
them would need the library's induction theorems, whose parameters are operators, or
`RECURSIVE` definitions, which shut the SMT solver out.  (Induction over a *set* of
numbers can be had from well-foundedness; `Types_proofs`, `Persist_proofs`,
`Structures_proofs` and `Clients_proofs` do, for recursive *functions*; the theorems about
`Keyspace` need what its functions make of the two arguments that commands have in the model.)
*Vm*: within reach for the most part, and not done.

## 5. Divergences that have no run of their own

The models reach these, or they can be read off the source.  Where a property
excepts one, its comment says so.

*c-strider.*

- A root registered twice is still visited after `deregister_root`
  (`cstrider_api.c:99`); a variable that holds the address of a registered root
  cannot be registered, because `register_root` looks up its contents.
- A second `init` before `finish` doubles the generated roots (`transform.c:113`).
  `RootsSound` states this and the two cases before as they are.
- An array type whose hash is taken by another type is added under the same key and
  hides it (`cstrider_api.c:480`); the uninitialised padding gives one array type
  several names (`cstrider_api.c:472`).
- Every thread finds its share of the mapping table through the table's first entry,
  which is in some thread's share: a thread that is still at it reads the entry after
  another has freed it (`uthash_nxform.h:194`), although "table destruction won't happen
  until the end" (`NoUseAfterFree` and `RowsFreedOnce` except it).
- After an unlock the length of a row is read from an array that an expansion may
  have freed (`uthash_xform.h:134`), and several threads may expand back to back.
- `deserial_ptr_mapped`, "This will never get called", is called when fresh memory
  holds an old address (`serial.c:175`).

*redis.*

- Commands of a client that a push has unblocked run inside the pusher's transaction
  (`redis.c:7723`); `doc/MultiExecCommand.html:37` says that no other request is
  served in the middle of one.
- `closeTimedoutClients` keeps the next node of the list of clients while commands of
  an unblocked client may free that client; `rpoplpushcommand` deletes a node that
  such commands may have deleted (`redis.c:5106`).
- `GETSET` and `SORT ... STORE` of a volatile key, `SORT ... STORE` of a set of which two
  elements compare as equal, and `SPOP`, do not have the same effect at the slave, against
  `doc/ExpireCommand.html:51`.  The list that `SORT ... STORE` makes keeps the time to live
  of the key that it replaces (`redis.c:7231`; `OldTimesGo` excepts it).
- `FLUSHALL` whose save sets `dirty` to 0 and whose keys make it what it was before is not
  sent to the slaves (`redis.c:6858`; `exact` of `Keyspace` names it).
- `HINCRBY` looks at no lengths, and `HSET` not at that of a number: a zipmap may hold a
  field or a number longer than `hash-max-zipmap-value` (`ZipmapSmall` excepts them).
- A slave takes a short `write` to its dump file for a whole one (`redis.c:8150`): it loads
  what is there, or ends over it at this and every later start (`ReplicaSound` and
  `CatchesUp` except it).
- `Persist.met`: `FLUSHALL` is not propagated when `dirty` comes out as before
  (`flushall`, against `doc/AppendOnlyFileHowto.html:31`); a `FLUSHALL` between the end of a saving child and the
  handling of it makes `dirty` negative (`negative`); `stopAppendOnly` kills the wrong child (`forgotten`,
  `mixed`); a slave that joins another's save starts with the wrong database
  (`seldb`); a child killed by a signal counts as successful for the slaves
  (`killed`); what a rewriting appends is appended once more (`twice`); `CONFIG SET
  appendonly yes` answers with an error when the file cannot be opened, and leaves
  `appendonly` set, so that the next flush ends the process (`redis.c:8884`; `unopened`).
- `Vm.met`: `RENAME` onto a key that is not in memory, against the assertion at
  line 3130 (`replaced`); `FLUSHDB` forgets clients that wait (`forgotten`); a failed
  seek (`seek`); `DEBUG SWAPOUT` beside a child (`debug`).
- Slaves of a slave keep their old dataset when the slave synchronizes anew
  (`redis.c:8165`), against `doc/ReplicationHowto.html:30`.
- A timer that is late makes the loop sleep up to a second (`ae.c:301`).
- `redis-check-dump` reads an uninitialised entry of a file that is nothing but its
  header, and takes no database number above 63.
- An append-only file cut right after a star makes the server read `argv[0]` of no
  arguments (`redis.c:8458`).
- Without `glueoutputbuf` an object longer than `REDIS_MAX_WRITE_PER_EVENT` is never
  sent by the `writev` path (`redis.c:2226`).
- Expire times are written with 32 bits; one that wraps to -1 makes a load fail
  (`redis.c:4146`).

## 6. Not modelled

- callbacks that call `visit` themselves (the heap profile does, when built to),
  with the row of the object locked, other than in `Serialize` with one thread;
- look-ups in the type table without a lock while it grows, and its destruction; the
  order in which `XHASH_ITER` and the table's links are kept;
- the symbol table, which is sequential and small;
- the counting of the heap profile and the update of redis, other than as a parameter
  of `Visit`;
- the generator, a sequential program that prints C; the order in which its code
  visits fields is in `Visit`, and the calls it makes of type constructors are in
  `TypeTable`;
- redis commands that only read (but those of sorted sets and `LRANGE`), the
  configuration, `INFO`, `MONITOR`, `DEBUG` other than `SWAPOUT`, string buffers, the
  wrapper around `malloc`, the `select` and `kqueue` back ends of the event loop;
- `redis-cli`, `redis-benchmark`, `linenoise`, `lzf`, `sha1`, `tools/cil-1.3.7` and the
  plain `uthash.h`, which are clients or other people's programs.

The locks of the mapping table are remembered in a `static` array of the header
`uthash_nxform.h`, one per translation unit, so that `transform.c` frees an array
that `cstrider_api.c` filled: the locks leak.  This is outside the models.

## 7. Plan

What is next:

1. `Vm`: `PagesAccounted` and `OneJobPerKey`, then the rest of `JobsSound`.
2. `SkipList` and `ZipMap` with recursive functions for their folds, so that
   `TwoViewsAgree` and `LengthRight` can be proved.
