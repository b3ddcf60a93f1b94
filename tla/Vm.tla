--------------------------------- MODULE Vm ---------------------------------
(***************************************************************************)
(* The virtual memory of redis (examples/redis-2.0.2/redis.c): values go   *)
(* to pages of a swap file and come back, by jobs that I/O threads carry   *)
(* out while the main thread serves clients, blocks those whose keys are   *)
(* on disk, and forks children that read the same swap file.               *)
(*                                                                         *)
(* Where the main thread spins until a thread has done with a job, an      *)
(* action is not enabled before: nothing else happens in the main thread   *)
(* meanwhile.  A value is abstracted to its size, in pages; the content of *)
(* a page is the value that is there and which part of it.                 *)
(***************************************************************************)
EXTENDS Integers, Sequences, FiniteSets, FiniteSetsExt, SequencesExt

CONSTANTS Key, Client, Thread,
          Size,         \* sizes in pages
          NIL,
          vm_pages,
          PipeSize,      \* bytes the pipe takes before a write blocks
          MaxEvents      \* bound: requests of clients and swaps that are begun

ASSUME VmSizeAssumption == vm_pages \in Nat \ {0} /\ Size \subseteq 1 .. vm_pages
ASSUME VmThreadAssumption == IsFiniteSet(Thread) /\ Thread # {} /\ PipeSize \in Nat \ {0}

VARIABLES obj,           \* the entry of each key: storage, value, pages
          bitmap,        \* the pages marked as used
          io_newjobs, io_processed,
          threads,       \* what each I/O thread does, io_processing included
          io_keys,       \* c->io_keys
          waited,        \* db->io_keys
          io_ready_clients,
          request,       \* what each client waits to have executed
          file,          \* the pages of the swap file
          vm_next_page,
          pipe,          \* bytes in the pipe
          child,         \* what a child that saves has seen of the dataset
          forking,       \* the main thread is in waitEmptyIOJobsQueue
          data,          \* what the dataset should be
          events,
          met            \* which of the known defects have shown

\* What the operations of the main thread on keys, jobs and waiting clients change.
server == <<obj, bitmap, io_newjobs, io_processed, threads, io_keys, waited, io_ready_clients>>
vmvars == <<server, request, file, vm_next_page, pipe, child, forking, data, events, met>>

Page == 0 .. vm_pages - 1
Run(page, n) == page .. page + n - 1

Absent == [storage |-> "none", val |-> NIL, page |-> 0, pages |-> 0]
InMemory(v) == [Absent EXCEPT !.storage = "memory", !.val = v]

\* A thread: <<"none">>, <<"idle">>, <<"busy", job>>, <<"signal">>.
Busy(t) == threads[t][1] = "busy"
Processing == {threads[t][2] : t \in {x \in Thread : Busy(x)}}

Now == [obj |-> obj, bitmap |-> bitmap, newjobs |-> io_newjobs, processed |-> io_processed, threads |-> threads,
        io_keys |-> io_keys, waited |-> waited, ready |-> io_ready_clients]

Becomes(s) ==
  /\ obj' = s.obj /\ bitmap' = s.bitmap /\ io_newjobs' = s.newjobs /\ io_processed' = s.processed
  /\ threads' = s.threads /\ io_keys' = s.io_keys /\ waited' = s.waited /\ io_ready_clients' = s.ready

-----------------------------------------------------------------------------
\* The swap file

vmWriteObjectOnSwap(f, v, page) == [p \in Page |-> IF p \in Run(page, v) THEN <<v, p - page>> ELSE f[p]]

\* The value that is read at a page, or NIL when it is not there as a whole.
vmReadObjectFromSwap(f, page) ==
  LET v == f[page][1]
  IN  IF f[page][2] = 0 /\ \A p \in Run(page, v) : p \in Page /\ f[p] = <<v, p - page>> THEN v ELSE NIL

\* Where the scan from base has seen n free pages in a row; "what we found on
\* tail is no longer interesting".  It jumps ahead only after as many used pages
\* as a small file does not have.
Found(used, base, n) ==
  {o \in Page : LET this == (base + o) % vm_pages
                IN  \A i \in 0 .. n - 1 : i <= o /\ i <= this /\ this - i \notin used}

\* The first page, or NIL.
vmFindContiguousPages(used, base, n) ==
  IF Found(used, base, n) = {} THEN NIL ELSE ((base + Min(Found(used, base, n))) % vm_pages) - (n - 1)

-----------------------------------------------------------------------------
\* Jobs

\* A thread is started unless there are as many as there may be.
spawnIOThread(ts) ==
  LET free == {t \in Thread : ts[t][1] = "none"}
  IN  IF free = {} THEN ts ELSE [ts EXCEPT ![CHOOSE t \in free : TRUE] = <<"idle">>]

queueIOJob(s, j) == [s EXCEPT !.newjobs = Append(@, j), !.threads = spawnIOThread(@)]

Job(type, k, v, page) == [type |-> type, key |-> k, val |-> v, page |-> page, pages |-> 0, canceled |-> FALSE]

IsLive(j, k) == j.key = k /\ ~j.canceled

\* The main thread waits as long as a thread is at work on the key.
MustWait(k) == obj[k].storage \in {"swapping", "loading"} /\ \E j \in Processing : IsLive(j, k)

PagesBack(j, done) == IF j.type = "do_swap" THEN Run(j.page, j.pages) ELSE {}

vmCancelThreadedIOJob(s, k) ==
  LET new == {n \in DOMAIN s.newjobs : IsLive(s.newjobs[n], k)}
      old == {n \in DOMAIN s.processed : IsLive(s.processed[n], k)}
      undone == [s.obj EXCEPT ![k].storage = IF @ = "loading" THEN "swapped" ELSE "memory"]
  IN  IF new # {}
      THEN LET n == Min(new) IN [s EXCEPT !.newjobs = RemoveAt(@, n), !.obj = undone,
                                          !.bitmap = @ \ PagesBack(s.newjobs[n], FALSE)]
      ELSE LET n == Min(old) IN [s EXCEPT !.processed[n].canceled = TRUE, !.obj = undone,
                                          !.bitmap = @ \ PagesBack(s.processed[n], TRUE)]

vmSwapObjectThreaded(s, k) ==
  queueIOJob([s EXCEPT !.obj[k].storage = "swapping"], Job("prepare", k, s.obj[k].val, 0))

-----------------------------------------------------------------------------
\* Clients that wait for keys

dontWaitForSwappedKey(s, c, k) ==
  [s EXCEPT !.io_keys[c] = RemoveFirst(@, k), !.waited[k] = RemoveFirst(@, c)]

handleClientsBlockedOnSwappedKey(s, k) ==
  FoldLeft(LAMBDA r, c : LET d == dontWaitForSwappedKey(r, c, k)
                         IN  IF d.io_keys[c] = << >> THEN [d EXCEPT !.ready = Append(@, c)] ELSE d,
           s, s.waited[k])

waitForSwappedKey(s, c, k) ==
  CASE s.obj[k].storage \in {"none", "memory"} -> s
    [] s.obj[k].storage = "swapping" -> vmCancelThreadedIOJob(s, k)
    [] OTHER ->
         LET w == [s EXCEPT !.io_keys[c] = Append(@, k), !.waited[k] = Append(@, c)]
         IN  IF s.obj[k].storage = "swapped"
             THEN queueIOJob([w EXCEPT !.obj[k].storage = "loading"], Job("load", k, NIL, s.obj[k].page))
             ELSE w

-----------------------------------------------------------------------------
\* The dataset

\* Mutant of lookupKey: who waits for the key is not told.
MutNotNotified(s, k) ==
  CASE s.obj[k].storage \in {"none", "memory"} -> s
    [] s.obj[k].storage = "swapping" -> vmCancelThreadedIOJob(s, k)
    [] OTHER -> LET u == IF s.obj[k].storage = "loading" THEN vmCancelThreadedIOJob(s, k) ELSE s
                IN  [u EXCEPT !.obj[k] = InMemory(vmReadObjectFromSwap(file, s.obj[k].page)),
                              !.bitmap = @ \ Run(s.obj[k].page, s.obj[k].pages)]

\* A value that is on disk is read there and then; a job that would have is canceled.
lookupKey(s, k) ==
  CASE s.obj[k].storage \in {"none", "memory"} -> s
    [] s.obj[k].storage = "swapping" -> vmCancelThreadedIOJob(s, k)
    [] OTHER ->
         LET u == IF s.obj[k].storage = "loading" THEN vmCancelThreadedIOJob(s, k) ELSE s
             l == [u EXCEPT !.obj[k] = InMemory(vmReadObjectFromSwap(file, s.obj[k].page)),
                            !.bitmap = @ \ Run(s.obj[k].page, s.obj[k].pages)]
         IN  IF s.obj[k].storage = "loading" THEN handleClientsBlockedOnSwappedKey(l, k) ELSE l

\* The end of an entry: decrRefCount of its key.
FreeKey(s, k) ==
  LET u == IF s.obj[k].storage \in {"loading", "swapping"} THEN vmCancelThreadedIOJob(s, k) ELSE s
      back == IF s.obj[k].storage \in {"loading", "swapped"} THEN Run(s.obj[k].page, s.obj[k].pages) ELSE {}
  IN  [u EXCEPT !.obj[k] = Absent, !.bitmap = @ \ back]

deleteKey(s, k) == FreeKey(handleClientsBlockedOnSwappedKey(s, k), k)

\* setGenericCommand: "we want a new key object to overwrite the old".
setCommand(s, k, v) ==
  LET d == IF s.obj[k].storage = "memory" THEN s ELSE deleteKey(s, k)   \* deleteIfSwapped
  IN  [d EXCEPT !.obj[k] = InMemory(v)]

\* The value of the other key is replaced, but the key keeps its storage.
renameCommand(s, from, to) ==
  LET l == lookupKey(s, from)
      v == l.obj[from].val
      r == IF l.obj[to].storage = "none" THEN [l EXCEPT !.obj[to] = InMemory(v)] ELSE [l EXCEPT !.obj[to].val = v]
  IN  IF l.obj[from].storage = "none" THEN l ELSE deleteKey(r, from)

\* dictEmpty: nobody is told.
flushdbCommand(s) == FoldLeft(LAMBDA r, k : FreeKey(r, k), s, SetToSeq({k \in Key : s.obj[k].storage # "none"}))

-----------------------------------------------------------------------------
\* Requests: <<"get", keys>>, <<"append", k, v>>, <<"sort", k, by>>, <<"set", k, v>>,
\* <<"del", k>>, <<"rename", from, to>>, <<"flushdb">>

\* The keys the command table says to load before.
Preloaded(r) == CASE r[1] = "get" -> r[2]
                  [] r[1] \in {"append", "sort", "rename"} -> <<r[2]>>
                  [] OTHER -> << >>

\* The keys with which the main thread will have to do.
Touched(r) == CASE r[1] = "get" -> ToSet(r[2])
                [] r[1] \in {"sort"} -> {r[2], r[3]}
                [] r[1] = "rename" -> {r[2], r[3]}
                [] r[1] = "flushdb" -> Key
                [] OTHER -> {r[2]}

Executed(s, r) ==
  CASE r[1] = "get" -> FoldLeft(lookupKey, s, r[2])
    [] r[1] = "sort" -> lookupKey(lookupKey(s, r[2]), r[3])
    [] r[1] = "append" -> LET l == lookupKey(s, r[2]) IN [l EXCEPT !.obj[r[2]] = InMemory(r[3])]
    [] r[1] = "set" -> setCommand(s, r[2], r[3])
    [] r[1] = "del" -> IF s.obj[r[2]].storage = "none" THEN s ELSE deleteKey(s, r[2])
    [] r[1] = "rename" -> renameCommand(s, r[2], r[3])
    [] r[1] = "flushdb" -> flushdbCommand(s)

\* What the same command does to a dataset without virtual memory.
Meant(d, r) ==
  CASE r[1] \in {"append", "set"} -> [d EXCEPT ![r[2]] = r[3]]
    [] r[1] = "del" -> [d EXCEPT ![r[2]] = NIL]
    [] r[1] = "rename" /\ d[r[2]] # NIL -> [d EXCEPT ![r[2]] = NIL, ![r[3]] = d[r[2]]]
    [] r[1] = "flushdb" -> [k \in Key |-> NIL]
    [] OTHER -> d

\* Defect "replaced": RENAME onto a key whose storage is not memory.
\* Defect "forgotten": FLUSHDB with clients that wait for what it deletes.
Defect(r) ==
  (IF r[1] = "rename" /\ obj[r[2]].storage # "none" /\ obj[r[3]].storage \notin {"none", "memory"} THEN {"replaced"} ELSE {})
    \cup (IF r[1] = "flushdb" /\ \E k \in Key : waited[k] # << >> THEN {"forgotten"} ELSE {})

Execute(s, r) ==
  /\ \A k \in Touched(r) : ~MustWait(k)
  /\ Becomes(Executed(s, r))
  /\ data' = Meant(data, r)
  /\ met' = met \cup Defect(r)

Main == ~forking

\* processCommand: the request is executed, or waits for its keys to be loaded.
processCommand(c, r) ==
  LET s == FoldLeft(LAMBDA x, k : waitForSwappedKey(x, c, k), Now, Preloaded(r))
  IN  /\ Main /\ request[c] = NIL /\ events < MaxEvents
      /\ \A k \in ToSet(Preloaded(r)) : obj[k].storage = "swapping" => ~MustWait(k)
      /\ IF s.io_keys[c] # << >>
         THEN Becomes(s) /\ request' = [request EXCEPT ![c] = r] /\ UNCHANGED <<data, met>>
         ELSE Execute(s, r) /\ UNCHANGED request
      /\ events' = events + 1
      /\ UNCHANGED <<file, vm_next_page, pipe, child, forking>>

\* beforeSleep: the next client that is ready.
beforeSleep ==
  LET c == Head(io_ready_clients)
  IN  /\ Main /\ io_ready_clients # << >>
      /\ Execute([Now EXCEPT !.ready = Tail(@)], request[c])
      /\ request' = [request EXCEPT ![c] = NIL]
      /\ UNCHANGED <<file, vm_next_page, pipe, child, forking, events>>

\* freeClient, for one that waits.
freeClient(c) ==
  /\ Main /\ request[c] # NIL
  /\ Becomes(IF io_keys[c] = << >> THEN [Now EXCEPT !.ready = RemoveFirst(@, c)]
             ELSE FoldLeft(LAMBDA s, k : dontWaitForSwappedKey(s, c, k), Now, io_keys[c]))
  /\ request' = [request EXCEPT ![c] = NIL]
  /\ UNCHANGED <<file, vm_next_page, pipe, child, forking, data, events, met>>

-----------------------------------------------------------------------------
\* I/O threads

takeJob(t) ==
  /\ threads[t][1] = "idle" /\ io_newjobs # << >>
  /\ threads' = [threads EXCEPT ![t] = <<"busy", Head(io_newjobs)>>]
  /\ io_newjobs' = Tail(io_newjobs)
  /\ UNCHANGED <<obj, bitmap, io_processed, io_keys, waited, io_ready_clients, request, file, vm_next_page, pipe, child,
                 forking, data, events, met>>

noJob(t) ==
  /\ threads[t][1] = "idle" /\ io_newjobs = << >>
  /\ threads' = [threads EXCEPT ![t] = <<"none">>]
  /\ UNCHANGED <<obj, bitmap, io_newjobs, io_processed, io_keys, waited, io_ready_clients, request, file, vm_next_page,
                 pipe, child, forking, data, events, met>>

\* Defect "seek": the swap file cannot be positioned.  The thread itself cancels
\* the job, which leaves the key as it is, and no job for it.
processJob(t, ok) ==
  LET j == threads[t][2]
      done == CASE j.type = "load" -> [j EXCEPT !.val = vmReadObjectFromSwap(file, j.page)]
                [] j.type = "prepare" -> [j EXCEPT !.pages = j.val]
                [] OTHER -> [j EXCEPT !.canceled = ~ok]
  IN  /\ Busy(t)
      /\ ~ok => j.type = "do_swap"
      /\ file' = IF j.type = "do_swap" /\ ok THEN vmWriteObjectOnSwap(file, j.val, j.page) ELSE file
      /\ io_processed' = Append(io_processed, done)
      /\ threads' = [threads EXCEPT ![t] = <<"signal">>]
      /\ met' = IF ok THEN met ELSE met \cup {"seek"}
      /\ UNCHANGED <<obj, bitmap, io_newjobs, io_keys, waited, io_ready_clients, request, vm_next_page, pipe, child,
                     forking, data, events>>

signal(t) ==
  /\ threads[t][1] = "signal" /\ pipe < PipeSize
  /\ pipe' = pipe + 1
  /\ threads' = [threads EXCEPT ![t] = <<"idle">>]
  /\ UNCHANGED <<obj, bitmap, io_newjobs, io_processed, io_keys, waited, io_ready_clients, request, file, vm_next_page,
                 child, forking, data, events, met>>

-----------------------------------------------------------------------------
\* The main thread and its jobs

\* Mutant of vmCanSwapOut: always.
MutCanSwapOut == TRUE

vmCanSwapOut == child = NIL

Swappable(s) == {k \in Key : s.obj[k].storage = "memory"}

\* vmThreadedIOCompletedJob after a swap: "a few more swap requests", K, of which
\* the last may find io_newjobs full already.
SwapMore(s, K) ==
  IF K = {} THEN s ELSE FoldLeft(vmSwapObjectThreaded, s, SetToSeq(K))

\* A job that was not canceled, in the main thread.  The search for pages begins
\* where the last one ended or, after so many of them, at page 0.
PostProcess(s, j, K, base) ==
  LET k == j.key
      page == vmFindContiguousPages(s.bitmap, base, j.pages)
      home == [s EXCEPT !.obj[k] = InMemory(j.val), !.bitmap = @ \ Run(s.obj[k].page, s.obj[k].pages)]
      reserved == queueIOJob([s EXCEPT !.bitmap = @ \cup Run(page, j.pages)], [j EXCEPT !.type = "do_swap", !.page = page])
      out == [s EXCEPT !.obj[k] = [storage |-> "swapped", val |-> NIL, page |-> j.page, pages |-> j.pages]]
  IN  CASE j.type = "load" -> K = {} /\ Becomes(handleClientsBlockedOnSwappedKey(home, k)) /\ UNCHANGED vm_next_page
        [] j.type = "prepare" ->
             /\ K = {}
             /\ IF vmCanSwapOut /\ page # NIL
                THEN Becomes(reserved) /\ vm_next_page' = page + j.pages
                ELSE /\ Becomes([s EXCEPT !.obj[k].storage = "memory"])
                     /\ vm_next_page' = IF vmCanSwapOut THEN base ELSE vm_next_page
        [] OTHER ->
             /\ K \subseteq Swappable(out)
             /\ K # {} => vmCanSwapOut /\ ~forking
             /\ events + Cardinality(K) <= MaxEvents
             /\ Cardinality(K) > 1 => Len(s.newjobs) + Cardinality(K) - 2 < Cardinality(Thread)
             /\ Becomes(SwapMore(out, K)) /\ UNCHANGED vm_next_page

\* Up to a job that was not canceled, or to the last byte in the pipe.
vmThreadedIOCompletedJob(K, base) ==
  LET live == {n \in 1 .. pipe : ~io_processed[n].canceled}
      n == Min(live)
  IN  /\ pipe > 0 /\ base \in {0, vm_next_page}
      /\ IF live = {}
         THEN /\ K = {} /\ Becomes([Now EXCEPT !.processed = SubSeq(@, pipe + 1, Len(@))])
              /\ pipe' = 0 /\ UNCHANGED vm_next_page
         ELSE /\ PostProcess([Now EXCEPT !.processed = SubSeq(@, n + 1, Len(@))], io_processed[n], K, base)
              /\ pipe' = pipe - n
      /\ events' = events + Cardinality(K)
      /\ UNCHANGED <<request, file, child, forking, data, met>>

\* serverCron: over the memory limit.
swapCron(k) ==
  /\ Main /\ vmCanSwapOut /\ events < MaxEvents
  /\ k \in Swappable(Now)
  /\ Becomes(vmSwapObjectThreaded(Now, k))
  /\ events' = events + 1
  /\ UNCHANGED <<request, file, vm_next_page, pipe, child, forking, data, met>>

\* DEBUG SWAPOUT.  Defect "debug": it does not ask whether a child reads the pages.
vmSwapObjectBlocking(k, base) ==
  LET page == vmFindContiguousPages(bitmap, base, obj[k].val)
      v == obj[k].val
  IN  /\ Main /\ events < MaxEvents /\ base \in {0, vm_next_page}
      /\ obj[k].storage = "memory"
      /\ page # NIL
      /\ file' = vmWriteObjectOnSwap(file, v, page)
      /\ obj' = [obj EXCEPT ![k] = [storage |-> "swapped", val |-> NIL, page |-> page, pages |-> v]]
      /\ bitmap' = bitmap \cup Run(page, v)
      /\ vm_next_page' = page + v
      /\ events' = events + 1
      /\ met' = IF child = NIL THEN met ELSE met \cup {"debug"}
      /\ UNCHANGED <<io_newjobs, io_processed, threads, io_keys, waited, io_ready_clients, request, pipe, child, forking, data>>

\* rdbSaveBackground, rewriteAppendOnlyFileBackground.
waitEmptyIOJobsQueue ==
  /\ Main /\ child = NIL /\ events < MaxEvents
  /\ forking' = TRUE
  /\ events' = events + 1
  /\ UNCHANGED <<server, request, file, vm_next_page, pipe, child, data, met>>

NoJobs == io_newjobs = << >> /\ \A t \in Thread : threads[t][1] = "none"

fork ==
  /\ forking /\ NoJobs
  /\ child' = [obj |-> obj, data |-> data]
  /\ forking' = FALSE
  /\ UNCHANGED <<server, request, file, vm_next_page, pipe, data, events, met>>

childEnds ==
  /\ child # NIL
  /\ child' = NIL
  /\ UNCHANGED <<server, request, file, vm_next_page, pipe, forking, data, events, met>>

-----------------------------------------------------------------------------
Request ==
  {<<"get", <<k>>>> : k \in Key} \cup {<<"get", <<k, l>>>> : k \in Key, l \in Key}
    \cup {<<op, k, v>> : op \in {"append", "set"}, k \in Key, v \in Size}
    \cup {<<"sort", k, l>> : k \in Key, l \in Key}
    \cup {<<"rename", p[1], p[2]>> : p \in {q \in Key \X Key : q[1] # q[2]}}
    \cup {<<"del", k>> : k \in Key} \cup {<<"flushdb">>}

VmInit ==
  /\ data \in [Key -> Size]
  /\ obj = [k \in Key |-> InMemory(data[k])]
  /\ bitmap = {} /\ file = [p \in Page |-> <<0, 1>>] /\ vm_next_page = 0
  /\ io_newjobs = << >> /\ io_processed = << >> /\ pipe = 0
  /\ threads = [t \in Thread |-> <<"none">>]
  /\ io_keys = [c \in Client |-> << >>] /\ waited = [k \in Key |-> << >>] /\ io_ready_clients = << >>
  /\ request = [c \in Client |-> NIL]
  /\ child = NIL /\ forking = FALSE
  /\ events = 0 /\ met = {}

IoThread(t) == takeJob(t) \/ noJob(t) \/ (\E ok \in BOOLEAN : processJob(t, ok)) \/ signal(t)
Completed == \E K \in SUBSET Key, base \in 0 .. vm_pages : vmThreadedIOCompletedJob(K, base)

Step ==
  \/ \E c \in Client, r \in Request : processCommand(c, r)
  \/ beforeSleep
  \/ \E c \in Client : freeClient(c)
  \/ \E t \in Thread : IoThread(t)
  \/ Completed
  \/ \E k \in Key : swapCron(k)
  \/ \E k \in Key, base \in 0 .. vm_pages : vmSwapObjectBlocking(k, base)
  \/ waitEmptyIOJobsQueue
  \/ fork
  \/ childEnds

\* Nobody waits, and the bound is reached.
Quiet == events = MaxEvents /\ ~forking /\ \A c \in Client : request[c] = NIL

\* A behaviour is followed until it meets one of the known defects.
VmNext == (met = {} /\ Step) \/ ((met # {} \/ Quiet) /\ UNCHANGED vmvars)

VmSpec == VmInit /\ [][VmNext]_vmvars

-----------------------------------------------------------------------------
Jobs == ToSet(io_newjobs) \cup Processing \cup ToSet(io_processed)
OnDisk(k) == obj[k].storage \in {"swapped", "loading"}

\* The types: pages within the swap file, storage states, jobs and threads.
VmTypeOK ==
  /\ \A k \in Key : obj[k].storage \in {"none", "memory", "swapped", "swapping", "loading"} /\ obj[k].val \in Size \cup {NIL}
  /\ bitmap \subseteq Page /\ vm_next_page \in 0 .. vm_pages
  /\ \A j \in Jobs : j.type \in {"load", "prepare", "do_swap"} /\ j.key \in Key
  /\ \A c \in Client : io_keys[c] \in Seq(Key) /\ (request[c] = NIL => io_keys[c] = << >>)
  /\ \A t \in Thread : threads[t][1] \in {"none", "idle", "busy", "signal"}

\* Virtual memory does not show: each key has the value it would have without,
\* in memory or in its pages of the swap file, whatever was canceled, loaded
\* twice over, deleted or overwritten in the meantime.
DatasetKept ==
  met = {} => \A k \in Key : IF OnDisk(k) THEN data[k] = vmReadObjectFromSwap(file, obj[k].page) /\ data[k] = obj[k].pages
                             ELSE obj[k].val = data[k]

\* Every page that is marked belongs to one value on disk or to one job that
\* is swapping, and the other way round: no page is leaked, freed twice
\* (vmMarkPageFree asserts it) or shared.
PagesAccounted ==
  LET owned == {<<"key", k, obj[k].page, obj[k].pages>> : k \in {x \in Key : OnDisk(x)}}
                 \cup {<<"job", j.key, j.page, j.pages>> : j \in {x \in Jobs : x.type = "do_swap" /\ ~x.canceled}}
  IN  met = {} => /\ bitmap = UNION {Run(o[3], o[4]) : o \in owned}
                  /\ \A o, p \in owned : o # p => Run(o[3], o[4]) \cap Run(p[3], p[4]) = {}

\* vmCancelThreadedIOJob: "We should never reach this".  A key that is being
\* swapped or loaded has one job that can be canceled, with the value that the
\* dataset has, and no other key has one: no thread reads a value that the main
\* thread is free to change.
OneJobPerKey ==
  met = {} =>
    \A k \in Key :
      LET live == {j \in Jobs : IsLive(j, k)}
      IN  /\ obj[k].storage \in {"swapping", "loading"} <=> live # {}
          /\ Cardinality(live) <= 1
          /\ \A j \in live : IF j.type = "load" THEN obj[k].storage = "loading" /\ j.page = obj[k].page
                             ELSE obj[k].storage = "swapping" /\ j.val = obj[k].val

\* A client that waits for a key is in the list of this key, as often, and the
\* key is being loaded; one that waits for no more keys is ready: each of them
\* will be resumed.
WaitersWillBeServed ==
  met = {} =>
    /\ \A k \in Key : waited[k] # << >> => obj[k].storage = "loading"
    /\ \A c \in Client :
         /\ \A k \in Key : Len(SelectSeq(io_keys[c], LAMBDA x : x = k)) = Len(SelectSeq(waited[k], LAMBDA x : x = c))
         /\ Len(SelectSeq(io_ready_clients, LAMBDA x : x = c)) = IF request[c] # NIL /\ io_keys[c] = << >> THEN 1 ELSE 0

\* Behind every byte in the pipe, and every thread that will write one, there
\* is a processed job: the handler finds one (an assertion), and none is left.
BytesMatchJobs == pipe + Cardinality({t \in Thread : threads[t][1] = "signal"}) = Len(io_processed)

\* The child that saves finds in the swap file the values it was forked with,
\* although the parent loads and frees pages as it goes on.
ChildSavesDataset ==
  met = {} /\ child # NIL =>
    \A k \in Key : IF child.obj[k].storage \in {"swapped", "loading"}
                   THEN vmReadObjectFromSwap(file, child.obj[k].page) = child.data[k]
                   ELSE child.obj[k].val = child.data[k]

\* With virtual memory the dataset is what it would be without, for clients and for a child
\* that saves, whatever the I/O threads are doing.
VmTransparent == DatasetKept /\ ChildSavesDataset

\* Keys, pages, jobs, bytes in the pipe and waiting clients account for each other: each page
\* in use has one owner, each key that is on its way one job, each finished job its byte, and
\* each waiting client something that will wake it.
JobsSound == VmTypeOK /\ PagesAccounted /\ OneJobPerKey /\ WaitersWillBeServed /\ BytesMatchJobs
=============================================================================
