------------------------------ MODULE WorkQueue ------------------------------
(***************************************************************************)
(* The parallel traversal engine: the work queues of src/src/queue.c and   *)
(* the threads of src/src/transform.c that fill and drain them.            *)
(*                                                                         *)
(* Thread t owns queue t; the last thread is the caller's own thread.  It  *)
(* enqueues the roots (visit_all) while the helpers already work, then     *)
(* joins them in processqueue (finish).  A task that runs may enqueue more *)
(* tasks.  A thread leaves processqueue when allqempty answers 1.          *)
(*                                                                         *)
(* Grain: a lock, a trylock, each read of an unlocked scan, and the body   *)
(* of a critical section together with its unlock are one step each.  In   *)
(* between its writes and its unlock a critical section can only be seen   *)
(* by the unlocked scans, whose results the code treats as hints.          *)
(*                                                                         *)
(* Abstracted: a queue is the sequence of its tasks (count is its length;  *)
(* module RingQueue proves that the ring does this); a task is a name, and *)
(* which tasks a task enqueues is left open.                               *)
(***************************************************************************)
EXTENDS Integers, Sequences, FiniteSets

CONSTANTS NumThreads,     \* NUM_THREADS, the calling thread included
          QUEUESIZE,      \* capacity of one queue
          Task,           \* the tasks that may be made
          NULL,           \* the null pointer
          Modes,          \* values of init's argument "parallel"
          MaxTraversals   \* bound: how often the program calls init

ASSUME NumThreadsAssumption == NumThreads \in Nat \ {0}
ASSUME QueueSizeAssumption == QUEUESIZE \in Nat \ {0}
ASSUME NullAssumption == NULL \notin Task
ASSUME ModesAssumption == Modes \subseteq BOOLEAN
ASSUME MaxTraversalsAssumption == MaxTraversals \in Nat

Thread == 0 .. NumThreads - 1
Queue == Thread
Main == NumThreads - 1
Unlocked == -1

VARIABLES items,            \* contents of each queue
          inflight,         \* queue.inflight
          thread_started,   \* queue.thread_started
          mutex,            \* holder of queue_mutex
          allqdone,         \* the global of queue.c
          is_parallel,      \* the global of transform.c
          aborted,          \* assert(0) has ended the process
          pc,               \* where each thread is
          qnum, i, cnt,     \* locals of enqueue, dequeue, lowest, highest,
                            \* allqempty; 0 where they are out of scope
          arg,              \* the task a thread is enqueueing
          dqed,             \* the task a thread has dequeued
          made,             \* tasks of this traversal (transform_make_enq)
          finished,         \* tasks of this traversal whose callxformer returned
          traversals,       \* how often init was called
          stale             \* allqdone was set when this traversal began

queues == <<items, inflight, thread_started>>
locals == <<qnum, i, cnt>>
tasks == <<arg, dqed, made, finished>>
run == <<is_parallel, traversals, stale>>
vars == <<queues, mutex, allqdone, aborted, pc, locals, tasks, run>>

Enqueueing == {"enq_scan", "enq_try", "enq_put"}
Dequeueing == {"deq_home", "deq_scan", "deq_try", "deq_take"}
Finishing == {"fin_lock", "fin_dec"}
Checking == {"chk_flag", "chk_scan", "chk_lock", "chk_test", "unlock_empty", "unlock_busy"}
Label == {"idle", "roots", "task", "start_lock", "start_set", "exited"}
           \cup Enqueueing \cup Dequeueing \cup Finishing \cup Checking

\* The number of queues in use, and the queue a thread calls home.
NumQueues == IF is_parallel THEN NumThreads ELSE 1
Used == 0 .. NumQueues - 1
Home(t) == IF is_parallel THEN t ELSE 0

\* The loop over the queues that t is in has reached its last iteration.
LastQueue(t) == i[t] + 1 = NumQueues

QueuesOK ==
  /\ items \in [Queue -> Seq(Task)]
  /\ inflight \in [Queue -> Int]
  /\ thread_started \in [Queue -> BOOLEAN]
  /\ mutex \in [Queue -> Thread \cup {Unlocked}]

ThreadsOK ==
  /\ pc \in [Thread -> Label]
  /\ qnum \in [Thread -> Queue]
  /\ i \in [Thread -> Nat]
  /\ cnt \in [Thread -> Nat]

TasksOK ==
  /\ arg \in [Thread -> Task \cup {NULL}]
  /\ dqed \in [Thread -> Task \cup {NULL}]
  /\ made \subseteq Task
  /\ finished \subseteq Task

RunOK ==
  /\ allqdone \in BOOLEAN
  /\ is_parallel \in BOOLEAN
  /\ aborted \in BOOLEAN
  /\ traversals \in Nat
  /\ stale \in BOOLEAN

\* The types of the shared and the thread-local state; every index that lowest, highest and
\* the trylock loops use names a queue.
TypeOK == QueuesOK /\ ThreadsOK /\ TasksOK /\ RunOK

-----------------------------------------------------------------------------
Init ==
  /\ items = [j \in Queue |-> << >>]
  /\ inflight = [j \in Queue |-> 0]
  /\ thread_started = [j \in Queue |-> FALSE]
  /\ mutex = [j \in Queue |-> Unlocked]
  /\ allqdone = FALSE
  /\ is_parallel = FALSE
  /\ aborted = FALSE
  /\ pc = [t \in Thread |-> "idle"]
  /\ qnum = [t \in Thread |-> 0]
  /\ i = [t \in Thread |-> 0]
  /\ cnt = [t \in Thread |-> 0]
  /\ arg = [t \in Thread |-> NULL]
  /\ dqed = [t \in Thread |-> NULL]
  /\ made = {}
  /\ finished = {}
  /\ traversals = 0
  /\ stale = FALSE

\* init_queue on the queues the mode uses.  allqdone is not among its fields.
init_queue(U) ==
  /\ items' = [j \in Queue |-> IF j \in U THEN << >> ELSE items[j]]
  /\ inflight' = [j \in Queue |-> IF j \in U THEN 0 ELSE inflight[j]]
  /\ thread_started' = [j \in Queue |-> IF j \in U THEN FALSE ELSE thread_started[j]]
  /\ mutex' = [j \in Queue |-> IF j \in U THEN Unlocked ELSE mutex[j]]

\* init(funs, p): launch_helpers resets the queues, then creates the helpers.
\* A helper that has been created and has not run yet is at its first lock.
launch_helpers(p) ==
  /\ pc[Main] = "idle"
  /\ traversals < MaxTraversals
  /\ is_parallel' = p
  /\ init_queue(IF p THEN Queue ELSE {0})
  /\ pc' = [t \in Thread |-> IF t = Main THEN "roots"
                             ELSE IF p THEN "start_lock" ELSE "idle"]
  /\ made' = {}
  /\ finished' = {}
  /\ traversals' = traversals + 1
  /\ stale' = (p /\ allqdone)
  /\ UNCHANGED <<allqdone, aborted, locals, arg, dqed>>

-----------------------------------------------------------------------------
(* Enqueueing *)

\* addtoqueue(transform_make_enq(...)): from the roots, or from a running task.
\* Ends at the first read of lowest().
addtoqueue(t, x) ==
  /\ pc[t] \in {"roots", "task"}
  /\ x \in Task \ made
  /\ made' = made \cup {x}
  /\ arg' = [arg EXCEPT ![t] = x]
  /\ pc' = [pc EXCEPT ![t] = "enq_scan"]
  /\ i' = [i EXCEPT ![t] = 0]
  /\ qnum' = [qnum EXCEPT ![t] = 0]
  /\ cnt' = [cnt EXCEPT ![t] = QUEUESIZE]
  /\ UNCHANGED <<queues, mutex, allqdone, aborted, dqed, finished, run>>

\* One iteration of lowest(), reading a count without its lock.
lowest(t) ==
  /\ pc[t] = "enq_scan"
  /\ LET c == Len(items[i[t]])
     IN  /\ qnum' = [qnum EXCEPT ![t] = IF c < cnt[t] THEN i[t] ELSE @]
         /\ cnt' = [cnt EXCEPT ![t] = IF LastQueue(t) THEN 0 ELSE IF c < @ THEN c ELSE @]
  /\ i' = [i EXCEPT ![t] = IF LastQueue(t) THEN 0 ELSE @ + 1]
  /\ pc' = [pc EXCEPT ![t] = IF LastQueue(t) THEN "enq_try" ELSE @]
  /\ UNCHANGED <<queues, mutex, allqdone, aborted, tasks, run>>

\* Mutant of trylock: the next queue without the wrap-around.
MutTrylockNoWrap(t, from, to) ==
  /\ pc[t] = from
  /\ \/ /\ mutex[qnum[t]] = Unlocked
        /\ mutex' = [mutex EXCEPT ![qnum[t]] = t]
        /\ pc' = [pc EXCEPT ![t] = to]
        /\ UNCHANGED qnum
     \/ /\ mutex[qnum[t]] # Unlocked
        /\ qnum' = [qnum EXCEPT ![t] = @ + 1]
        /\ UNCHANGED <<mutex, pc>>
  /\ UNCHANGED <<queues, allqdone, aborted, i, cnt, tasks, run>>

\* pthread_mutex_trylock on queue qnum, then on the next one while it is busy.
trylock(t, from, to) ==
  /\ pc[t] = from
  /\ \/ /\ mutex[qnum[t]] = Unlocked
        /\ mutex' = [mutex EXCEPT ![qnum[t]] = t]
        /\ pc' = [pc EXCEPT ![t] = to]
        /\ UNCHANGED qnum
     \/ /\ mutex[qnum[t]] # Unlocked
        /\ qnum' = [qnum EXCEPT ![t] = (@ + 1) % NumQueues]
        /\ UNCHANGED <<mutex, pc>>
  /\ UNCHANGED <<queues, allqdone, aborted, i, cnt, tasks, run>>

enqueue_trylock(t) == trylock(t, "enq_try", "enq_put")

\* The critical section of enqueue, and the return to the caller.
enqueue(t) ==
  /\ pc[t] = "enq_put"
  /\ Len(items[qnum[t]]) < QUEUESIZE
  /\ items' = [items EXCEPT ![qnum[t]] = Append(@, arg[t])]
  /\ mutex' = [mutex EXCEPT ![qnum[t]] = Unlocked]
  /\ arg' = [arg EXCEPT ![t] = NULL]
  /\ pc' = [pc EXCEPT ![t] = IF dqed[t] = NULL THEN "roots" ELSE "task"]
  /\ qnum' = [qnum EXCEPT ![t] = 0]
  /\ UNCHANGED <<inflight, thread_started, allqdone, aborted, i, cnt, dqed, made, finished, run>>

\* Mutant of enqueue_full: the test is off by one.
MutFullEarly(t) ==
  /\ pc[t] = "enq_put"
  /\ Len(items[qnum[t]]) + 1 >= QUEUESIZE
  /\ aborted' = TRUE
  /\ UNCHANGED <<queues, mutex, allqdone, pc, locals, tasks, run>>

\* The queue is full: assert(0).
enqueue_full(t) ==
  /\ pc[t] = "enq_put"
  /\ Len(items[qnum[t]]) >= QUEUESIZE
  /\ aborted' = TRUE
  /\ UNCHANGED <<queues, mutex, allqdone, pc, locals, tasks, run>>

-----------------------------------------------------------------------------
(* processqueue: start, dequeue, run a task, report it finished *)

\* finish(): the calling thread has no more roots and enters processqueue.
finish ==
  /\ pc[Main] = "roots"
  /\ pc' = [pc EXCEPT ![Main] = "start_lock"]
  /\ UNCHANGED <<queues, mutex, allqdone, aborted, locals, tasks, run>>

\* pthread_mutex_lock on a thread's own queue.
lock_home(t, from, to) ==
  /\ pc[t] = from
  /\ mutex[Home(t)] = Unlocked
  /\ mutex' = [mutex EXCEPT ![Home(t)] = t]
  /\ pc' = [pc EXCEPT ![t] = to]
  /\ UNCHANGED <<queues, allqdone, aborted, locals, tasks, run>>

start_dequeue_lock(t) == lock_home(t, "start_lock", "start_set")

start_dequeue(t) ==
  /\ pc[t] = "start_set"
  /\ thread_started' = [thread_started EXCEPT ![Home(t)] = TRUE]
  /\ mutex' = [mutex EXCEPT ![Home(t)] = Unlocked]
  /\ pc' = [pc EXCEPT ![t] = "deq_home"]
  /\ UNCHANGED <<items, inflight, allqdone, aborted, locals, tasks, run>>

\* dequeue first tries the home queue; if it is busy it looks for the longest.
dequeue_home(t) ==
  /\ pc[t] = "deq_home"
  /\ \/ /\ mutex[Home(t)] = Unlocked
        /\ mutex' = [mutex EXCEPT ![Home(t)] = t]
        /\ qnum' = [qnum EXCEPT ![t] = Home(t)]
        /\ pc' = [pc EXCEPT ![t] = "deq_take"]
        /\ UNCHANGED <<i, cnt>>
     \/ /\ mutex[Home(t)] # Unlocked
        /\ qnum' = [qnum EXCEPT ![t] = 0]
        /\ i' = [i EXCEPT ![t] = 0]
        /\ cnt' = [cnt EXCEPT ![t] = 0]
        /\ pc' = [pc EXCEPT ![t] = "deq_scan"]
        /\ UNCHANGED mutex
  /\ UNCHANGED <<queues, allqdone, aborted, tasks, run>>

\* One iteration of highest(), reading a count without its lock.
highest(t) ==
  /\ pc[t] = "deq_scan"
  /\ LET c == Len(items[i[t]])
     IN  /\ qnum' = [qnum EXCEPT ![t] = IF c > cnt[t] THEN i[t] ELSE @]
         /\ cnt' = [cnt EXCEPT ![t] = IF LastQueue(t) THEN 0 ELSE IF c > @ THEN c ELSE @]
  /\ i' = [i EXCEPT ![t] = IF LastQueue(t) THEN 0 ELSE @ + 1]
  /\ pc' = [pc EXCEPT ![t] = IF LastQueue(t) THEN "deq_try" ELSE @]
  /\ UNCHANGED <<queues, mutex, allqdone, aborted, tasks, run>>

dequeue_trylock(t) == trylock(t, "deq_try", "deq_take")

\* Mutant of dequeue: front and count are not moved.
MutDequeueKeeps(t) ==
  /\ pc[t] = "deq_take"
  /\ items[qnum[t]] # << >>
  /\ dqed' = [dqed EXCEPT ![t] = Head(items[qnum[t]])]
  /\ inflight' = [inflight EXCEPT ![Home(t)] = @ + 1]
  /\ mutex' = [mutex EXCEPT ![qnum[t]] = Unlocked]
  /\ pc' = [pc EXCEPT ![t] = "task"]
  /\ qnum' = [qnum EXCEPT ![t] = 0]
  /\ UNCHANGED <<items, thread_started, allqdone, aborted, i, cnt, arg, made, finished, run>>

\* Mutant of dequeue: the task is counted where it came from, not at home.
MutDequeueCountsThere(t) ==
  /\ pc[t] = "deq_take"
  /\ items[qnum[t]] # << >>
  /\ dqed' = [dqed EXCEPT ![t] = Head(items[qnum[t]])]
  /\ items' = [items EXCEPT ![qnum[t]] = Tail(@)]
  /\ inflight' = [inflight EXCEPT ![qnum[t]] = @ + 1]
  /\ mutex' = [mutex EXCEPT ![qnum[t]] = Unlocked]
  /\ pc' = [pc EXCEPT ![t] = "task"]
  /\ qnum' = [qnum EXCEPT ![t] = 0]
  /\ UNCHANGED <<thread_started, allqdone, aborted, i, cnt, arg, made, finished, run>>

\* The critical section of dequeue.  inflight of the HOME queue is counted
\* under the lock of the queue the task came from.
dequeue(t) ==
  /\ pc[t] = "deq_take"
  /\ items[qnum[t]] # << >>
  /\ dqed' = [dqed EXCEPT ![t] = Head(items[qnum[t]])]
  /\ items' = [items EXCEPT ![qnum[t]] = Tail(@)]
  /\ inflight' = [inflight EXCEPT ![Home(t)] = @ + 1]
  /\ mutex' = [mutex EXCEPT ![qnum[t]] = Unlocked]
  /\ pc' = [pc EXCEPT ![t] = "task"]
  /\ qnum' = [qnum EXCEPT ![t] = 0]
  /\ UNCHANGED <<thread_started, allqdone, aborted, i, cnt, arg, made, finished, run>>

\* Nothing there: a parallel thread asks allqempty, a serial one leaves.
dequeue_nothing(t) ==
  /\ pc[t] = "deq_take"
  /\ items[qnum[t]] = << >>
  /\ mutex' = [mutex EXCEPT ![qnum[t]] = Unlocked]
  /\ pc' = [pc EXCEPT ![t] = IF is_parallel THEN "chk_flag" ELSE "exited"]
  /\ qnum' = [qnum EXCEPT ![t] = 0]
  /\ UNCHANGED <<queues, allqdone, aborted, i, cnt, tasks, run>>

\* callxformer returns.
callxformer(t) ==
  /\ pc[t] = "task"
  /\ finished' = finished \cup {dqed[t]}
  /\ pc' = [pc EXCEPT ![t] = "fin_lock"]
  /\ UNCHANGED <<queues, mutex, allqdone, aborted, locals, arg, dqed, made, run>>

deq_task_finished_lock(t) == lock_home(t, "fin_lock", "fin_dec")

deq_task_finished(t) ==
  /\ pc[t] = "fin_dec"
  /\ inflight' = [inflight EXCEPT ![Home(t)] = @ - 1]
  /\ mutex' = [mutex EXCEPT ![Home(t)] = Unlocked]
  /\ dqed' = [dqed EXCEPT ![t] = NULL]
  /\ pc' = [pc EXCEPT ![t] = "deq_home"]
  /\ UNCHANGED <<items, thread_started, allqdone, aborted, locals, arg, made, finished, run>>

-----------------------------------------------------------------------------
(* allqempty *)

allqempty_flag(t) ==
  /\ pc[t] = "chk_flag"
  /\ pc' = [pc EXCEPT ![t] = IF allqdone THEN "exited" ELSE "chk_scan"]
  /\ i' = [i EXCEPT ![t] = 0]
  /\ UNCHANGED <<queues, mutex, allqdone, aborted, qnum, cnt, tasks, run>>

\* One iteration of the unlocked loop: answer 0, or look at the next queue.
allqempty_scan(t) ==
  /\ pc[t] = "chk_scan"
  /\ LET busy == ~thread_started[i[t]] \/ inflight[i[t]] > 0
     IN  /\ pc' = [pc EXCEPT ![t] = IF busy THEN "deq_home"
                                    ELSE IF LastQueue(t) THEN "chk_lock" ELSE @]
         /\ i' = [i EXCEPT ![t] = IF busy \/ LastQueue(t) THEN 0 ELSE @ + 1]
  /\ UNCHANGED <<queues, mutex, allqdone, aborted, qnum, cnt, tasks, run>>

\* One iteration of the loop that takes every lock, in index order.
allqempty_lock(t) ==
  /\ pc[t] = "chk_lock"
  /\ mutex[i[t]] = Unlocked
  /\ mutex' = [mutex EXCEPT ![i[t]] = t]
  /\ i' = [i EXCEPT ![t] = @ + 1]
  /\ pc' = [pc EXCEPT ![t] = IF LastQueue(t) THEN "chk_test" ELSE @]
  /\ UNCHANGED <<queues, allqdone, aborted, qnum, cnt, tasks, run>>

\* Mutant of AllEmpty: tasks in flight are forgotten.
MutAllEmptyNoInflight == \A j \in Used : items[j] = << >> /\ thread_started[j]

AllEmpty == \A j \in Used : inflight[j] = 0 /\ items[j] = << >> /\ thread_started[j]

\* The test under all locks, and the flag for the threads that come later.
allqempty_test(t) ==
  /\ pc[t] = "chk_test"
  /\ allqdone' = (allqdone \/ AllEmpty)
  /\ i' = [i EXCEPT ![t] = 0]
  /\ pc' = [pc EXCEPT ![t] = IF AllEmpty THEN "unlock_empty" ELSE "unlock_busy"]
  /\ UNCHANGED <<queues, mutex, aborted, qnum, cnt, tasks, run>>

\* One iteration of the loop that releases every lock, and the answer.
allqempty_unlock(t) ==
  /\ pc[t] \in {"unlock_empty", "unlock_busy"}
  /\ mutex' = [mutex EXCEPT ![i[t]] = Unlocked]
  /\ i' = [i EXCEPT ![t] = IF LastQueue(t) THEN 0 ELSE @ + 1]
  /\ pc' = [pc EXCEPT ![t] = IF ~LastQueue(t) THEN @
                             ELSE IF @ = "unlock_empty" THEN "exited" ELSE "deq_home"]
  /\ UNCHANGED <<queues, allqdone, aborted, qnum, cnt, tasks, run>>

-----------------------------------------------------------------------------
\* The calling thread has left processqueue itself and joins the helpers.
kitsune_helpers_wait ==
  /\ pc[Main] = "exited"
  /\ is_parallel => \A t \in Thread : pc[t] = "exited"
  /\ pc' = [t \in Thread |-> "idle"]
  /\ UNCHANGED <<queues, mutex, allqdone, aborted, locals, tasks, run>>

ThreadStep(t) ==
  \/ lowest(t)
  \/ enqueue_trylock(t)
  \/ enqueue(t)
  \/ enqueue_full(t)
  \/ start_dequeue_lock(t)
  \/ start_dequeue(t)
  \/ dequeue_home(t)
  \/ highest(t)
  \/ dequeue_trylock(t)
  \/ dequeue(t)
  \/ dequeue_nothing(t)
  \/ callxformer(t)
  \/ deq_task_finished_lock(t)
  \/ deq_task_finished(t)
  \/ allqempty_flag(t)
  \/ allqempty_scan(t)
  \/ allqempty_lock(t)
  \/ allqempty_test(t)
  \/ allqempty_unlock(t)

Step ==
  \/ \E p \in Modes : launch_helpers(p)
  \/ \E t \in Thread, x \in Task : addtoqueue(t, x)
  \/ finish
  \/ \E t \in Thread : ThreadStep(t)
  \/ kitsune_helpers_wait

\* The program has made its last traversal, or the process has aborted.
Stopped == aborted \/ (pc[Main] = "idle" /\ traversals = MaxTraversals)

Next == \/ ~aborted /\ Step
        \/ Stopped /\ UNCHANGED vars

Spec == Init /\ [][Next]_vars

-----------------------------------------------------------------------------
(* Safety *)

\* A thread leaves processqueue only when every task of the traversal has
\* run, provided that the traversal began with allqdone clear: what the
\* inflight counters, thread_started and allqempty's locks are for.
LeaveOnlyWhenDone ==
  \A t \in Thread : pc[t] = "exited" /\ ~stale => made = finished

\* The comment on allqempty ("1 - all empty. 0 - elements remain.") without the
\* proviso: in every traversal of the process, a thread that leaves because
\* allqempty answered 1 leaves no task behind.
AllqemptySaysAllEmpty ==
  \A t \in Thread : pc[t] = "exited" => made = finished

\* Where a task is: in the hands of a thread, or at a position of a queue.
Places(x) == {<<"arg", t>> : t \in {u \in Thread : arg[u] = x}}
               \cup {<<"run", t>> : t \in {u \in Thread : dqed[u] = x}}
               \cup UNION {{<<"queued", j, k>> : k \in {n \in DOMAIN items[j] : items[j][n] = x}} : j \in Used}

\* No task is lost, run twice or queued twice: until it has run, a task is in
\* exactly one place, the hands of a thread or one position of one queue.
ExactlyOnce ==
  /\ \A x \in made \ finished : Cardinality(Places(x)) = 1
  /\ \A x \in finished : \A pl \in Places(x) : pl[1] = "run" /\ pc[pl[2]] \in Finishing

\* The assert(0) of a full queue needs more than QUEUESIZE unfinished tasks,
\* even though a busy queue makes enqueue skip to a longer one.
OverflowNeedsQueueSizeTasks ==
  aborted => Cardinality(made \ finished) > QUEUESIZE

-----------------------------------------------------------------------------
(* Refinement *)

\* The calling thread is still between init and finish.
InRoots == pc[Main] = "roots" \/ (pc[Main] \in Enqueueing /\ dqed[Main] = NULL)

Pool == INSTANCE TaskPool
  WITH phase <- IF pc[Main] = "idle" THEN "idle" ELSE IF InRoots THEN "open" ELSE "closed",
       running <- [t \in Thread |-> IF pc[t] \in Finishing THEN NULL ELSE dqed[t]],
       left <- {t \in Thread : pc[t] = "exited"}

\* The queues, counters and locks implement the pool of tasks: every task is
\* run once by one thread, and threads leave, and finish returns, only when all
\* have run.  Checked where no traversal starts with allqdone set.
ImplementsTaskPool == Pool!Spec

-----------------------------------------------------------------------------
(* Liveness *)

\* The scheduler runs every thread: a thread that can take a step takes it, and
\* a running task ends.  A blocking lock whose mutex is free again and again is
\* granted in the end.  When roots are enqueued and when finish is called is up
\* to the program.
GetsLock(t) == start_dequeue_lock(t) \/ deq_task_finished_lock(t) \/ allqempty_lock(t)

Fairness ==
  /\ \A t \in Thread : /\ WF_vars(~aborted /\ ThreadStep(t))
                       /\ SF_vars(~aborted /\ GetsLock(t))
  /\ WF_vars(~aborted /\ kitsune_helpers_wait)

FairSpec == Spec /\ Fairness

\* finish has been called and every task has run.
Drained ==
  /\ pc[Main] # "idle"
  /\ ~InRoots
  /\ made = finished

\* Termination detection is complete: once there is nothing left to do, every
\* thread finds out and finish returns; nobody waits for a lock for ever.
DrainedReturns == Drained ~> pc[Main] = "idle"
=============================================================================
