--------------------------- MODULE WorkQueue_proofs ---------------------------
(***************************************************************************)
(* Termination detection in the traversal engine is sound: no thread       *)
(* leaves processqueue while a task is queued, being enqueued or running,  *)
(* for every number of threads, queue size and set of tasks, in every      *)
(* traversal that starts with allqdone clear.  No task is lost, run twice  *)
(* or queued twice, a queue overflows only when more than QUEUESIZE tasks  *)
(* are unfinished, and the engine implements the pool of module TaskPool.  *)
(***************************************************************************)
EXTENDS WorkQueue, FiniteSetTheorems, SequenceTheorems, TLAPS

Active == IF is_parallel THEN Thread ELSE {Main}
Looping == {"enq_scan", "deq_scan", "chk_scan", "chk_lock", "unlock_empty", "unlock_busy"}
Choosing == Enqueueing \cup {"deq_scan", "deq_try", "deq_take"}

\* Indices stay in the array of the queues in use.
RangeInv ==
  \A t \in Thread :
    /\ pc[t] \in Looping => i[t] \in Used
    /\ pc[t] \in Choosing => qnum[t] \in Used

\* Threads that take no part in the traversal are idle, and only the calling
\* thread visits roots.
ControlInv ==
  /\ \A t \in Thread : t \notin Active => pc[t] = "idle"
  /\ \A t \in Thread : pc[Main] = "idle" => pc[t] = "idle"
  /\ \A t \in Thread : pc[t] = "roots" => t = Main

\* Locks: a thread in a critical section holds the mutex that protects it.
HoldsItsLocks(t) ==
  /\ pc[t] \in {"enq_put", "deq_take"} => mutex[qnum[t]] = t
  /\ pc[t] \in {"start_set", "fin_dec"} => mutex[Home(t)] = t
  /\ pc[t] = "chk_lock" => \A j \in Used : j < i[t] => mutex[j] = t
  /\ pc[t] = "chk_test" => \A j \in Used : mutex[j] = t
  /\ pc[t] \in {"unlock_empty", "unlock_busy"} => \A j \in Used : i[t] <= j => mutex[j] = t

MutexInv == \A t \in Thread : HoldsItsLocks(t)

\* Hands: arg and dqed are set exactly where the code holds a task.
TaskInv ==
  \A t \in Thread :
    /\ pc[t] \in Enqueueing <=> arg[t] # NULL
    /\ dqed[t] # NULL => pc[t] \in {"task"} \cup Enqueueing \cup Finishing
    /\ pc[t] \in {"task"} \cup Finishing => dqed[t] # NULL
    /\ pc[t] \in Finishing => dqed[t] \in finished
    /\ pc[t] \in Enqueueing /\ t # Main => dqed[t] # NULL

\* The inflight counter of a thread's home queue says whether it has a task.
InflightInv ==
  \A t \in Active : inflight[Home(t)] = IF dqed[t] = NULL THEN 0 ELSE 1

\* The calling thread's queue is not started while roots may still come.
StartedInv ==
  InRoots \/ pc[Main] \in {"start_lock", "start_set"} => ~thread_started[Home(Main)]

Quiet ==
  /\ \A j \in Used : items[j] = << >>
  /\ \A t \in Thread : dqed[t] = NULL /\ pc[t] \notin {"roots"} \cup Enqueueing

\* What the flag means in a traversal that began with it clear.
QuietInv == is_parallel /\ allqdone /\ ~stale => Quiet

\* allqempty is asked in parallel traversals only.
CheckInv == \A t \in Thread : pc[t] \in Checking => is_parallel

\* What leaving means: the flag is set, or the only queue is empty.
ExitInv ==
  /\ is_parallel => \A t \in Thread : pc[t] \in {"unlock_empty", "exited"} => allqdone
  /\ ~is_parallel /\ pc[Main] = "exited" => items[0] = << >>

\* x is somewhere in the queue s.
In(x, s) == \E k \in 1 .. Len(s) : s[k] = x

\* Every unfinished task is in somebody's hands or in a queue in use ...
NotLost ==
  \A x \in made \ finished :
    \/ \E t \in Thread : arg[t] = x \/ dqed[t] = x
    \/ \E j \in Used : In(x, items[j])

\* ... and only tasks of this traversal are.
OnlyMade ==
  /\ \A t \in Thread : arg[t] \in made \cup {NULL} /\ dqed[t] \in made \cup {NULL}
  /\ \A j \in Used : \A x \in Task : In(x, items[j]) => x \in made
  /\ finished \subseteq made

IInv == /\ TypeOK /\ RangeInv /\ ControlInv /\ MutexInv /\ TaskInv /\ InflightInv
        /\ StartedInv /\ QuietInv /\ CheckInv /\ ExitInv /\ NotLost /\ OnlyMade


-----------------------------------------------------------------------------
\* What the provers need of the constants.
LEMMA Basics ==
  /\ Main \in Thread /\ Queue = Thread /\ Unlocked \notin Thread
  /\ NULL \notin Task
  /\ \A p \in Modes : p \in BOOLEAN
  /\ 0 \in Thread
  /\ QUEUESIZE \in Nat
  BY NumThreadsAssumption, QueueSizeAssumption, NullAssumption, ModesAssumption
     DEF Main, Thread, Queue, Unlocked

\* Nothing is in the empty queue.
LEMMA InEmpty == \A x : ~In(x, << >>)
  BY DEF In

\* What Append, the body of enqueue, puts in a queue.
LEMMA InAppend ==
  ASSUME NEW S, NEW s \in Seq(S), NEW y \in S
  PROVE  \A x : In(x, Append(s, y)) <=> In(x, s) \/ x = y
<1>1. /\ Len(s) \in Nat /\ Len(Append(s, y)) = Len(s) + 1
      /\ Append(s, y)[Len(s) + 1] = y
      /\ \A k \in 1 .. Len(s) : Append(s, y)[k] = s[k]
  OBVIOUS
<1>2. \A k : k \in 1 .. (Len(s) + 1) <=> k \in 1 .. Len(s) \/ k = Len(s) + 1
  BY <1>1
<1> QED BY ONLY <1>1, <1>2 DEF In

\* What Head and Tail, the body of dequeue, take from a queue.
LEMMA InTail ==
  ASSUME NEW S, NEW s \in Seq(S), s # << >>
  PROVE  \A x : In(x, s) <=> x = Head(s) \/ In(x, Tail(s))
<1>1. /\ Len(s) \in Nat \ {0} /\ Len(Tail(s)) = Len(s) - 1 /\ Head(s) = s[1]
      /\ \A k \in 1 .. (Len(s) - 1) : Tail(s)[k] = s[k + 1]
  OBVIOUS
<1>2. \A k \in 1 .. Len(s) : k = 1 \/ k - 1 \in 1 .. (Len(s) - 1)
  BY <1>1
<1>3. 1 \in 1 .. Len(s) /\ \A k \in 1 .. (Len(s) - 1) : k + 1 \in 1 .. Len(s)
  BY <1>1
<1>4. \A k \in 1 .. Len(s) : k - 1 \in 1 .. (Len(s) - 1) => Tail(s)[k - 1] = s[k]
  BY <1>1
<1> QED BY <1>1, <1>2, <1>3, <1>4 DEF In

\* The labels, one by one.
LEMMA Labels ==
  \A l \in {"idle", "roots", "task", "start_lock", "start_set", "exited",
           "enq_scan", "enq_try", "enq_put", "deq_home", "deq_scan", "deq_try", "deq_take",
           "fin_lock", "fin_dec", "chk_flag", "chk_scan", "chk_lock", "chk_test",
           "unlock_empty", "unlock_busy"} : l \in Label
  BY DEF Label, Enqueueing, Dequeueing, Finishing, Checking

\* The queues in use are a nonempty initial segment of the array, closed under
\* the wrap-around of trylock, and hold the home of every active thread.
LEMMA UsedFacts ==
  ASSUME RunOK
  PROVE  /\ NumQueues \in Nat
         /\ \A n \in Used : n \in Nat /\ n < NumQueues /\ n \in Queue
         /\ 0 \in Used
         /\ \A n \in Used : /\ n + 1 # NumQueues => n + 1 \in Used
                         /\ (n + 1) % NumQueues \in Used
         /\ \A t \in Thread : Home(t) \in Queue
         /\ \A t \in Active : Home(t) \in Used /\ t \in Thread
<1>1. NumQueues \in Nat /\ NumQueues > 0 /\ NumQueues <= NumThreads
  BY NumThreadsAssumption DEF NumQueues, RunOK
<1>2. (\A n \in Used : n \in Nat /\ n < NumQueues /\ n \in Queue) /\ 0 \in Used
  BY <1>1, NumThreadsAssumption DEF Used, Queue, Thread
<1>3. \A n \in Used : /\ n + 1 # NumQueues => n + 1 \in Used
                   /\ (n + 1) % NumQueues \in Used
  BY <1>1 DEF Used
<1>4. /\ \A t \in Thread : Home(t) \in Queue
      /\ \A t \in Active : Home(t) \in Used /\ t \in Thread
  BY NumThreadsAssumption DEF Home, Active, Used, NumQueues, RunOK, Main, Queue, Thread
<1> QED BY <1>1, <1>2, <1>3, <1>4

\* Only init changes the mode, and with it the queues in use.
LEMMA SameMode ==
  ASSUME finish \/ kitsune_helpers_wait \/ (UNCHANGED vars)
           \/ (\E t \in Thread : ThreadStep(t) \/ \E x \in Task : addtoqueue(t, x))
  PROVE  /\ is_parallel' = is_parallel /\ stale' = stale
         /\ Used' = Used /\ NumQueues' = NumQueues /\ Active' = Active
         /\ \A t \in Thread : Home(t)' = Home(t)
<1>1. ASSUME NEW t \in Thread, ThreadStep(t) PROVE is_parallel' = is_parallel /\ stale' = stale
  BY ONLY <1>1
     DEF run, ThreadStep, lowest,
         enqueue_trylock, trylock, enqueue, enqueue_full, start_dequeue_lock, lock_home,
         start_dequeue, dequeue_home, highest, dequeue_trylock, dequeue, dequeue_nothing,
         callxformer, deq_task_finished_lock, deq_task_finished, allqempty_flag,
         allqempty_scan, allqempty_lock, allqempty_test, allqempty_unlock
<1>2. ASSUME NEW t \in Thread, NEW x \in Task, addtoqueue(t, x) PROVE is_parallel' = is_parallel /\ stale' = stale
  BY ONLY <1>2 DEF addtoqueue, run
<1>3. ASSUME finish \/ kitsune_helpers_wait \/ UNCHANGED vars PROVE is_parallel' = is_parallel /\ stale' = stale
  BY ONLY <1>3 DEF finish, kitsune_helpers_wait, run, vars
<1>4. is_parallel' = is_parallel /\ stale' = stale
  BY <1>1, <1>2, <1>3
<1> QED BY <1>4 DEF Used, NumQueues, Active, Home

-----------------------------------------------------------------------------
(* One lemma per conjunct: a step keeps it. *)

\* Every step keeps the types of the queues.
LEMMA QueuesStep ==
  ASSUME TypeOK, ControlInv, TaskInv, [Step]_vars
  PROVE  QueuesOK'
<1> USE Basics DEF TypeOK, QueuesOK, queues, locals, tasks, run
<1>1. ASSUME NEW p \in Modes, launch_helpers(p) PROVE QueuesOK'
  <2> DEFINE U == IF p THEN Queue ELSE {0}
  <2>1. items' = [j \in Queue |-> IF j \in U THEN << >> ELSE items[j]]
    BY ONLY <1>1 DEF launch_helpers, init_queue
  <2>2. << >> \in Seq(Task)
    OBVIOUS
  <2> HIDE DEF U
  <2>3. \A j \in Queue : (IF j \in U THEN << >> ELSE items[j]) \in Seq(Task)
    BY <2>2
  <2>4. items' \in [Queue -> Seq(Task)]
    BY ONLY <2>1, <2>3
  <2>5. inflight' \in [Queue -> Int]
    BY <1>1 DEF launch_helpers, init_queue
  <2>7. thread_started' = [j \in Queue |-> IF j \in U THEN FALSE ELSE thread_started[j]]
    BY ONLY <1>1 DEF launch_helpers, init_queue, U
  <2>8. \A j \in Queue : (IF j \in U THEN FALSE ELSE thread_started[j]) \in BOOLEAN
    OBVIOUS
  <2>9. thread_started' \in [Queue -> BOOLEAN]
    BY ONLY <2>7, <2>8
  <2>6. mutex' \in [Queue -> Thread \cup {Unlocked}]
    BY <1>1 DEF launch_helpers, init_queue
  <2> QED BY ONLY <2>4, <2>5, <2>6, <2>9 DEF QueuesOK
<1>2. ASSUME NEW t \in Thread, NEW x \in Task, addtoqueue(t, x) PROVE QueuesOK'
  BY <1>2 DEF addtoqueue
<1>3. CASE finish
  BY <1>3 DEF finish
<1>4. CASE kitsune_helpers_wait
  BY <1>4 DEF kitsune_helpers_wait
<1>5. CASE UNCHANGED vars
  BY <1>5 DEF vars
<1>6. ASSUME NEW t \in Thread, ThreadStep(t) PROVE QueuesOK'
  <2>1. CASE lowest(t)
    BY <2>1 DEF lowest, LastQueue
  <2>2. CASE enqueue_trylock(t)
    BY <2>2 DEF enqueue_trylock, trylock
  <2>3. CASE enqueue(t)
    <3>1. arg[t] \in Task /\ qnum[t] \in Queue
      BY <2>3 DEF enqueue, TaskInv, TasksOK, ThreadsOK, Enqueueing
    <3>2. items[qnum[t]] \in Seq(Task)
      BY <3>1
    <3>3. Append(items[qnum[t]], arg[t]) \in Seq(Task)
      BY <3>1, <3>2
    <3> QED BY <2>3, <3>1, <3>3 DEF enqueue
  <2>4. CASE enqueue_full(t)
    BY <2>4 DEF enqueue_full
  <2>5. CASE start_dequeue_lock(t)
    BY <2>5 DEF start_dequeue_lock, lock_home
  <2>6. CASE start_dequeue(t)
    BY <2>6 DEF start_dequeue
  <2>7. CASE dequeue_home(t)
    BY <2>7 DEF dequeue_home
  <2>8. CASE highest(t)
    BY <2>8 DEF highest, LastQueue
  <2>9. CASE dequeue_trylock(t)
    BY <2>9 DEF dequeue_trylock, trylock
  <2>10. CASE dequeue(t)
    <3>1. qnum[t] \in Queue /\ Home(t) \in Queue
      BY UsedFacts DEF ThreadsOK
    <3>2. items[qnum[t]] \in Seq(Task) /\ items[qnum[t]] # << >>
      BY <2>10, <3>1 DEF dequeue
    <3>3. Tail(items[qnum[t]]) \in Seq(Task)
      BY <3>2
    <3>4. inflight' \in [Queue -> Int]
      BY <2>10, <3>1 DEF dequeue
    <3> QED BY <2>10, <3>1, <3>3, <3>4 DEF dequeue
  <2>11. CASE dequeue_nothing(t)
    BY <2>11 DEF dequeue_nothing
  <2>12. CASE callxformer(t)
    BY <2>12 DEF callxformer
  <2>13. CASE deq_task_finished_lock(t)
    BY <2>13 DEF deq_task_finished_lock, lock_home
  <2>14. CASE deq_task_finished(t)
    <3>1. Home(t) \in Queue
      BY UsedFacts
    <3>2. inflight' \in [Queue -> Int]
      BY <2>14, <3>1 DEF deq_task_finished
    <3> QED BY <2>14, <3>1, <3>2 DEF deq_task_finished
  <2>15. CASE allqempty_flag(t)
    BY <2>15 DEF allqempty_flag
  <2>16. CASE allqempty_scan(t)
    BY <2>16 DEF allqempty_scan, LastQueue
  <2>17. CASE allqempty_lock(t)
    BY <2>17 DEF allqempty_lock, LastQueue
  <2>18. CASE allqempty_test(t)
    BY <2>18 DEF allqempty_test
  <2>19. CASE allqempty_unlock(t)
    BY <2>19 DEF allqempty_unlock, LastQueue
  <2> QED
    BY ONLY <1>6, <2>1, <2>2, <2>3, <2>4, <2>5, <2>6, <2>7, <2>8, <2>9, <2>10,
       <2>11, <2>12, <2>13, <2>14, <2>15, <2>16, <2>17, <2>18, <2>19
    DEF ThreadStep
<1> QED BY ONLY [Step]_vars, <1>1, <1>2, <1>3, <1>4, <1>5, <1>6 DEF Step

\* Every step keeps the types of the threads' control state.
LEMMA ThreadsStep ==
  ASSUME TypeOK, RangeInv, [Step]_vars
  PROVE  ThreadsOK'
<1> USE Basics, Labels DEF TypeOK, ThreadsOK, queues, locals, tasks, run
<1>1. ASSUME NEW p \in Modes, launch_helpers(p) PROVE ThreadsOK'
  BY <1>1 DEF launch_helpers, init_queue
<1>2. ASSUME NEW t \in Thread, NEW x \in Task, addtoqueue(t, x) PROVE ThreadsOK'
  BY <1>2 DEF addtoqueue
<1>3. CASE finish
  BY <1>3 DEF finish
<1>4. CASE kitsune_helpers_wait
  BY <1>4 DEF kitsune_helpers_wait
<1>5. CASE UNCHANGED vars
  BY <1>5 DEF vars
<1>6. ASSUME NEW t \in Thread, ThreadStep(t) PROVE ThreadsOK'
  <2>1. CASE lowest(t)
    <3>1. i[t] \in Queue /\ Len(items[i[t]]) \in Nat
      <4>1. i[t] \in Used
        BY ONLY <2>1, RangeInv, t \in Thread DEF RangeInv, Looping, lowest
      <4>2. i[t] \in Queue /\ items[i[t]] \in Seq(Task)
        BY <4>1, UsedFacts DEF QueuesOK
      <4> QED BY <4>2
    <3>2. qnum' \in [Thread -> Queue] /\ cnt' \in [Thread -> Nat]
      BY <2>1, <3>1 DEF lowest
    <3>4. i' \in [Thread -> Nat]
      BY <2>1, <3>1 DEF lowest
    <3>3. pc' \in [Thread -> Label]
      BY <2>1 DEF lowest
    <3> QED BY <3>2, <3>3, <3>4
  <2>2. CASE enqueue_trylock(t)
    <3>1. qnum[t] \in Used
      BY ONLY <2>2, RangeInv, t \in Thread DEF RangeInv, Choosing, Enqueueing, enqueue_trylock, trylock
    <3>2. (qnum[t] + 1) % NumQueues \in Queue
      BY <3>1, UsedFacts
    <3> QED BY <2>2, <3>2 DEF enqueue_trylock, trylock
  <2>3. CASE enqueue(t)
    BY <2>3 DEF enqueue
  <2>4. CASE enqueue_full(t)
    BY <2>4 DEF enqueue_full
  <2>5. CASE start_dequeue_lock(t)
    BY <2>5 DEF start_dequeue_lock, lock_home
  <2>6. CASE start_dequeue(t)
    BY <2>6 DEF start_dequeue
  <2>7. CASE dequeue_home(t)
    BY <2>7, UsedFacts DEF dequeue_home
  <2>8. CASE highest(t)
    <3>1. i[t] \in Queue /\ Len(items[i[t]]) \in Nat
      <4>1. i[t] \in Used
        BY ONLY <2>8, RangeInv, t \in Thread DEF RangeInv, Looping, highest
      <4>2. i[t] \in Queue /\ items[i[t]] \in Seq(Task)
        BY <4>1, UsedFacts DEF QueuesOK
      <4> QED BY <4>2
    <3>2. qnum' \in [Thread -> Queue] /\ cnt' \in [Thread -> Nat]
      BY <2>8, <3>1 DEF highest
    <3>4. i' \in [Thread -> Nat]
      BY <2>8, <3>1 DEF highest
    <3>3. pc' \in [Thread -> Label]
      BY <2>8 DEF highest
    <3> QED BY <3>2, <3>3, <3>4
  <2>9. CASE dequeue_trylock(t)
    <3>1. qnum[t] \in Used
      BY ONLY <2>9, RangeInv, t \in Thread DEF RangeInv, Choosing, Enqueueing, dequeue_trylock, trylock
    <3>2. (qnum[t] + 1) % NumQueues \in Queue
      BY <3>1, UsedFacts
    <3> QED BY <2>9, <3>2 DEF dequeue_trylock, trylock
  <2>10. CASE dequeue(t)
    BY <2>10 DEF dequeue
  <2>11. CASE dequeue_nothing(t)
    BY <2>11 DEF dequeue_nothing
  <2>12. CASE callxformer(t)
    BY <2>12 DEF callxformer
  <2>13. CASE deq_task_finished_lock(t)
    BY <2>13 DEF deq_task_finished_lock, lock_home
  <2>14. CASE deq_task_finished(t)
    BY <2>14 DEF deq_task_finished
  <2>15. CASE allqempty_flag(t)
    BY <2>15 DEF allqempty_flag
  <2>16. CASE allqempty_scan(t)
    <3>1. i' \in [Thread -> Nat]
      BY <2>16 DEF allqempty_scan
    <3>2. pc' \in [Thread -> Label]
      BY <2>16 DEF allqempty_scan
    <3> QED BY <2>16, <3>1, <3>2 DEF allqempty_scan
  <2>17. CASE allqempty_lock(t)
    <3>1. i' \in [Thread -> Nat]
      BY <2>17 DEF allqempty_lock
    <3>2. pc' \in [Thread -> Label]
      BY <2>17 DEF allqempty_lock
    <3> QED BY <2>17, <3>1, <3>2 DEF allqempty_lock
  <2>18. CASE allqempty_test(t)
    BY <2>18 DEF allqempty_test
  <2>19. CASE allqempty_unlock(t)
    <3>1. i' \in [Thread -> Nat]
      BY <2>19 DEF allqempty_unlock
    <3>2. pc' \in [Thread -> Label]
      BY <2>19 DEF allqempty_unlock
    <3> QED BY <2>19, <3>1, <3>2 DEF allqempty_unlock
  <2> QED
    BY ONLY <1>6, <2>1, <2>2, <2>3, <2>4, <2>5, <2>6, <2>7, <2>8, <2>9, <2>10,
       <2>11, <2>12, <2>13, <2>14, <2>15, <2>16, <2>17, <2>18, <2>19
    DEF ThreadStep
<1> QED BY ONLY [Step]_vars, <1>1, <1>2, <1>3, <1>4, <1>5, <1>6 DEF Step

\* Every step keeps the types of the tasks.
LEMMA TasksStep ==
  ASSUME TypeOK, ControlInv, TaskInv, [Step]_vars
  PROVE  TasksOK'
<1> USE Basics DEF TypeOK, TasksOK, queues, locals, tasks, run
<1>1. ASSUME NEW p \in Modes, launch_helpers(p) PROVE TasksOK'
  BY <1>1 DEF launch_helpers, init_queue
<1>2. ASSUME NEW t \in Thread, NEW x \in Task, addtoqueue(t, x) PROVE TasksOK'
  BY <1>2 DEF addtoqueue
<1>3. CASE finish
  BY <1>3 DEF finish
<1>4. CASE kitsune_helpers_wait
  BY <1>4 DEF kitsune_helpers_wait
<1>5. CASE UNCHANGED vars
  BY <1>5 DEF vars
<1>6. ASSUME NEW t \in Thread, ThreadStep(t) PROVE TasksOK'
  <2>1. CASE lowest(t)
    BY <2>1 DEF lowest, LastQueue
  <2>2. CASE enqueue_trylock(t)
    BY <2>2 DEF enqueue_trylock, trylock
  <2>3. CASE enqueue(t)
    BY <2>3 DEF enqueue
  <2>4. CASE enqueue_full(t)
    BY <2>4 DEF enqueue_full
  <2>5. CASE start_dequeue_lock(t)
    BY <2>5 DEF start_dequeue_lock, lock_home
  <2>6. CASE start_dequeue(t)
    BY <2>6 DEF start_dequeue
  <2>7. CASE dequeue_home(t)
    BY <2>7 DEF dequeue_home
  <2>8. CASE highest(t)
    BY <2>8 DEF highest, LastQueue
  <2>9. CASE dequeue_trylock(t)
    BY <2>9 DEF dequeue_trylock, trylock
  <2>10. CASE dequeue(t)
    <3>1. items[qnum[t]] \in Seq(Task) /\ items[qnum[t]] # << >>
      BY <2>10 DEF dequeue, QueuesOK, ThreadsOK
    <3>2. Head(items[qnum[t]]) \in Task
      BY <3>1
    <3> QED BY <2>10, <3>2 DEF dequeue
  <2>11. CASE dequeue_nothing(t)
    BY <2>11 DEF dequeue_nothing
  <2>12. CASE callxformer(t)
    <3>1. dqed[t] \in Task
      BY <2>12 DEF callxformer, TaskInv
    <3> QED BY <2>12, <3>1 DEF callxformer
  <2>13. CASE deq_task_finished_lock(t)
    BY <2>13 DEF deq_task_finished_lock, lock_home
  <2>14. CASE deq_task_finished(t)
    BY <2>14 DEF deq_task_finished
  <2>15. CASE allqempty_flag(t)
    BY <2>15 DEF allqempty_flag
  <2>16. CASE allqempty_scan(t)
    BY <2>16 DEF allqempty_scan, LastQueue
  <2>17. CASE allqempty_lock(t)
    BY <2>17 DEF allqempty_lock, LastQueue
  <2>18. CASE allqempty_test(t)
    BY <2>18 DEF allqempty_test
  <2>19. CASE allqempty_unlock(t)
    BY <2>19 DEF allqempty_unlock, LastQueue
  <2> QED
    BY ONLY <1>6, <2>1, <2>2, <2>3, <2>4, <2>5, <2>6, <2>7, <2>8, <2>9, <2>10,
       <2>11, <2>12, <2>13, <2>14, <2>15, <2>16, <2>17, <2>18, <2>19
    DEF ThreadStep
<1> QED BY ONLY [Step]_vars, <1>1, <1>2, <1>3, <1>4, <1>5, <1>6 DEF Step

\* Every step keeps the types of the globals.
LEMMA RunStep ==
  ASSUME TypeOK, [Step]_vars
  PROVE  RunOK'
<1> USE Basics DEF TypeOK, RunOK, queues, locals, tasks, run
<1>1. ASSUME NEW p \in Modes, launch_helpers(p) PROVE RunOK'
  BY <1>1 DEF launch_helpers, init_queue
<1>2. ASSUME NEW t \in Thread, NEW x \in Task, addtoqueue(t, x) PROVE RunOK'
  BY <1>2 DEF addtoqueue
<1>3. CASE finish
  BY <1>3 DEF finish
<1>4. CASE kitsune_helpers_wait
  BY <1>4 DEF kitsune_helpers_wait
<1>5. CASE UNCHANGED vars
  BY <1>5 DEF vars
<1>6. ASSUME NEW t \in Thread, ThreadStep(t) PROVE RunOK'
  <2>1. CASE lowest(t)
    BY <2>1 DEF lowest, LastQueue
  <2>2. CASE enqueue_trylock(t)
    BY <2>2 DEF enqueue_trylock, trylock
  <2>3. CASE enqueue(t)
    BY <2>3 DEF enqueue
  <2>4. CASE enqueue_full(t)
    BY <2>4 DEF enqueue_full
  <2>5. CASE start_dequeue_lock(t)
    BY <2>5 DEF start_dequeue_lock, lock_home
  <2>6. CASE start_dequeue(t)
    BY <2>6 DEF start_dequeue
  <2>7. CASE dequeue_home(t)
    BY <2>7 DEF dequeue_home
  <2>8. CASE highest(t)
    BY <2>8 DEF highest, LastQueue
  <2>9. CASE dequeue_trylock(t)
    BY <2>9 DEF dequeue_trylock, trylock
  <2>10. CASE dequeue(t)
    BY <2>10 DEF dequeue
  <2>11. CASE dequeue_nothing(t)
    BY <2>11 DEF dequeue_nothing
  <2>12. CASE callxformer(t)
    BY <2>12 DEF callxformer
  <2>13. CASE deq_task_finished_lock(t)
    BY <2>13 DEF deq_task_finished_lock, lock_home
  <2>14. CASE deq_task_finished(t)
    BY <2>14 DEF deq_task_finished
  <2>15. CASE allqempty_flag(t)
    BY <2>15 DEF allqempty_flag
  <2>16. CASE allqempty_scan(t)
    BY <2>16 DEF allqempty_scan, LastQueue
  <2>17. CASE allqempty_lock(t)
    BY <2>17 DEF allqempty_lock, LastQueue
  <2>18. CASE allqempty_test(t)
    BY <2>18 DEF allqempty_test
  <2>19. CASE allqempty_unlock(t)
    BY <2>19 DEF allqempty_unlock, LastQueue
  <2> QED
    BY ONLY <1>6, <2>1, <2>2, <2>3, <2>4, <2>5, <2>6, <2>7, <2>8, <2>9, <2>10,
       <2>11, <2>12, <2>13, <2>14, <2>15, <2>16, <2>17, <2>18, <2>19
    DEF ThreadStep
<1> QED BY ONLY [Step]_vars, <1>1, <1>2, <1>3, <1>4, <1>5, <1>6 DEF Step

\* Every step keeps the indices in range.
LEMMA RangeStep ==
  ASSUME TypeOK, ControlInv, RangeInv, [Step]_vars
  PROVE  RangeInv'
<1> USE Basics DEF TypeOK, ThreadsOK, RangeInv, Looping, Choosing, Enqueueing, queues, locals, tasks, run
<1> USE UsedFacts
<1>1. ASSUME NEW p \in Modes, launch_helpers(p) PROVE RangeInv'
  BY <1>1 DEF launch_helpers, init_queue
<1>2. ASSUME NEW t \in Thread, NEW x \in Task, addtoqueue(t, x) PROVE RangeInv'
  BY ZenonT(30), <1>2, SameMode DEF addtoqueue
<1>3. CASE finish
  BY <1>3, SameMode DEF finish
<1>4. CASE kitsune_helpers_wait
  BY <1>4, SameMode DEF kitsune_helpers_wait
<1>5. CASE UNCHANGED vars
  BY <1>5, SameMode DEF vars
<1>6. ASSUME NEW t \in Thread, ThreadStep(t) PROVE RangeInv'
  <2> USE <1>6
  <2>1. CASE lowest(t)
    <3>1. i[t] \in Used /\ qnum[t] \in Used
      BY <2>1 DEF lowest
    <3>2. /\ qnum'[t] \in Used
          /\ pc'[t] \in {"enq_scan", "enq_try"}
          /\ pc'[t] = "enq_scan" => i'[t] \in Used
      BY <2>1, <3>1 DEF lowest, LastQueue
    <3>3. \A u \in Thread : u # t => pc'[u] = pc[u] /\ i'[u] = i[u] /\ qnum'[u] = qnum[u]
      BY <2>1 DEF lowest
    <3>4. Used' = Used
      BY <1>6, SameMode
    <3> QED BY <3>2, <3>3, <3>4
  <2>2. CASE enqueue_trylock(t)
    BY <2>2, SameMode DEF enqueue_trylock, trylock
  <2>3. CASE enqueue(t)
    BY <2>3, SameMode DEF enqueue
  <2>4. CASE enqueue_full(t)
    BY <2>4, SameMode DEF enqueue_full
  <2>5. CASE start_dequeue_lock(t)
    BY <2>5, SameMode DEF start_dequeue_lock, lock_home
  <2>6. CASE start_dequeue(t)
    BY <2>6, SameMode DEF start_dequeue
  <2>7. CASE dequeue_home(t)
    <3>1. t \in Active
      BY <2>7 DEF dequeue_home, ControlInv
    <3>2. Home(t) \in Used
      BY <3>1
    <3> QED BY <2>7, <3>2, SameMode DEF dequeue_home
  <2>8. CASE highest(t)
    <3>1. i[t] \in Used /\ qnum[t] \in Used
      BY <2>8 DEF highest
    <3>2. /\ qnum'[t] \in Used
          /\ pc'[t] \in {"deq_scan", "deq_try"}
          /\ pc'[t] = "deq_scan" => i'[t] \in Used
      BY <2>8, <3>1 DEF highest, LastQueue
    <3>3. \A u \in Thread : u # t => pc'[u] = pc[u] /\ i'[u] = i[u] /\ qnum'[u] = qnum[u]
      BY <2>8 DEF highest
    <3>4. Used' = Used
      BY <1>6, SameMode
    <3> QED BY <3>2, <3>3, <3>4
  <2>9. CASE dequeue_trylock(t)
    BY <2>9, SameMode DEF dequeue_trylock, trylock
  <2>10. CASE dequeue(t)
    BY <2>10, SameMode DEF dequeue
  <2>11. CASE dequeue_nothing(t)
    BY <2>11, SameMode DEF dequeue_nothing
  <2>12. CASE callxformer(t)
    BY <2>12, SameMode DEF callxformer
  <2>13. CASE deq_task_finished_lock(t)
    BY <2>13, SameMode DEF deq_task_finished_lock, lock_home
  <2>14. CASE deq_task_finished(t)
    BY <2>14, SameMode DEF deq_task_finished
  <2>15. CASE allqempty_flag(t)
    BY <2>15, SameMode DEF allqempty_flag
  <2>16. CASE allqempty_scan(t)
    BY <2>16, SameMode DEF allqempty_scan, LastQueue
  <2>17. CASE allqempty_lock(t)
    BY <2>17, SameMode DEF allqempty_lock, LastQueue
  <2>18. CASE allqempty_test(t)
    BY <2>18, SameMode DEF allqempty_test
  <2>19. CASE allqempty_unlock(t)
    BY <2>19, SameMode DEF allqempty_unlock, LastQueue
  <2> QED
    BY ONLY <1>6, <2>1, <2>2, <2>3, <2>4, <2>5, <2>6, <2>7, <2>8, <2>9, <2>10,
       <2>11, <2>12, <2>13, <2>14, <2>15, <2>16, <2>17, <2>18, <2>19
    DEF ThreadStep
<1> QED BY ONLY [Step]_vars, <1>1, <1>2, <1>3, <1>4, <1>5, <1>6 DEF Step

\* Threads that take no part stay idle, and only the calling thread visits roots.
LEMMA ControlStep ==
  ASSUME TypeOK, TaskInv, ControlInv, [Step]_vars
  PROVE  ControlInv'
<1> USE Basics DEF TypeOK, RunOK, ThreadsOK, ControlInv, Active, queues, locals, tasks, run
<1>1. ASSUME NEW p \in Modes, launch_helpers(p) PROVE ControlInv'
  BY <1>1 DEF launch_helpers, init_queue
<1>2. ASSUME NEW t \in Thread, NEW x \in Task, addtoqueue(t, x) PROVE ControlInv'
  BY <1>2 DEF addtoqueue
<1>3. CASE finish
  BY <1>3 DEF finish
<1>4. CASE kitsune_helpers_wait
  BY <1>4 DEF kitsune_helpers_wait
<1>5. CASE UNCHANGED vars
  BY <1>5 DEF vars
<1>6. ASSUME NEW t \in Thread, ThreadStep(t) PROVE ControlInv'
  <2>1. CASE lowest(t)
    BY <2>1 DEF lowest, LastQueue
  <2>2. CASE enqueue_trylock(t)
    BY <2>2 DEF enqueue_trylock, trylock
  <2>3. CASE enqueue(t)
    <3>1. dqed[t] = NULL => t = Main
      BY <2>3 DEF enqueue, TaskInv, Enqueueing
    <3> QED BY <2>3, <3>1 DEF enqueue
  <2>4. CASE enqueue_full(t)
    BY <2>4 DEF enqueue_full
  <2>5. CASE start_dequeue_lock(t)
    BY <2>5 DEF start_dequeue_lock, lock_home
  <2>6. CASE start_dequeue(t)
    BY <2>6 DEF start_dequeue
  <2>7. CASE dequeue_home(t)
    BY <2>7 DEF dequeue_home
  <2>8. CASE highest(t)
    BY <2>8 DEF highest, LastQueue
  <2>9. CASE dequeue_trylock(t)
    BY <2>9 DEF dequeue_trylock, trylock
  <2>10. CASE dequeue(t)
    BY <2>10 DEF dequeue
  <2>11. CASE dequeue_nothing(t)
    BY <2>11 DEF dequeue_nothing
  <2>12. CASE callxformer(t)
    BY <2>12 DEF callxformer
  <2>13. CASE deq_task_finished_lock(t)
    BY <2>13 DEF deq_task_finished_lock, lock_home
  <2>14. CASE deq_task_finished(t)
    BY <2>14 DEF deq_task_finished
  <2>15. CASE allqempty_flag(t)
    BY <2>15 DEF allqempty_flag
  <2>16. CASE allqempty_scan(t)
    BY <2>16 DEF allqempty_scan, LastQueue
  <2>17. CASE allqempty_lock(t)
    BY <2>17 DEF allqempty_lock, LastQueue
  <2>18. CASE allqempty_test(t)
    BY <2>18 DEF allqempty_test
  <2>19. CASE allqempty_unlock(t)
    BY <2>19 DEF allqempty_unlock, LastQueue
  <2> QED
    BY ONLY <1>6, <2>1, <2>2, <2>3, <2>4, <2>5, <2>6, <2>7, <2>8, <2>9, <2>10,
       <2>11, <2>12, <2>13, <2>14, <2>15, <2>16, <2>17, <2>18, <2>19
    DEF ThreadStep
<1> QED BY ONLY [Step]_vars, <1>1, <1>2, <1>3, <1>4, <1>5, <1>6 DEF Step

\* A thread in a critical section keeps its locks whatever the others do.
LEMMA MutexStep ==
  ASSUME TypeOK, RangeInv, MutexInv, [Step]_vars
  PROVE  MutexInv'
<1> USE Basics DEF TypeOK, RunOK, ThreadsOK, MutexInv, HoldsItsLocks, queues, locals, tasks, run
<1>1. ASSUME NEW p \in Modes, launch_helpers(p) PROVE MutexInv'
  BY <1>1 DEF launch_helpers, init_queue, NumQueues, Used, Home
<1>2. ASSUME NEW t \in Thread, NEW x \in Task, addtoqueue(t, x) PROVE MutexInv'
  BY <1>2 DEF addtoqueue, NumQueues, Used, Home
<1>3. CASE finish
  BY <1>3 DEF finish, NumQueues, Used, Home
<1>4. CASE kitsune_helpers_wait
  BY <1>4 DEF kitsune_helpers_wait, NumQueues, Used, Home
<1>5. CASE UNCHANGED vars
  BY <1>5 DEF vars, NumQueues, Used, Home
<1>6. ASSUME NEW t \in Thread, ThreadStep(t) PROVE MutexInv'
  <2>1. CASE lowest(t)
    BY <2>1 DEF lowest, LastQueue, NumQueues, Used, Home
  <2>2. CASE enqueue_trylock(t)
    <3>1. CASE mutex[qnum[t]] = Unlocked
      <4>1. mutex[qnum[t]] = Unlocked /\ mutex' = [mutex EXCEPT ![qnum[t]] = t] /\ qnum[t] \in Queue
        BY <2>2, <3>1, UsedFacts DEF enqueue_trylock, trylock
      <4>2. \A u \in Thread, j \in Queue : mutex[j] = u => mutex'[j] = u
        BY <4>1 DEF QueuesOK
      <4>3. mutex'[qnum[t]] = t
        BY <4>1 DEF QueuesOK
      <4>4. \A u \in Thread : u # t => HoldsItsLocks(u)'
        BY <2>2, <3>1, <4>2, <1>6, SameMode, UsedFacts DEF enqueue_trylock, trylock
      <4>5. HoldsItsLocks(t)'
        BY <2>2, <3>1, <4>3, <1>6, SameMode DEF enqueue_trylock, trylock
      <4> QED BY <4>4, <4>5 DEF MutexInv
    <3>2. CASE mutex[qnum[t]] # Unlocked
      BY <2>2, <3>2 DEF enqueue_trylock, trylock, NumQueues, Used, Home
    <3> QED BY <3>1, <3>2
  <2>3. CASE enqueue(t)
    BY SMTT(30), <2>3 DEF enqueue, NumQueues, Used, Home
  <2>4. CASE enqueue_full(t)
    BY <2>4 DEF enqueue_full, NumQueues, Used, Home
  <2>5. CASE start_dequeue_lock(t)
    <3>1. mutex[Home(t)] = Unlocked /\ mutex' = [mutex EXCEPT ![Home(t)] = t] /\ Home(t) \in Queue
      BY <2>5, UsedFacts DEF start_dequeue_lock, lock_home
    <3>2. \A u \in Thread, j \in Queue : mutex[j] = u => mutex'[j] = u
      BY <3>1 DEF QueuesOK
    <3>3. mutex'[Home(t)] = t
      BY <3>1 DEF QueuesOK
    <3>4. \A u \in Thread : u # t => HoldsItsLocks(u)'
      BY <2>5, <3>2, <1>6, SameMode, UsedFacts DEF start_dequeue_lock, lock_home
    <3>5. HoldsItsLocks(t)'
      BY <2>5, <3>3, <1>6, SameMode DEF start_dequeue_lock, lock_home
    <3> QED BY <3>4, <3>5 DEF MutexInv
  <2>6. CASE start_dequeue(t)
    BY <2>6 DEF start_dequeue, NumQueues, Used, Home
  <2>7. CASE dequeue_home(t)
    <3>1. CASE mutex[Home(t)] = Unlocked
      <4>1. mutex[Home(t)] = Unlocked /\ mutex' = [mutex EXCEPT ![Home(t)] = t] /\ Home(t) \in Queue
        BY <2>7, <3>1, UsedFacts DEF dequeue_home
      <4>2. \A u \in Thread, j \in Queue : mutex[j] = u => mutex'[j] = u
        BY <4>1 DEF QueuesOK
      <4>3. mutex'[Home(t)] = t
        BY <4>1 DEF QueuesOK
      <4>4. \A u \in Thread : u # t => HoldsItsLocks(u)'
        BY <2>7, <3>1, <4>2, <1>6, SameMode, UsedFacts DEF dequeue_home
      <4>5. HoldsItsLocks(t)'
        BY <2>7, <3>1, <4>3, <1>6, SameMode DEF dequeue_home
      <4> QED BY <4>4, <4>5 DEF MutexInv
    <3>2. CASE mutex[Home(t)] # Unlocked
      BY <2>7, <3>2 DEF dequeue_home, NumQueues, Used, Home
    <3> QED BY <3>1, <3>2
  <2>8. CASE highest(t)
    BY <2>8 DEF highest, LastQueue, NumQueues, Used, Home
  <2>9. CASE dequeue_trylock(t)
    <3>1. CASE mutex[qnum[t]] = Unlocked
      <4>1. mutex[qnum[t]] = Unlocked /\ mutex' = [mutex EXCEPT ![qnum[t]] = t] /\ qnum[t] \in Queue
        BY <2>9, <3>1, UsedFacts DEF dequeue_trylock, trylock
      <4>2. \A u \in Thread, j \in Queue : mutex[j] = u => mutex'[j] = u
        BY <4>1 DEF QueuesOK
      <4>3. mutex'[qnum[t]] = t
        BY <4>1 DEF QueuesOK
      <4>4. \A u \in Thread : u # t => HoldsItsLocks(u)'
        BY <2>9, <3>1, <4>2, <1>6, SameMode, UsedFacts DEF dequeue_trylock, trylock
      <4>5. HoldsItsLocks(t)'
        BY <2>9, <3>1, <4>3, <1>6, SameMode DEF dequeue_trylock, trylock
      <4> QED BY <4>4, <4>5 DEF MutexInv
    <3>2. CASE mutex[qnum[t]] # Unlocked
      BY <2>9, <3>2 DEF dequeue_trylock, trylock, NumQueues, Used, Home
    <3> QED BY <3>1, <3>2
  <2>10. CASE dequeue(t)
    BY SMTT(30), <2>10 DEF dequeue, NumQueues, Used, Home
  <2>11. CASE dequeue_nothing(t)
    BY SMTT(30), <2>11 DEF dequeue_nothing, NumQueues, Used, Home
  <2>12. CASE callxformer(t)
    BY <2>12 DEF callxformer, NumQueues, Used, Home
  <2>13. CASE deq_task_finished_lock(t)
    <3>1. mutex[Home(t)] = Unlocked /\ mutex' = [mutex EXCEPT ![Home(t)] = t] /\ Home(t) \in Queue
      BY <2>13, UsedFacts DEF deq_task_finished_lock, lock_home
    <3>2. \A u \in Thread, j \in Queue : mutex[j] = u => mutex'[j] = u
      BY <3>1 DEF QueuesOK
    <3>3. mutex'[Home(t)] = t
      BY <3>1 DEF QueuesOK
    <3>4. \A u \in Thread : u # t => HoldsItsLocks(u)'
      BY <2>13, <3>2, <1>6, SameMode, UsedFacts DEF deq_task_finished_lock, lock_home
    <3>5. HoldsItsLocks(t)'
      BY <2>13, <3>3, <1>6, SameMode DEF deq_task_finished_lock, lock_home
    <3> QED BY <3>4, <3>5 DEF MutexInv
  <2>14. CASE deq_task_finished(t)
    BY <2>14 DEF deq_task_finished, NumQueues, Used, Home
  <2>15. CASE allqempty_flag(t)
    BY <2>15 DEF allqempty_flag, NumQueues, Used, Home
  <2>16. CASE allqempty_scan(t)
    BY <2>16 DEF allqempty_scan, LastQueue, NumQueues, Used, Home
  <2>17. CASE allqempty_lock(t)
    <3>1. mutex[i[t]] = Unlocked /\ mutex' = [mutex EXCEPT ![i[t]] = t] /\ i[t] \in Queue
      BY <2>17, UsedFacts DEF allqempty_lock, RangeInv, Looping
    <3>2. \A u \in Thread, j \in Queue : mutex[j] = u => mutex'[j] = u
      BY <3>1 DEF QueuesOK
    <3>3. mutex'[i[t]] = t
      BY <3>1 DEF QueuesOK
    <3>4. \A u \in Thread : u # t => HoldsItsLocks(u)'
      BY <2>17, <3>2, <1>6, SameMode, UsedFacts DEF allqempty_lock
    <3>5. \A j \in Used : j < i[t] + 1 => mutex'[j] = t
      <4>1. \A j \in Used : j \in Queue /\ (j < i[t] => mutex[j] = t)
        BY <2>17, UsedFacts DEF allqempty_lock
      <4>2. \A j \in Used : j < i[t] + 1 => j < i[t] \/ j = i[t]
        BY UsedFacts
      <4> QED BY <3>2, <3>3, <4>1, <4>2
    <3>6. LastQueue(t) => \A j \in Used : mutex'[j] = t
      BY <3>5, UsedFacts DEF LastQueue
    <3>7. /\ i'[t] = i[t] + 1
          /\ pc'[t] = IF LastQueue(t) THEN "chk_test" ELSE "chk_lock"
      BY <2>17 DEF allqempty_lock
    <3>8. HoldsItsLocks(t)'
      BY <3>5, <3>6, <3>7, <1>6, SameMode
    <3> QED BY <3>4, <3>8 DEF MutexInv
  <2>18. CASE allqempty_test(t)
    BY <2>18 DEF allqempty_test, NumQueues, Used, Home
  <2>19. CASE allqempty_unlock(t)
    <3>1. /\ i[t] \in Used /\ mutex' = [mutex EXCEPT ![i[t]] = Unlocked]
          /\ \A j \in Used : i[t] <= j => mutex[j] = t
      BY <2>19 DEF allqempty_unlock, RangeInv, Looping
    <3>2. mutex[i[t]] = t
      BY <3>1, UsedFacts
    <3>3. \A u \in Thread, j \in Queue : u # t /\ mutex[j] = u => mutex'[j] = u
      BY <3>1, <3>2 DEF QueuesOK
    <3>4. \A u \in Thread : u # t => HoldsItsLocks(u)'
      BY <2>19, <3>3, <1>6, SameMode, UsedFacts DEF allqempty_unlock
    <3>5. \A j \in Used : i[t] + 1 <= j => mutex'[j] = t
      <4>1. \A j \in Used : i[t] + 1 <= j => i[t] <= j /\ j # i[t] /\ j \in Queue
        BY UsedFacts
      <4> QED BY <3>1, <4>1 DEF QueuesOK
    <3>6. \/ i'[t] = i[t] + 1 /\ pc'[t] \in {"unlock_empty", "unlock_busy"}
          \/ pc'[t] \in {"exited", "deq_home"}
      BY <2>19 DEF allqempty_unlock
    <3>7. HoldsItsLocks(t)'
      BY <3>5, <3>6, <1>6, SameMode
    <3> QED BY <3>4, <3>7 DEF MutexInv
  <2> QED
    BY ONLY <1>6, <2>1, <2>2, <2>3, <2>4, <2>5, <2>6, <2>7, <2>8, <2>9, <2>10,
       <2>11, <2>12, <2>13, <2>14, <2>15, <2>16, <2>17, <2>18, <2>19
    DEF ThreadStep
<1> QED BY ONLY [Step]_vars, <1>1, <1>2, <1>3, <1>4, <1>5, <1>6 DEF Step

\* arg and dqed stay set exactly where a thread holds a task.
LEMMA TaskStep ==
  ASSUME TypeOK, ControlInv, TaskInv, [Step]_vars
  PROVE  TaskInv'
<1> USE Basics DEF TypeOK, TasksOK, ThreadsOK, TaskInv, Enqueueing, Finishing, queues, locals, tasks, run
<1>1. ASSUME NEW p \in Modes, launch_helpers(p) PROVE TaskInv'
  <2>1. \A t \in Thread : arg[t] = NULL /\ dqed[t] = NULL
    BY <1>1 DEF launch_helpers, ControlInv
  <2>2. \A t \in Thread : pc'[t] \in {"roots", "start_lock", "idle"}
    BY <1>1 DEF launch_helpers
  <2> QED BY <1>1, <2>1, <2>2 DEF launch_helpers
<1>2. ASSUME NEW t \in Thread, NEW x \in Task, addtoqueue(t, x) PROVE TaskInv'
  <2>1. t # Main => dqed[t] # NULL
    BY <1>2 DEF addtoqueue, ControlInv
  <2>2. x # NULL
    OBVIOUS
  <2> QED BY <1>2, <2>1, <2>2 DEF addtoqueue
<1>3. CASE finish
  BY <1>3 DEF finish
<1>4. CASE kitsune_helpers_wait
  <2>1. \A t \in Thread : pc[t] \in {"idle", "exited"}
    BY <1>4 DEF kitsune_helpers_wait, ControlInv, Active
  <2>2. \A t \in Thread : arg[t] = NULL /\ dqed[t] = NULL
    BY <2>1
  <2>3. \A t \in Thread : pc'[t] = "idle"
    BY <1>4 DEF kitsune_helpers_wait
  <2> QED BY <1>4, <2>2, <2>3 DEF kitsune_helpers_wait
<1>5. CASE UNCHANGED vars
  BY <1>5 DEF vars
<1>6. ASSUME NEW t \in Thread, ThreadStep(t) PROVE TaskInv'
  <2>1. CASE lowest(t)
    BY <2>1 DEF lowest, LastQueue
  <2>2. CASE enqueue_trylock(t)
    BY <2>2 DEF enqueue_trylock, trylock
  <2>3. CASE enqueue(t)
    BY <2>3 DEF enqueue
  <2>4. CASE enqueue_full(t)
    BY <2>4 DEF enqueue_full
  <2>5. CASE start_dequeue_lock(t)
    BY <2>5 DEF start_dequeue_lock, lock_home
  <2>6. CASE start_dequeue(t)
    BY <2>6 DEF start_dequeue
  <2>7. CASE dequeue_home(t)
    BY <2>7 DEF dequeue_home
  <2>8. CASE highest(t)
    BY <2>8 DEF highest, LastQueue
  <2>9. CASE dequeue_trylock(t)
    BY <2>9 DEF dequeue_trylock, trylock
  <2>10. CASE dequeue(t)
    <3>1. dqed'[t] # NULL
      <4>1. items[qnum[t]] \in Seq(Task) /\ items[qnum[t]] # << >>
        BY <2>10 DEF dequeue, QueuesOK
      <4>2. Head(items[qnum[t]]) \in Task
        BY <4>1
      <4> QED BY <2>10, <4>2 DEF dequeue
    <3>2. \A u \in Thread : u # t => dqed'[u] = dqed[u] /\ pc'[u] = pc[u]
      BY <2>10 DEF dequeue
    <3>3. arg' = arg /\ finished' = finished /\ pc[t] = "deq_take" /\ pc'[t] = "task"
      BY <2>10 DEF dequeue
    <3> QED BY <3>1, <3>2, <3>3
  <2>11. CASE dequeue_nothing(t)
    BY <2>11 DEF dequeue_nothing
  <2>12. CASE callxformer(t)
    BY <2>12 DEF callxformer
  <2>13. CASE deq_task_finished_lock(t)
    BY <2>13 DEF deq_task_finished_lock, lock_home
  <2>14. CASE deq_task_finished(t)
    BY <2>14 DEF deq_task_finished
  <2>15. CASE allqempty_flag(t)
    BY <2>15 DEF allqempty_flag
  <2>16. CASE allqempty_scan(t)
    BY <2>16 DEF allqempty_scan, LastQueue
  <2>17. CASE allqempty_lock(t)
    BY <2>17 DEF allqempty_lock, LastQueue
  <2>18. CASE allqempty_test(t)
    BY <2>18 DEF allqempty_test
  <2>19. CASE allqempty_unlock(t)
    BY <2>19 DEF allqempty_unlock, LastQueue
  <2> QED
    BY ONLY <1>6, <2>1, <2>2, <2>3, <2>4, <2>5, <2>6, <2>7, <2>8, <2>9, <2>10,
       <2>11, <2>12, <2>13, <2>14, <2>15, <2>16, <2>17, <2>18, <2>19
    DEF ThreadStep
<1> QED BY ONLY [Step]_vars, <1>1, <1>2, <1>3, <1>4, <1>5, <1>6 DEF Step

\* inflight keeps counting the task of its own thread, and only that.
LEMMA InflightStep ==
  ASSUME TypeOK, ControlInv, TaskInv, TaskInv', InflightInv, [Step]_vars
  PROVE  InflightInv'
<1> USE Basics DEF TypeOK, TasksOK, ThreadsOK, QueuesOK, RunOK, InflightInv, Active, Home, queues, locals, tasks, run
<1>1. ASSUME NEW p \in Modes, launch_helpers(p) PROVE InflightInv'
  <2>1. \A t \in Thread : dqed'[t] = NULL
    BY <1>1 DEF launch_helpers, ControlInv, TaskInv, Enqueueing, Finishing
  <2>2. inflight'[0] = 0 /\ (p => \A j \in Queue : inflight'[j] = 0)
    BY <1>1 DEF launch_helpers, init_queue
  <2>3. is_parallel' = p
    BY <1>1 DEF launch_helpers
  <2> QED BY <2>1, <2>2, <2>3
<1>2. ASSUME NEW t \in Thread, NEW x \in Task, addtoqueue(t, x) PROVE InflightInv'
  BY <1>2 DEF addtoqueue
<1>3. CASE finish
  BY <1>3 DEF finish
<1>4. CASE kitsune_helpers_wait
  BY <1>4 DEF kitsune_helpers_wait
<1>5. CASE UNCHANGED vars
  BY <1>5 DEF vars
<1>6. ASSUME NEW t \in Thread, ThreadStep(t) PROVE InflightInv'
  <2>1. CASE lowest(t)
    BY <2>1 DEF lowest, LastQueue
  <2>2. CASE enqueue_trylock(t)
    BY <2>2 DEF enqueue_trylock, trylock
  <2>3. CASE enqueue(t)
    BY <2>3 DEF enqueue
  <2>4. CASE enqueue_full(t)
    BY <2>4 DEF enqueue_full
  <2>5. CASE start_dequeue_lock(t)
    BY <2>5 DEF start_dequeue_lock, lock_home
  <2>6. CASE start_dequeue(t)
    BY <2>6 DEF start_dequeue
  <2>7. CASE dequeue_home(t)
    BY <2>7 DEF dequeue_home
  <2>8. CASE highest(t)
    BY <2>8 DEF highest, LastQueue
  <2>9. CASE dequeue_trylock(t)
    BY <2>9 DEF dequeue_trylock, trylock
  <2>10. CASE dequeue(t)
    <3>1. t \in Active /\ dqed[t] = NULL
      BY <2>10 DEF dequeue, ControlInv, TaskInv, Enqueueing, Finishing
    <3>2. dqed'[t] # NULL
      BY <2>10 DEF dequeue, TaskInv
    <3>3. inflight'[Home(t)] = 1
      BY <2>10, <3>1 DEF dequeue
    <3>4. \A u \in Active : u # t => dqed'[u] = dqed[u] /\ inflight'[Home(u)] = inflight[Home(u)]
      BY <2>10, <3>1 DEF dequeue
    <3>5. is_parallel' = is_parallel
      BY <2>10 DEF dequeue
    <3> QED BY ZenonT(30), <3>1, <3>2, <3>3, <3>4, <3>5
  <2>11. CASE dequeue_nothing(t)
    BY <2>11 DEF dequeue_nothing
  <2>12. CASE callxformer(t)
    BY <2>12 DEF callxformer
  <2>13. CASE deq_task_finished_lock(t)
    BY <2>13 DEF deq_task_finished_lock, lock_home
  <2>14. CASE deq_task_finished(t)
    <3>1. t \in Active /\ dqed[t] # NULL
      BY <2>14 DEF deq_task_finished, ControlInv, TaskInv, Enqueueing, Finishing
    <3>2. dqed'[t] = NULL
      BY <2>14 DEF deq_task_finished
    <3>3. inflight'[Home(t)] = 0
      BY <2>14, <3>1 DEF deq_task_finished
    <3>4. \A u \in Active : u # t => dqed'[u] = dqed[u] /\ inflight'[Home(u)] = inflight[Home(u)]
      BY <2>14, <3>1 DEF deq_task_finished
    <3>5. is_parallel' = is_parallel
      BY <2>14 DEF deq_task_finished
    <3> QED BY ZenonT(30), <3>1, <3>2, <3>3, <3>4, <3>5
  <2>15. CASE allqempty_flag(t)
    BY <2>15 DEF allqempty_flag
  <2>16. CASE allqempty_scan(t)
    BY <2>16 DEF allqempty_scan, LastQueue
  <2>17. CASE allqempty_lock(t)
    BY <2>17 DEF allqempty_lock, LastQueue
  <2>18. CASE allqempty_test(t)
    BY <2>18 DEF allqempty_test
  <2>19. CASE allqempty_unlock(t)
    BY <2>19 DEF allqempty_unlock, LastQueue
  <2> QED
    BY ONLY <1>6, <2>1, <2>2, <2>3, <2>4, <2>5, <2>6, <2>7, <2>8, <2>9, <2>10,
       <2>11, <2>12, <2>13, <2>14, <2>15, <2>16, <2>17, <2>18, <2>19
    DEF ThreadStep
<1> QED BY ONLY [Step]_vars, <1>1, <1>2, <1>3, <1>4, <1>5, <1>6 DEF Step

\* The calling thread's queue is started only after its last root.
LEMMA StartedStep ==
  ASSUME TypeOK, ControlInv, TaskInv, StartedInv, [Step]_vars
  PROVE  StartedInv'
<1> USE Basics DEF TypeOK, TasksOK, ThreadsOK, QueuesOK, RunOK, StartedInv, InRoots, Home, Enqueueing, queues, locals, tasks, run
<1>1. ASSUME NEW p \in Modes, launch_helpers(p) PROVE StartedInv'
  BY <1>1 DEF launch_helpers, init_queue
<1>2. ASSUME NEW t \in Thread, NEW x \in Task, addtoqueue(t, x) PROVE StartedInv'
  <2>1. CASE t = Main
    <3>1. pc[Main] = "roots" \/ dqed[Main] # NULL
      BY <1>2, <2>1 DEF addtoqueue, TaskInv
    <3>2. pc'[Main] = "enq_scan" /\ dqed' = dqed
      BY <1>2, <2>1 DEF addtoqueue
    <3> QED BY <1>2, <2>1, <3>1, <3>2 DEF addtoqueue
  <2>2. CASE t # Main
    BY <1>2, <2>2 DEF addtoqueue
  <2> QED BY <2>1, <2>2
<1>3. CASE finish
  BY <1>3 DEF finish
<1>4. CASE kitsune_helpers_wait
  BY <1>4 DEF kitsune_helpers_wait
<1>5. CASE UNCHANGED vars
  BY <1>5 DEF vars
<1>6. ASSUME NEW t \in Thread, ThreadStep(t) PROVE StartedInv'
  <2>1. CASE lowest(t)
    BY <2>1 DEF lowest, LastQueue
  <2>2. CASE enqueue_trylock(t)
    BY <2>2 DEF enqueue_trylock, trylock
  <2>3. CASE enqueue(t)
    BY <2>3 DEF enqueue
  <2>4. CASE enqueue_full(t)
    BY <2>4 DEF enqueue_full
  <2>5. CASE start_dequeue_lock(t)
    BY <2>5 DEF start_dequeue_lock, lock_home
  <2>6. CASE start_dequeue(t)
    <3>1. CASE t = Main
      BY <2>6, <3>1 DEF start_dequeue
    <3>2. CASE t # Main
      <4>1. is_parallel
        BY <2>6, <3>2 DEF start_dequeue, ControlInv, Active
      <4>2. thread_started'[Main] = thread_started[Main] /\ pc'[Main] = pc[Main]
        BY <2>6, <3>2, <4>1 DEF start_dequeue
      <4> QED BY <2>6, <4>1, <4>2 DEF start_dequeue
    <3> QED BY <3>1, <3>2
  <2>7. CASE dequeue_home(t)
    BY SMTT(30), <2>7 DEF dequeue_home
  <2>8. CASE highest(t)
    BY <2>8 DEF highest, LastQueue
  <2>9. CASE dequeue_trylock(t)
    BY <2>9 DEF dequeue_trylock, trylock
  <2>10. CASE dequeue(t)
    BY <2>10 DEF dequeue
  <2>11. CASE dequeue_nothing(t)
    BY <2>11 DEF dequeue_nothing
  <2>12. CASE callxformer(t)
    BY <2>12 DEF callxformer
  <2>13. CASE deq_task_finished_lock(t)
    BY <2>13 DEF deq_task_finished_lock, lock_home
  <2>14. CASE deq_task_finished(t)
    BY <2>14 DEF deq_task_finished
  <2>15. CASE allqempty_flag(t)
    BY <2>15 DEF allqempty_flag
  <2>16. CASE allqempty_scan(t)
    BY <2>16 DEF allqempty_scan, LastQueue
  <2>17. CASE allqempty_lock(t)
    BY <2>17 DEF allqempty_lock, LastQueue
  <2>18. CASE allqempty_test(t)
    BY <2>18 DEF allqempty_test
  <2>19. CASE allqempty_unlock(t)
    BY <2>19 DEF allqempty_unlock, LastQueue
  <2> QED
    BY ONLY <1>6, <2>1, <2>2, <2>3, <2>4, <2>5, <2>6, <2>7, <2>8, <2>9, <2>10,
       <2>11, <2>12, <2>13, <2>14, <2>15, <2>16, <2>17, <2>18, <2>19
    DEF ThreadStep
<1> QED BY ONLY [Step]_vars, <1>1, <1>2, <1>3, <1>4, <1>5, <1>6 DEF Step

\* Once set, the flag is right for the rest of the traversal.
LEMMA QuietStep ==
  ASSUME TypeOK, RangeInv, ControlInv, MutexInv, TaskInv, InflightInv, StartedInv, QuietInv, [Step]_vars
  PROVE  QuietInv'
<1> USE Basics DEF TypeOK, TasksOK, ThreadsOK, QueuesOK, RunOK, QuietInv, Quiet, Enqueueing, queues, locals, tasks, run
<1> USE UsedFacts
<1>1. ASSUME NEW p \in Modes, launch_helpers(p) PROVE QuietInv'
  BY <1>1 DEF launch_helpers, init_queue
<1>2. ASSUME NEW t \in Thread, NEW x \in Task, addtoqueue(t, x) PROVE QuietInv'
  <2>1. pc[t] = "roots" \/ dqed[t] # NULL
    BY <1>2 DEF addtoqueue, TaskInv
  <2>2. ~(is_parallel /\ allqdone /\ ~stale)
    BY <2>1
  <2> QED BY <1>2, <2>2, SameMode DEF addtoqueue
<1>3. CASE finish
  BY <1>3, SameMode DEF finish
<1>4. CASE kitsune_helpers_wait
  BY <1>4, SameMode DEF kitsune_helpers_wait
<1>5. CASE UNCHANGED vars
  BY <1>5, SameMode DEF vars
<1>6. ASSUME NEW t \in Thread, ThreadStep(t) PROVE QuietInv'
  <2> USE <1>6
  <2>1. CASE lowest(t)
    BY <2>1, SameMode DEF lowest, LastQueue
  <2>2. CASE enqueue_trylock(t)
    <3>1. /\ pc[t] = "enq_try" /\ items' = items /\ dqed' = dqed
          /\ \A u \in Thread : u # t => pc'[u] = pc[u]
          /\ allqdone' = allqdone
      BY ZenonT(30), <2>2 DEF enqueue_trylock, trylock
    <3>2. SUFFICES ASSUME is_parallel', allqdone', ~stale' PROVE Quiet'
      BY ONLY <3>2 DEF QuietInv
    <3>3. is_parallel' = is_parallel /\ stale' = stale /\ Used' = Used
      BY ONLY <1>6, SameMode
    <3>4. Quiet
      BY ONLY <3>1, <3>2, <3>3, QuietInv, RunOK DEF QuietInv, RunOK
    <3> QED BY ONLY <3>1, <3>3, <3>4, t \in Thread DEF Quiet, Enqueueing
  <2>3. CASE enqueue(t)
    BY <2>3, SameMode DEF enqueue
  <2>4. CASE enqueue_full(t)
    BY <2>4, SameMode DEF enqueue_full
  <2>5. CASE start_dequeue_lock(t)
    BY <2>5, SameMode DEF start_dequeue_lock, lock_home
  <2>6. CASE start_dequeue(t)
    BY <2>6, SameMode DEF start_dequeue
  <2>7. CASE dequeue_home(t)
    <3>1. /\ pc'[t] \in {"deq_take", "deq_scan"} /\ items' = items /\ dqed' = dqed
          /\ \A u \in Thread : u # t => pc'[u] = pc[u]
          /\ allqdone' = allqdone
      BY <2>7 DEF dequeue_home
    <3>2. SUFFICES ASSUME is_parallel', allqdone', ~stale' PROVE Quiet'
      BY ONLY <3>2 DEF QuietInv
    <3>3. is_parallel' = is_parallel /\ stale' = stale /\ Used' = Used
      BY ONLY <1>6, SameMode
    <3>4. Quiet
      BY ONLY <3>1, <3>2, <3>3, QuietInv, RunOK DEF QuietInv, RunOK
    <3> QED BY ONLY <3>1, <3>3, <3>4, t \in Thread DEF Quiet, Enqueueing
  <2>8. CASE highest(t)
    BY <2>8, SameMode DEF highest, LastQueue
  <2>9. CASE dequeue_trylock(t)
    <3>1. /\ pc'[t] \in {"deq_try", "deq_take"} /\ items' = items /\ dqed' = dqed
          /\ \A u \in Thread : u # t => pc'[u] = pc[u]
          /\ allqdone' = allqdone
      BY <2>9 DEF dequeue_trylock, trylock
    <3>2. SUFFICES ASSUME is_parallel', allqdone', ~stale' PROVE Quiet'
      BY ONLY <3>2 DEF QuietInv
    <3>3. is_parallel' = is_parallel /\ stale' = stale /\ Used' = Used
      BY ONLY <1>6, SameMode
    <3>4. Quiet
      BY ONLY <3>1, <3>2, <3>3, QuietInv, RunOK DEF QuietInv, RunOK
    <3> QED BY ONLY <3>1, <3>3, <3>4, t \in Thread DEF Quiet, Enqueueing
  <2>10. CASE dequeue(t)
    <3>1. qnum[t] \in Used /\ items[qnum[t]] # << >>
      BY <2>10 DEF dequeue, RangeInv, Choosing
    <3>2. ~(is_parallel /\ allqdone /\ ~stale)
      BY <3>1
    <3> QED BY <2>10, <3>2, SameMode DEF dequeue
  <2>11. CASE dequeue_nothing(t)
    BY <2>11, SameMode DEF dequeue_nothing
  <2>12. CASE callxformer(t)
    BY <2>12, SameMode DEF callxformer
  <2>13. CASE deq_task_finished_lock(t)
    BY <2>13, SameMode DEF deq_task_finished_lock, lock_home
  <2>14. CASE deq_task_finished(t)
    BY <2>14, SameMode DEF deq_task_finished
  <2>15. CASE allqempty_flag(t)
    BY <2>15, SameMode DEF allqempty_flag
  <2>16. CASE allqempty_scan(t)
    BY <2>16, SameMode DEF allqempty_scan, LastQueue
  <2>17. CASE allqempty_lock(t)
    BY <2>17, SameMode DEF allqempty_lock, LastQueue
  <2>18. CASE allqempty_test(t)
    <3>0. /\ pc[t] = "chk_test" /\ pc'[t] \in {"unlock_empty", "unlock_busy"}
          /\ allqdone' = (allqdone \/ AllEmpty)
          /\ items' = items /\ dqed' = dqed /\ \A u \in Thread : u # t => pc'[u] = pc[u]
      BY <2>18 DEF allqempty_test
    <3>1. SUFFICES ASSUME is_parallel, AllEmpty PROVE Quiet
      BY ONLY <3>0, <3>1, QuietInv, SameMode, <1>6, TypeOK DEF QuietInv, Quiet, Enqueueing, TypeOK, ThreadsOK
    <3>2. \A u \in Thread : inflight[u] = 0 /\ items[u] = << >> /\ thread_started[u]
      BY <3>1 DEF AllEmpty, Used, NumQueues, Thread
    <3>3. \A u \in Thread : dqed[u] = NULL
      BY ONLY <3>1, <3>2, InflightInv DEF InflightInv, Active, Home
    <3>4. ~InRoots
      BY ONLY <3>1, <3>2, StartedInv, Basics DEF StartedInv, Home
    <3>5. \A u \in Thread : pc[u] \notin {"roots"} \cup Enqueueing
      BY ONLY <3>3, <3>4, TaskInv, ControlInv DEF TaskInv, ControlInv, InRoots
    <3> QED BY ONLY <3>1, <3>2, <3>3, <3>5, Basics, UsedFacts, TypeOK DEF Quiet, TypeOK
  <2>19. CASE allqempty_unlock(t)
    BY <2>19, SameMode DEF allqempty_unlock, LastQueue
  <2> QED
    BY ONLY <1>6, <2>1, <2>2, <2>3, <2>4, <2>5, <2>6, <2>7, <2>8, <2>9, <2>10,
       <2>11, <2>12, <2>13, <2>14, <2>15, <2>16, <2>17, <2>18, <2>19
    DEF ThreadStep
<1> QED BY ONLY [Step]_vars, <1>1, <1>2, <1>3, <1>4, <1>5, <1>6 DEF Step

\* Only a thread of a parallel traversal asks allqempty.
LEMMA CheckStep ==
  ASSUME TypeOK, ControlInv, CheckInv, [Step]_vars
  PROVE  CheckInv'
<1> USE Basics DEF TypeOK, ThreadsOK, RunOK, CheckInv, Checking, queues, locals, tasks, run
<1> USE UsedFacts
<1>1. ASSUME NEW p \in Modes, launch_helpers(p) PROVE CheckInv'
  BY <1>1 DEF launch_helpers, init_queue
<1>2. ASSUME NEW t \in Thread, NEW x \in Task, addtoqueue(t, x) PROVE CheckInv'
  BY <1>2, SameMode DEF addtoqueue
<1>3. CASE finish
  BY <1>3, SameMode DEF finish
<1>4. CASE kitsune_helpers_wait
  BY <1>4, SameMode DEF kitsune_helpers_wait
<1>5. CASE UNCHANGED vars
  BY <1>5, SameMode DEF vars
<1>6. ASSUME NEW t \in Thread, ThreadStep(t) PROVE CheckInv'
  <2> USE <1>6
  <2>1. CASE lowest(t)
    BY <2>1, SameMode DEF lowest, LastQueue
  <2>2. CASE enqueue_trylock(t)
    BY <2>2, SameMode DEF enqueue_trylock, trylock
  <2>3. CASE enqueue(t)
    BY <2>3, SameMode DEF enqueue
  <2>4. CASE enqueue_full(t)
    BY <2>4, SameMode DEF enqueue_full
  <2>5. CASE start_dequeue_lock(t)
    BY <2>5, SameMode DEF start_dequeue_lock, lock_home
  <2>6. CASE start_dequeue(t)
    BY <2>6, SameMode DEF start_dequeue
  <2>7. CASE dequeue_home(t)
    BY <2>7, SameMode DEF dequeue_home
  <2>8. CASE highest(t)
    BY <2>8, SameMode DEF highest, LastQueue
  <2>9. CASE dequeue_trylock(t)
    BY <2>9, SameMode DEF dequeue_trylock, trylock
  <2>10. CASE dequeue(t)
    BY <2>10, SameMode DEF dequeue
  <2>11. CASE dequeue_nothing(t)
    BY <2>11, SameMode DEF dequeue_nothing
  <2>12. CASE callxformer(t)
    BY <2>12, SameMode DEF callxformer
  <2>13. CASE deq_task_finished_lock(t)
    BY <2>13, SameMode DEF deq_task_finished_lock, lock_home
  <2>14. CASE deq_task_finished(t)
    BY <2>14, SameMode DEF deq_task_finished
  <2>15. CASE allqempty_flag(t)
    BY <2>15, SameMode DEF allqempty_flag
  <2>16. CASE allqempty_scan(t)
    BY <2>16, SameMode DEF allqempty_scan, LastQueue
  <2>17. CASE allqempty_lock(t)
    BY <2>17, SameMode DEF allqempty_lock, LastQueue
  <2>18. CASE allqempty_test(t)
    BY <2>18, SameMode DEF allqempty_test
  <2>19. CASE allqempty_unlock(t)
    BY <2>19, SameMode DEF allqempty_unlock, LastQueue
  <2> QED
    BY ONLY <1>6, <2>1, <2>2, <2>3, <2>4, <2>5, <2>6, <2>7, <2>8, <2>9, <2>10,
       <2>11, <2>12, <2>13, <2>14, <2>15, <2>16, <2>17, <2>18, <2>19
    DEF ThreadStep
<1> QED BY ONLY [Step]_vars, <1>1, <1>2, <1>3, <1>4, <1>5, <1>6 DEF Step

\* A thread leaves only with the flag set, or from an empty queue.
LEMMA ExitStep ==
  ASSUME TypeOK, RangeInv, ControlInv, TaskInv, CheckInv, ExitInv, [Step]_vars
  PROVE  ExitInv'
<1> USE Basics DEF TypeOK, ThreadsOK, QueuesOK, RunOK, ExitInv, queues, locals, tasks, run
<1> USE UsedFacts
<1>1. ASSUME NEW p \in Modes, launch_helpers(p) PROVE ExitInv'
  BY <1>1 DEF launch_helpers, init_queue
<1>2. ASSUME NEW t \in Thread, NEW x \in Task, addtoqueue(t, x) PROVE ExitInv'
  BY <1>2, SameMode DEF addtoqueue
<1>3. CASE finish
  BY <1>3, SameMode DEF finish
<1>4. CASE kitsune_helpers_wait
  BY <1>4, SameMode DEF kitsune_helpers_wait
<1>5. CASE UNCHANGED vars
  BY <1>5, SameMode DEF vars
<1>6. ASSUME NEW t \in Thread, ThreadStep(t) PROVE ExitInv'
  <2> USE <1>6
  <2>1. CASE lowest(t)
    BY <2>1, SameMode DEF lowest, LastQueue
  <2>2. CASE enqueue_trylock(t)
    <3>1. /\ pc'[t] \in {"enq_try", "enq_put"}
          /\ \A u \in Thread : u # t => pc'[u] = pc[u]
          /\ allqdone' = allqdone /\ items' = items
      BY ONLY <2>2, ThreadsOK, t \in Thread DEF enqueue_trylock, ThreadsOK, queues, trylock
    <3> QED BY ONLY <3>1, <1>6, SameMode, ExitInv, Basics DEF ExitInv
  <2>3. CASE enqueue(t)
    <3>1. ~is_parallel => t = Main
      BY <2>3 DEF enqueue, ControlInv, Active
    <3> QED BY <2>3, <3>1, SameMode DEF enqueue
  <2>4. CASE enqueue_full(t)
    BY <2>4, SameMode DEF enqueue_full
  <2>5. CASE start_dequeue_lock(t)
    BY <2>5, SameMode DEF start_dequeue_lock, lock_home
  <2>6. CASE start_dequeue(t)
    BY <2>6, SameMode DEF start_dequeue
  <2>7. CASE dequeue_home(t)
    <3>1. /\ pc'[t] \in {"deq_take", "deq_scan"}
          /\ \A u \in Thread : u # t => pc'[u] = pc[u]
          /\ allqdone' = allqdone /\ items' = items
      BY ONLY <2>7, ThreadsOK, t \in Thread DEF dequeue_home, ThreadsOK, queues
    <3> QED BY ONLY <3>1, <1>6, SameMode, ExitInv, Basics DEF ExitInv
  <2>8. CASE highest(t)
    BY <2>8, SameMode DEF highest, LastQueue
  <2>9. CASE dequeue_trylock(t)
    <3>1. /\ pc'[t] \in {"deq_try", "deq_take"}
          /\ \A u \in Thread : u # t => pc'[u] = pc[u]
          /\ allqdone' = allqdone /\ items' = items
      BY ONLY <2>9, ThreadsOK, t \in Thread DEF dequeue_trylock, ThreadsOK, queues, trylock
    <3> QED BY ONLY <3>1, <1>6, SameMode, ExitInv, Basics DEF ExitInv
  <2>10. CASE dequeue(t)
    <3>1. ~is_parallel => t = Main
      BY <2>10 DEF dequeue, ControlInv, Active
    <3> QED BY <2>10, <3>1, SameMode DEF dequeue
  <2>11. CASE dequeue_nothing(t)
    <3>1. CASE is_parallel
      BY <2>11, <3>1, SameMode DEF dequeue_nothing
    <3>2. CASE ~is_parallel
      <4>1. qnum[t] = 0
        BY <2>11, <3>2 DEF dequeue_nothing, RangeInv, Choosing, Used, NumQueues
      <4> QED BY <2>11, <3>2, <4>1, SameMode DEF dequeue_nothing
    <3> QED BY <3>1, <3>2
  <2>12. CASE callxformer(t)
    BY <2>12, SameMode DEF callxformer
  <2>13. CASE deq_task_finished_lock(t)
    BY <2>13, SameMode DEF deq_task_finished_lock, lock_home
  <2>14. CASE deq_task_finished(t)
    BY <2>14, SameMode DEF deq_task_finished
  <2>15. CASE allqempty_flag(t)
    <3>1. /\ pc'[t] = "exited" => allqdone
          /\ pc'[t] \in {"exited", "chk_scan"}
          /\ \A u \in Thread : u # t => pc'[u] = pc[u]
          /\ allqdone' = allqdone /\ items' = items
          /\ pc[t] = "chk_flag"
      BY ONLY <2>15, ThreadsOK, t \in Thread DEF allqempty_flag, ThreadsOK, queues
    <3> QED BY ONLY <3>1, <1>6, SameMode, ExitInv, Basics, CheckInv, t \in Thread DEF ExitInv, CheckInv, Checking
  <2>16. CASE allqempty_scan(t)
    BY <2>16, SameMode DEF allqempty_scan, LastQueue
  <2>17. CASE allqempty_lock(t)
    BY <2>17, SameMode DEF allqempty_lock, LastQueue
  <2>18. CASE allqempty_test(t)
    BY <2>18, SameMode DEF allqempty_test
  <2>19. CASE allqempty_unlock(t)
    <3>1. /\ pc'[t] \in {"exited", "unlock_empty"} => pc[t] = "unlock_empty"
          /\ \A u \in Thread : u # t => pc'[u] = pc[u]
          /\ allqdone' = allqdone /\ items' = items
          /\ pc[t] \in {"unlock_empty", "unlock_busy"}
      BY ONLY <2>19, ThreadsOK, t \in Thread DEF allqempty_unlock, ThreadsOK, queues
    <3> QED BY ONLY <3>1, <1>6, SameMode, ExitInv, Basics, CheckInv, t \in Thread DEF ExitInv, CheckInv, Checking
  <2> QED
    BY ONLY <1>6, <2>1, <2>2, <2>3, <2>4, <2>5, <2>6, <2>7, <2>8, <2>9, <2>10,
       <2>11, <2>12, <2>13, <2>14, <2>15, <2>16, <2>17, <2>18, <2>19
    DEF ThreadStep
<1> QED BY ONLY [Step]_vars, <1>1, <1>2, <1>3, <1>4, <1>5, <1>6 DEF Step

\* No step loses a task.
LEMMA NotLostStep ==
  ASSUME TypeOK, ControlInv, RangeInv, TaskInv, TaskInv', NotLost, [Step]_vars
  PROVE  NotLost'
<1> USE Basics DEF TypeOK, TasksOK, ThreadsOK, QueuesOK, RunOK, NotLost, queues, locals, tasks, run
<1> USE UsedFacts
<1>1. ASSUME NEW p \in Modes, launch_helpers(p) PROVE NotLost'
  BY <1>1 DEF launch_helpers, init_queue
<1>2. ASSUME NEW t \in Thread, NEW x \in Task, addtoqueue(t, x) PROVE NotLost'
  <2>1. arg[t] = NULL
    BY <1>2 DEF addtoqueue, TaskInv, Enqueueing
  <2>2. /\ items' = items /\ dqed' = dqed /\ made' = made \cup {x} /\ finished' = finished
        /\ arg'[t] = x /\ \A u \in Thread : u # t => arg'[u] = arg[u]
    BY <1>2 DEF addtoqueue
  <2>3. Used' = Used
    BY <1>2, SameMode
  <2> QED BY ONLY ZenonT(30), <2>1, <2>2, <2>3, NotLost, Basics, TypeOK DEF NotLost, TypeOK, TasksOK
<1>3. CASE finish
  BY <1>3, SameMode DEF finish
<1>4. CASE kitsune_helpers_wait
  BY <1>4, SameMode DEF kitsune_helpers_wait
<1>5. CASE UNCHANGED vars
  BY <1>5, SameMode DEF vars
<1>6. ASSUME NEW t \in Thread, ThreadStep(t) PROVE NotLost'
  <2> USE <1>6
  <2>1. CASE lowest(t)
    BY <2>1, SameMode DEF lowest, LastQueue
  <2>2. CASE enqueue_trylock(t)
    BY <2>2, SameMode DEF enqueue_trylock, trylock
  <2>3. CASE enqueue(t)
    <3> DEFINE q == qnum[t]
    <3>1. /\ q \in Used /\ q \in Queue /\ items[q] \in Seq(Task)
          /\ arg[t] \in Task
      BY <2>3 DEF enqueue, RangeInv, Choosing, Enqueueing, TaskInv
    <3>2. \A x : In(x, Append(items[q], arg[t])) <=> In(x, items[q]) \/ x = arg[t]
      BY ONLY <3>1, InAppend
    <3>3. /\ items'[q] = Append(items[q], arg[t])
          /\ \A j \in Queue : j # q => items'[j] = items[j]
          /\ \A u \in Thread : u # t => arg'[u] = arg[u]
          /\ dqed' = dqed /\ made' = made /\ finished' = finished
      BY <2>3, <3>1 DEF enqueue
    <3>4. Used' = Used
      BY ONLY <1>6, SameMode
    <3>6. \A j \in Used : j \in Queue
      BY UsedFacts
    <3>7. SUFFICES ASSUME NEW x \in made \ finished
                   PROVE  \/ \E u \in Thread : arg'[u] = x \/ dqed'[u] = x
                          \/ \E j \in Used : In(x, items'[j])
      BY ONLY <3>3, <3>4, <3>7 DEF NotLost
    <3>8. CASE \E u \in Thread : arg[u] = x \/ dqed[u] = x
      BY ONLY ZenonT(30), <3>1, <3>2, <3>3, <3>8
    <3>9. CASE \E j \in Used : In(x, items[j])
      BY ONLY <3>1, <3>2, <3>3, <3>6, <3>9, t \in Thread
    <3> QED BY ONLY <3>8, <3>9, NotLost, x \in made \ finished DEF NotLost
  <2>4. CASE enqueue_full(t)
    BY <2>4, SameMode DEF enqueue_full
  <2>5. CASE start_dequeue_lock(t)
    BY <2>5, SameMode DEF start_dequeue_lock, lock_home
  <2>6. CASE start_dequeue(t)
    BY <2>6, SameMode DEF start_dequeue
  <2>7. CASE dequeue_home(t)
    BY <2>7, SameMode DEF dequeue_home
  <2>8. CASE highest(t)
    BY <2>8, SameMode DEF highest, LastQueue
  <2>9. CASE dequeue_trylock(t)
    BY <2>9, SameMode DEF dequeue_trylock, trylock
  <2>10. CASE dequeue(t)
    <3> DEFINE q == qnum[t]
    <3>1. /\ q \in Used /\ q \in Queue /\ items[q] \in Seq(Task) /\ items[q] # << >>
      BY <2>10 DEF dequeue, RangeInv, Choosing
    <3>2. \A x : In(x, items[q]) <=> x = Head(items[q]) \/ In(x, Tail(items[q]))
      BY ONLY <3>1, InTail
    <3>3. /\ items'[q] = Tail(items[q])
          /\ \A j \in Queue : j # q => items'[j] = items[j]
          /\ \A u \in Thread : u # t => dqed'[u] = dqed[u]
          /\ dqed'[t] = Head(items[q])
          /\ arg' = arg /\ made' = made /\ finished' = finished
      BY <2>10, <3>1 DEF dequeue
    <3>4. Used' = Used
      BY ONLY <1>6, SameMode
    <3>6. \A j \in Used : j \in Queue
      BY UsedFacts
    <3>5. dqed[t] = NULL
      BY ONLY <2>10, TaskInv, t \in Thread DEF dequeue, TaskInv, Enqueueing, Finishing
    <3>7. SUFFICES ASSUME NEW x \in made \ finished
                   PROVE  \/ \E u \in Thread : arg'[u] = x \/ dqed'[u] = x
                          \/ \E j \in Used : In(x, items'[j])
      BY ONLY <3>3, <3>4, <3>7 DEF NotLost
    <3>8. CASE \E u \in Thread : arg[u] = x \/ dqed[u] = x
      <4>1. x # NULL
        BY ONLY Basics, TasksOK DEF TasksOK
      <4> QED BY ONLY <3>3, <3>5, <3>8, <4>1
    <3>9. CASE \E j \in Used : In(x, items[j])
      BY ONLY <3>1, <3>2, <3>3, <3>6, <3>9, t \in Thread
    <3> QED BY ONLY <3>8, <3>9, NotLost, x \in made \ finished DEF NotLost
  <2>11. CASE dequeue_nothing(t)
    BY <2>11, SameMode DEF dequeue_nothing
  <2>12. CASE callxformer(t)
    BY <2>12, SameMode DEF callxformer
  <2>13. CASE deq_task_finished_lock(t)
    BY <2>13, SameMode DEF deq_task_finished_lock, lock_home
  <2>14. CASE deq_task_finished(t)
    <3>1. dqed[t] \in finished
      BY ONLY <2>14, TaskInv, t \in Thread DEF deq_task_finished, TaskInv, Finishing
    <3>2. /\ items' = items /\ arg' = arg /\ made' = made /\ finished' = finished
          /\ \A u \in Thread : u # t => dqed'[u] = dqed[u]
      BY <2>14 DEF deq_task_finished
    <3>3. Used' = Used
      BY ONLY <1>6, SameMode
    <3> QED BY ONLY <3>1, <3>2, <3>3, NotLost, t \in Thread DEF NotLost
  <2>15. CASE allqempty_flag(t)
    BY <2>15, SameMode DEF allqempty_flag
  <2>16. CASE allqempty_scan(t)
    BY <2>16, SameMode DEF allqempty_scan, LastQueue
  <2>17. CASE allqempty_lock(t)
    BY <2>17, SameMode DEF allqempty_lock, LastQueue
  <2>18. CASE allqempty_test(t)
    BY <2>18, SameMode DEF allqempty_test
  <2>19. CASE allqempty_unlock(t)
    BY <2>19, SameMode DEF allqempty_unlock, LastQueue
  <2> QED
    BY ONLY <1>6, <2>1, <2>2, <2>3, <2>4, <2>5, <2>6, <2>7, <2>8, <2>9, <2>10,
       <2>11, <2>12, <2>13, <2>14, <2>15, <2>16, <2>17, <2>18, <2>19
    DEF ThreadStep
<1> QED BY ONLY [Step]_vars, <1>1, <1>2, <1>3, <1>4, <1>5, <1>6 DEF Step

\* Queues and hands hold tasks of this traversal only.
LEMMA OnlyMadeStep ==
  ASSUME TypeOK, ControlInv, RangeInv, TaskInv, OnlyMade, [Step]_vars
  PROVE  OnlyMade'
<1> USE Basics DEF TypeOK, TasksOK, ThreadsOK, QueuesOK, RunOK, OnlyMade, queues, locals, tasks, run
<1> USE UsedFacts
<1>1. ASSUME NEW p \in Modes, launch_helpers(p) PROVE OnlyMade'
  <2>1. \A t \in Thread : arg'[t] = NULL /\ dqed'[t] = NULL
    BY <1>1 DEF launch_helpers, ControlInv, TaskInv, Enqueueing, Finishing
  <2>2. \A j \in Used' : items'[j] = << >>
    BY ONLY <1>1, Basics DEF launch_helpers, init_queue, Used, NumQueues, Queue, Thread
  <2>3. made' = {} /\ finished' = {}
    BY <1>1 DEF launch_helpers
  <2> QED BY ONLY <2>1, <2>2, <2>3, InEmpty DEF OnlyMade
<1>2. ASSUME NEW t \in Thread, NEW x \in Task, addtoqueue(t, x) PROVE OnlyMade'
  <2>1. /\ items' = items /\ dqed' = dqed /\ made' = made \cup {x} /\ finished' = finished
        /\ arg'[t] = x /\ \A u \in Thread : u # t => arg'[u] = arg[u]
    BY <1>2 DEF addtoqueue
  <2>2. Used' = Used
    BY <1>2, SameMode
  <2> QED BY ONLY <2>1, <2>2, OnlyMade DEF OnlyMade
<1>3. CASE finish
  BY <1>3, SameMode DEF finish
<1>4. CASE kitsune_helpers_wait
  BY <1>4, SameMode DEF kitsune_helpers_wait
<1>5. CASE UNCHANGED vars
  BY <1>5, SameMode DEF vars
<1>6. ASSUME NEW t \in Thread, ThreadStep(t) PROVE OnlyMade'
  <2> USE <1>6
  <2>1. CASE lowest(t)
    BY <2>1, SameMode DEF lowest, LastQueue
  <2>2. CASE enqueue_trylock(t)
    BY <2>2, SameMode DEF enqueue_trylock, trylock
  <2>3. CASE enqueue(t)
    <3> DEFINE q == qnum[t]
    <3>1. /\ q \in Used /\ q \in Queue /\ items[q] \in Seq(Task)
          /\ arg[t] \in Task
      BY <2>3 DEF enqueue, RangeInv, Choosing, Enqueueing, TaskInv
    <3>2. \A x : In(x, Append(items[q], arg[t])) <=> In(x, items[q]) \/ x = arg[t]
      BY ONLY <3>1, InAppend
    <3>3. /\ items'[q] = Append(items[q], arg[t])
          /\ \A j \in Queue : j # q => items'[j] = items[j]
          /\ arg'[t] = NULL /\ \A u \in Thread : u # t => arg'[u] = arg[u]
          /\ dqed' = dqed /\ made' = made /\ finished' = finished
      BY <2>3, <3>1 DEF enqueue
    <3>4. Used' = Used
      BY ONLY <1>6, SameMode
    <3>6. \A j \in Used : j \in Queue
      BY UsedFacts
    <3>7. \A j \in Used : \A x \in Task : In(x, items'[j]) => x \in made
      <4>1. arg[t] \in Task => arg[t] \in made
        BY ONLY OnlyMade, NULL \notin Task, Basics, t \in Thread DEF OnlyMade
      <4>2. \A j \in Used : \A x \in Task : In(x, items[j]) => x \in made
        BY ONLY OnlyMade DEF OnlyMade
      <4>3. \A j \in Used : j # q => items'[j] = items[j]
        BY ONLY <3>3, <3>6
      <4>4. \A x \in Task : In(x, items'[q]) => x \in made
        BY ONLY <3>1, <3>2, <3>3, <4>1, <4>2
      <4> QED BY ONLY <4>2, <4>3, <4>4
    <3>8. \A u \in Thread : arg'[u] \in made \cup {NULL} /\ dqed'[u] \in made \cup {NULL}
      BY ONLY <3>1, <3>2, <3>3, OnlyMade, t \in Thread DEF OnlyMade
    <3> QED BY ONLY <3>3, <3>4, <3>7, <3>8, OnlyMade DEF OnlyMade
  <2>4. CASE enqueue_full(t)
    BY <2>4, SameMode DEF enqueue_full
  <2>5. CASE start_dequeue_lock(t)
    BY <2>5, SameMode DEF start_dequeue_lock, lock_home
  <2>6. CASE start_dequeue(t)
    BY <2>6, SameMode DEF start_dequeue
  <2>7. CASE dequeue_home(t)
    BY <2>7, SameMode DEF dequeue_home
  <2>8. CASE highest(t)
    BY <2>8, SameMode DEF highest, LastQueue
  <2>9. CASE dequeue_trylock(t)
    BY <2>9, SameMode DEF dequeue_trylock, trylock
  <2>10. CASE dequeue(t)
    <3> DEFINE q == qnum[t]
    <3>1. /\ q \in Used /\ q \in Queue /\ items[q] \in Seq(Task) /\ items[q] # << >>
      BY <2>10 DEF dequeue, RangeInv, Choosing
    <3>2. /\ Head(items[q]) \in Task
          /\ \A x : In(x, items[q]) <=> x = Head(items[q]) \/ In(x, Tail(items[q]))
      BY ONLY <3>1, InTail
    <3>3. /\ items'[q] = Tail(items[q])
          /\ \A j \in Queue : j # q => items'[j] = items[j]
          /\ \A u \in Thread : u # t => dqed'[u] = dqed[u]
          /\ dqed'[t] = Head(items[q])
          /\ arg' = arg /\ made' = made /\ finished' = finished
      BY <2>10, <3>1 DEF dequeue
    <3>4. Used' = Used
      BY ONLY <1>6, SameMode
    <3>6. \A j \in Used : j \in Queue
      BY UsedFacts
    <3>7. \A j \in Used : \A x \in Task : In(x, items'[j]) => x \in made
      <4>1. arg[t] \in Task => arg[t] \in made
        BY ONLY OnlyMade, NULL \notin Task, Basics, t \in Thread DEF OnlyMade
      <4>2. \A j \in Used : \A x \in Task : In(x, items[j]) => x \in made
        BY ONLY OnlyMade DEF OnlyMade
      <4>3. \A j \in Used : j # q => items'[j] = items[j]
        BY ONLY <3>3, <3>6
      <4>4. \A x \in Task : In(x, items'[q]) => x \in made
        BY ONLY <3>1, <3>2, <3>3, <4>1, <4>2
      <4> QED BY ONLY <4>2, <4>3, <4>4
    <3>8. \A u \in Thread : arg'[u] \in made \cup {NULL} /\ dqed'[u] \in made \cup {NULL}
      BY ONLY <3>1, <3>2, <3>3, OnlyMade, t \in Thread DEF OnlyMade
    <3> QED BY ONLY <3>3, <3>4, <3>7, <3>8, OnlyMade DEF OnlyMade
  <2>11. CASE dequeue_nothing(t)
    BY <2>11, SameMode DEF dequeue_nothing
  <2>12. CASE callxformer(t)
    <3>1. dqed[t] \in made
      BY <2>12 DEF callxformer, TaskInv
    <3> QED BY <2>12, <3>1, SameMode DEF callxformer
  <2>13. CASE deq_task_finished_lock(t)
    BY <2>13, SameMode DEF deq_task_finished_lock, lock_home
  <2>14. CASE deq_task_finished(t)
    BY <2>14, SameMode DEF deq_task_finished
  <2>15. CASE allqempty_flag(t)
    BY <2>15, SameMode DEF allqempty_flag
  <2>16. CASE allqempty_scan(t)
    BY <2>16, SameMode DEF allqempty_scan, LastQueue
  <2>17. CASE allqempty_lock(t)
    BY <2>17, SameMode DEF allqempty_lock, LastQueue
  <2>18. CASE allqempty_test(t)
    BY <2>18, SameMode DEF allqempty_test
  <2>19. CASE allqempty_unlock(t)
    BY <2>19, SameMode DEF allqempty_unlock, LastQueue
  <2> QED
    BY ONLY <1>6, <2>1, <2>2, <2>3, <2>4, <2>5, <2>6, <2>7, <2>8, <2>9, <2>10,
       <2>11, <2>12, <2>13, <2>14, <2>15, <2>16, <2>17, <2>18, <2>19
    DEF ThreadStep
<1> QED BY ONLY [Step]_vars, <1>1, <1>2, <1>3, <1>4, <1>5, <1>6 DEF Step

-----------------------------------------------------------------------------
(* The inductive invariant *)

\* The invariant holds before the first call of init.
LEMMA InitInv == Init => IInv
<1> SUFFICES ASSUME Init PROVE IInv
  OBVIOUS
<1> USE Basics
<1>1. QueuesOK
  <2>1. items \in [Queue -> Seq(Task)] /\ inflight \in [Queue -> Int]
    BY DEF Init
  <2>2. mutex \in [Queue -> Thread \cup {Unlocked}]
    BY DEF Init
  <2>3. thread_started \in [Queue -> BOOLEAN]
    BY DEF Init
  <2> QED BY ONLY <2>1, <2>2, <2>3 DEF QueuesOK
<1>2. ThreadsOK /\ \A t \in Thread : pc[t] = "idle"
  BY Labels DEF Init, ThreadsOK
<1>3. TasksOK /\ made = {} /\ finished = {} /\ \A t \in Thread : arg[t] = NULL /\ dqed[t] = NULL
  BY DEF Init, TasksOK
<1>4. RunOK /\ ~is_parallel /\ ~allqdone /\ \A j \in Queue : items[j] = << >> /\ inflight[j] = 0
  BY DEF Init, RunOK
<1>5. TypeOK
  BY ONLY <1>1, <1>2, <1>3, <1>4 DEF TypeOK
<1>6. RangeInv /\ MutexInv /\ CheckInv
  BY ONLY <1>2 DEF RangeInv, MutexInv, HoldsItsLocks, CheckInv, Looping, Choosing, Enqueueing, Checking
<1>7. ControlInv /\ TaskInv /\ StartedInv
  BY ONLY <1>2, <1>3, Basics
     DEF ControlInv, TaskInv, StartedInv, InRoots, Enqueueing, Finishing
<1>8. InflightInv
  BY ONLY <1>3, <1>4, Basics DEF InflightInv, Active, Home
<1>9. QuietInv /\ ExitInv
  BY ONLY <1>2, <1>4, Basics DEF QuietInv, ExitInv
<1>10. NotLost /\ OnlyMade
  <2>1. \A j \in Used : \A x \in Task : ~In(x, items[j])
    BY ONLY <1>4, UsedFacts, InEmpty
  <2> QED BY ONLY <1>3, <2>1 DEF NotLost, OnlyMade
<1> QED BY ONLY <1>5, <1>6, <1>7, <1>8, <1>9, <1>10 DEF IInv

\* Every step of every thread keeps it; the one-conjunct lemmas put together.
LEMMA Inductive == IInv /\ [Next]_vars => IInv'
<1> SUFFICES ASSUME IInv, [Next]_vars PROVE IInv'
  OBVIOUS
<1>1. [Step]_vars
  BY DEF Next
<1>2. /\ TypeOK /\ RangeInv /\ ControlInv /\ MutexInv /\ TaskInv /\ InflightInv
      /\ StartedInv /\ QuietInv /\ CheckInv /\ ExitInv /\ NotLost /\ OnlyMade
  BY DEF IInv
<1>3. TypeOK'
  BY ONLY <1>1, <1>2, QueuesStep, ThreadsStep, TasksStep, RunStep DEF TypeOK
<1>4. RangeInv' /\ ControlInv' /\ MutexInv'
  BY ONLY <1>1, <1>2, RangeStep, ControlStep, MutexStep
<1>5. TaskInv'
  BY ONLY <1>1, <1>2, TaskStep
<1>6. InflightInv' /\ StartedInv'
  BY ONLY <1>1, <1>2, <1>5, InflightStep, StartedStep
<1>7. QuietInv' /\ CheckInv' /\ ExitInv'
  BY ONLY <1>1, <1>2, QuietStep, CheckStep, ExitStep
<1>8. NotLost' /\ OnlyMade'
  BY ONLY <1>1, <1>2, <1>5, NotLostStep, OnlyMadeStep
<1> QED BY ONLY <1>3, <1>4, <1>5, <1>6, <1>7, <1>8 DEF IInv

\* Hence it holds in every reachable state.
LEMMA Invariance == Spec => []IInv
  BY InitInv, Inductive, PTL DEF Spec

\* Every reachable state is well typed: in particular qnum, which indexes the
\* array of queues in enqueue and dequeue, never leaves it, whatever the
\* unlocked scans of lowest and highest have read.
THEOREM TypeCorrect == Spec => []TypeOK
<1>1. IInv => TypeOK
  BY DEF IInv
<1> QED BY <1>1, Invariance, PTL

\* When nothing is queued and nobody holds a task, every task has run.
LEMMA QuietIsDone == TasksOK /\ Quiet /\ TaskInv /\ NotLost /\ OnlyMade => made = finished
<1> SUFFICES ASSUME TasksOK, Quiet, TaskInv, NotLost, OnlyMade PROVE made = finished
  OBVIOUS
<1>1. \A t \in Thread : arg[t] = NULL /\ dqed[t] = NULL
  BY DEF Quiet, TaskInv
<1>2. \A j \in Used : \A x : ~In(x, items[j])
  BY InEmpty DEF Quiet
<1>3. NULL \notin made
  BY Basics DEF TasksOK
<1> QED BY ONLY <1>1, <1>2, <1>3, NotLost, OnlyMade DEF NotLost, OnlyMade

\* A thread that has left in a traversal that began with the flag clear leaves a
\* quiet engine and no task behind.
ExitedDone == \A t \in Thread : pc[t] = "exited" /\ ~stale => Quiet /\ made = finished

LEMMA ExitedIsDone == IInv => ExitedDone
<1> SUFFICES ASSUME IInv, NEW t \in Thread, pc[t] = "exited", ~stale
             PROVE  Quiet /\ made = finished
  BY DEF ExitedDone
<1>1. TypeOK /\ ControlInv /\ TaskInv /\ QuietInv /\ ExitInv /\ NotLost /\ OnlyMade
  BY DEF IInv
<1>2. Quiet
  <2>1. CASE is_parallel
    BY ONLY <1>1, <2>1, pc[t] = "exited", ~stale, t \in Thread DEF QuietInv, ExitInv
  <2>2. CASE ~is_parallel
    <3>1. t = Main /\ \A u \in Thread : u # Main => pc[u] = "idle"
      BY ONLY <1>1, <2>2, pc[t] = "exited", t \in Thread DEF ControlInv, Active
    <3>2. \A u \in Thread : pc[u] \in {"idle", "exited"}
      BY ONLY <3>1, pc[t] = "exited"
    <3>3. \A u \in Thread : dqed[u] = NULL /\ pc[u] \notin {"roots"} \cup Enqueueing
      BY ONLY <1>1, <3>2 DEF TaskInv, Enqueueing, Finishing
    <3>4. \A j \in Used : items[j] = << >>
      BY ONLY <1>1, <2>2, <3>1, pc[t] = "exited" DEF ExitInv, Used, NumQueues
    <3> QED BY ONLY <3>3, <3>4 DEF Quiet
  <2> QED BY ONLY <2>1, <2>2
<1> QED BY ONLY <1>1, <1>2, QuietIsDone DEF TypeOK

\* A thread leaves processqueue only when every task of the traversal has run,
\* for any number of threads, any queue size and any set of tasks: the test
\* of allqempty and the flag it leaves behind are right in every traversal
\* that begins with the flag clear.
THEOREM LeavingIsSafe == Spec => []LeaveOnlyWhenDone
<1>1. ExitedDone => LeaveOnlyWhenDone
  BY DEF ExitedDone, LeaveOnlyWhenDone
<1> QED BY <1>1, ExitedIsDone, Invariance, PTL

-----------------------------------------------------------------------------
(* No task is lost, run twice or queued twice *)

\* The entries of a queue are different tasks.
Distinct(s) == \A k, m \in 1 .. Len(s) : s[k] = s[m] => k = m

\* No two hands hold the same task.
HandsInv ==
  \A t, u \in Thread :
    /\ arg[t] # NULL /\ arg[t] = arg[u] => t = u
    /\ dqed[t] # NULL /\ dqed[t] = dqed[u] => t = u
    /\ arg[t] # NULL => arg[t] # dqed[u]

\* A queued task is at one position of one queue and in nobody's hands.
QueuedInv ==
  \A j \in Used :
    /\ Distinct(items[j])
    /\ \A x \in Task : In(x, items[j]) =>
         /\ \A n \in Used : In(x, items[n]) => n = j
         /\ \A t \in Thread : arg[t] # x /\ dqed[t] # x

\* A task that has run is held by the thread that reports it, or by nobody.
FinishedInv ==
  \A x \in finished :
    /\ \A j \in Used : ~In(x, items[j])
    /\ \A t \in Thread : arg[t] # x /\ (dqed[t] = x => pc[t] \in Finishing)

OnceInv == HandsInv /\ QueuedInv /\ FinishedInv

\* A traversal has made finitely many tasks, and the process ends only at a full queue.
AbortInv == IsFiniteSet(made) /\ OverflowNeedsQueueSizeTasks

-----------------------------------------------------------------------------
\* Append keeps the entries of a queue distinct when the new one is not there.
LEMMA DistinctAppend ==
  ASSUME NEW S, NEW s \in Seq(S), NEW y \in S, Distinct(s), ~In(y, s)
  PROVE  Distinct(Append(s, y))
<1>1. /\ Len(s) \in Nat /\ Len(Append(s, y)) = Len(s) + 1
      /\ Append(s, y)[Len(s) + 1] = y
      /\ \A k \in 1 .. Len(s) : Append(s, y)[k] = s[k]
  OBVIOUS
<1>2. \A k : k \in 1 .. (Len(s) + 1) <=> k \in 1 .. Len(s) \/ k = Len(s) + 1
  BY <1>1
<1> QED BY ONLY <1>1, <1>2, Distinct(s), ~In(y, s) DEF In, Distinct

\* The rest of a queue of distinct tasks is distinct and lacks the first.
LEMMA DistinctTail ==
  ASSUME NEW S, NEW s \in Seq(S), s # << >>, Distinct(s)
  PROVE  Distinct(Tail(s)) /\ ~In(Head(s), Tail(s))
<1>1. /\ Len(s) \in Nat \ {0} /\ Len(Tail(s)) = Len(s) - 1 /\ Head(s) = s[1]
      /\ \A k \in 1 .. (Len(s) - 1) : Tail(s)[k] = s[k + 1]
  OBVIOUS
<1>2. 1 \in 1 .. Len(s) /\ \A k \in 1 .. (Len(s) - 1) : k + 1 \in 1 .. Len(s) /\ k + 1 # 1
  BY <1>1
<1>3. \A k, m \in 1 .. (Len(s) - 1) : k + 1 = m + 1 => k = m
  BY <1>1
<1> QED BY ONLY <1>1, <1>2, <1>3, Distinct(s) DEF In, Distinct

\* Tasks change hands in four steps of a thread only.
LEMMA HandsMove ==
  ASSUME TypeOK, NEW t \in Thread, ThreadStep(t)
  PROVE  \/ enqueue(t) \/ dequeue(t) \/ callxformer(t) \/ deq_task_finished(t)
         \/ /\ items' = items /\ arg' = arg /\ dqed' = dqed
            /\ made' = made /\ finished' = finished
            /\ \A u \in Thread : pc[u] \in Finishing => pc'[u] \in Finishing
<1> DEFINE P == /\ items' = items /\ arg' = arg /\ dqed' = dqed
                /\ made' = made /\ finished' = finished
           Q == \A u \in Thread : pc[u] \in Finishing => pc'[u] \in Finishing
<1>1. pc \in [Thread -> Label]
  BY DEF TypeOK, ThreadsOK
<1>2. CASE lowest(t)
  <2>1. P BY <1>2 DEF lowest, tasks, queues
  <2>2. Q BY <1>1, <1>2 DEF lowest, Finishing
  <2> QED BY <2>1, <2>2
<1>3. CASE enqueue_trylock(t)
  <2>1. P BY <1>3 DEF enqueue_trylock, trylock, tasks, queues
  <2>2. Q BY <1>1, <1>3 DEF enqueue_trylock, trylock, Finishing
  <2> QED BY <2>1, <2>2
<1>4. CASE enqueue_full(t)
  BY <1>4 DEF enqueue_full, tasks, queues
<1>5. CASE start_dequeue_lock(t)
  <2>1. P BY <1>5 DEF start_dequeue_lock, lock_home, tasks, queues
  <2>2. Q BY <1>1, <1>5 DEF start_dequeue_lock, lock_home, Finishing
  <2> QED BY <2>1, <2>2
<1>6. CASE start_dequeue(t)
  <2>1. P BY <1>6 DEF start_dequeue, tasks, queues
  <2>2. Q BY <1>1, <1>6 DEF start_dequeue, Finishing
  <2> QED BY <2>1, <2>2
<1>7. CASE dequeue_home(t)
  <2>1. P BY <1>7 DEF dequeue_home, tasks, queues
  <2>2. Q BY <1>1, <1>7 DEF dequeue_home, Finishing
  <2> QED BY <2>1, <2>2
<1>8. CASE highest(t)
  <2>1. P BY <1>8 DEF highest, tasks, queues
  <2>2. Q BY <1>1, <1>8 DEF highest, Finishing
  <2> QED BY <2>1, <2>2
<1>9. CASE dequeue_trylock(t)
  <2>1. P BY <1>9 DEF dequeue_trylock, trylock, tasks, queues
  <2>2. Q BY <1>1, <1>9 DEF dequeue_trylock, trylock, Finishing
  <2> QED BY <2>1, <2>2
<1>10. CASE dequeue_nothing(t)
  <2>1. P BY <1>10 DEF dequeue_nothing, tasks, queues
  <2>2. Q BY <1>1, <1>10 DEF dequeue_nothing, Finishing
  <2> QED BY <2>1, <2>2
<1>11. CASE deq_task_finished_lock(t)
  <2>1. P BY <1>11 DEF deq_task_finished_lock, lock_home, tasks, queues
  <2>2. Q BY <1>1, <1>11 DEF deq_task_finished_lock, lock_home, Finishing
  <2> QED BY <2>1, <2>2
<1>12. CASE allqempty_flag(t)
  <2>1. P BY <1>12 DEF allqempty_flag, tasks, queues
  <2>2. Q BY <1>1, <1>12 DEF allqempty_flag, Finishing
  <2> QED BY <2>1, <2>2
<1>13. CASE allqempty_scan(t)
  <2>1. P BY <1>13 DEF allqempty_scan, tasks, queues
  <2>2. Q BY <1>1, <1>13 DEF allqempty_scan, Finishing
  <2> QED BY <2>1, <2>2
<1>14. CASE allqempty_lock(t)
  <2>1. P BY <1>14 DEF allqempty_lock, tasks, queues
  <2>2. Q BY <1>1, <1>14 DEF allqempty_lock, Finishing
  <2> QED BY <2>1, <2>2
<1>15. CASE allqempty_test(t)
  <2>1. P BY <1>15 DEF allqempty_test, tasks, queues
  <2>2. Q BY <1>1, <1>15 DEF allqempty_test, Finishing
  <2> QED BY <2>1, <2>2
<1>16. CASE allqempty_unlock(t)
  <2>1. P BY <1>16 DEF allqempty_unlock, tasks, queues
  <2>2. Q BY <1>1, <1>16 DEF allqempty_unlock, Finishing
  <2> QED BY <2>1, <2>2
<1> QED
  BY ONLY ThreadStep(t), <1>2, <1>3, <1>4, <1>5, <1>6, <1>7, <1>8, <1>9, <1>10, <1>11,
     <1>12, <1>13, <1>14, <1>15, <1>16
  DEF ThreadStep

\* Every step keeps a task in one place.
LEMMA OnceStep ==
  ASSUME TypeOK, ControlInv, RangeInv, TaskInv, OnlyMade, OnceInv, [Step]_vars
  PROVE  OnceInv'
<1> USE Basics DEF OnceInv
<1>0. /\ \A t \in Thread : arg[t] \in Task \cup {NULL} /\ dqed[t] \in Task \cup {NULL}
      /\ made \subseteq Task /\ finished \subseteq Task /\ finished \subseteq made
  BY DEF TypeOK, TasksOK, OnlyMade
<1>1. ASSUME NEW p \in Modes, launch_helpers(p) PROVE OnceInv'
  <2>1. \A t \in Thread : arg'[t] = NULL /\ dqed'[t] = NULL
    BY <1>1 DEF launch_helpers, ControlInv, TaskInv, Enqueueing, Finishing
  <2>2. \A j \in Used' : items'[j] = << >>
    BY ONLY <1>1, Basics DEF launch_helpers, init_queue, Used, NumQueues, Queue, Thread
  <2>3. finished' = {}
    BY <1>1 DEF launch_helpers
  <2>4. Distinct(<< >>)
    BY DEF Distinct
  <2> QED BY ONLY <2>1, <2>2, <2>3, <2>4, InEmpty DEF OnceInv, HandsInv, QueuedInv, FinishedInv
<1>2. ASSUME NEW t \in Thread, NEW x \in Task, addtoqueue(t, x) PROVE OnceInv'
  <2>1. /\ items' = items /\ dqed' = dqed /\ finished' = finished /\ x \notin made
        /\ arg'[t] = x /\ \A u \in Thread : u # t => arg'[u] = arg[u]
    BY <1>2 DEF addtoqueue, TypeOK, TasksOK, queues
  <2>2. \A u \in Thread : pc[u] \in Finishing => pc'[u] \in Finishing
    BY <1>2 DEF addtoqueue, TypeOK, ThreadsOK, Finishing
  <2>3. Used' = Used
    BY <1>2, SameMode
  <2>4. \A u \in Thread : arg[u] # x /\ dqed[u] # x
    BY <2>1 DEF OnlyMade
  <2>5. \A j \in Used : ~In(x, items[j])
    BY <2>1 DEF OnlyMade
  <2>6. HandsInv'
    BY ONLY <2>1, <2>4, OnceInv DEF OnceInv, HandsInv
  <2>7. QueuedInv'
    BY ONLY <2>1, <2>3, <2>5, OnceInv DEF OnceInv, QueuedInv
  <2>8. FinishedInv'
    BY ONLY <1>0, <2>1, <2>2, <2>3, OnceInv DEF OnceInv, FinishedInv
  <2> QED BY ONLY <2>6, <2>7, <2>8 DEF OnceInv
<1>3. ASSUME items' = items, arg' = arg, dqed' = dqed, finished' = finished, Used' = Used,
             \A u \in Thread : pc[u] \in Finishing /\ dqed[u] # NULL => pc'[u] \in Finishing
      PROVE  OnceInv'
  <2>1. HandsInv' /\ QueuedInv'
    BY ONLY <1>3, OnceInv DEF OnceInv, HandsInv, QueuedInv
  <2>2. FinishedInv'
    BY ONLY <1>0, <1>3, OnceInv, Basics DEF OnceInv, FinishedInv
  <2> QED BY ONLY <2>1, <2>2 DEF OnceInv
<1>4. CASE finish
  <2>1. items' = items /\ arg' = arg /\ dqed' = dqed /\ finished' = finished
    BY <1>4 DEF finish, queues, tasks
  <2>2. \A u \in Thread : pc[u] \in Finishing => pc'[u] \in Finishing
    BY <1>4 DEF finish, TypeOK, ThreadsOK, Finishing
  <2> QED BY ONLY <1>3, <1>4, <2>1, <2>2, SameMode
<1>5. CASE kitsune_helpers_wait
  <2>1. items' = items /\ arg' = arg /\ dqed' = dqed /\ finished' = finished
    BY <1>5 DEF kitsune_helpers_wait, queues, tasks
  <2>2. \A u \in Thread : pc[u] \notin Finishing
    BY <1>5 DEF kitsune_helpers_wait, ControlInv, Active, Finishing, TypeOK, RunOK
  <2> QED BY ONLY <1>3, <1>5, <2>1, <2>2, SameMode
<1>6. CASE UNCHANGED vars
  <2>1. items' = items /\ arg' = arg /\ dqed' = dqed /\ finished' = finished /\ pc' = pc
    BY <1>6 DEF vars, queues, tasks
  <2> QED BY ONLY <1>3, <1>6, <2>1, SameMode
<1>7. ASSUME NEW t \in Thread, ThreadStep(t) PROVE OnceInv'
  <2>0. Used' = Used /\ \A j \in Used : j \in Queue
    BY <1>7, SameMode, UsedFacts DEF TypeOK
  <2>1. CASE enqueue(t)
    <3> DEFINE q == qnum[t]
               y == arg[t]
    <3>1. q \in Used /\ q \in Queue /\ items[q] \in Seq(Task) /\ y \in Task
      BY <2>1, <2>0 DEF enqueue, RangeInv, Choosing, Enqueueing, TaskInv, TypeOK, QueuesOK, TasksOK
    <3>2. /\ items'[q] = Append(items[q], y)
          /\ \A j \in Queue : j # q => items'[j] = items[j]
          /\ arg'[t] = NULL /\ \A u \in Thread : u # t => arg'[u] = arg[u]
          /\ dqed' = dqed /\ finished' = finished
          /\ \A u \in Thread : pc[u] \in Finishing => pc'[u] \in Finishing
      BY <2>1, <3>1 DEF enqueue, TypeOK, QueuesOK, TasksOK, ThreadsOK, Finishing
    <3> HIDE DEF q, y
    <3>3. \A j \in Used : ~In(y, items[j])
      BY ONLY OnceInv, <3>1, t \in Thread DEF OnceInv, QueuedInv, y
    <3>4. \A x : In(x, items'[q]) <=> In(x, items[q]) \/ x = y
      BY ONLY <3>1, <3>2, InAppend
    <3>5. Distinct(items'[q])
      BY ONLY <3>1, <3>2, <3>3, DistinctAppend, OnceInv DEF OnceInv, QueuedInv
    <3>6. /\ \A u \in Thread : dqed[u] # y /\ arg'[u] # y
          /\ y \notin finished
      BY ONLY <1>0, <3>1, <3>2, Basics, OnceInv, t \in Thread DEF OnceInv, HandsInv, FinishedInv, y
    <3>7. HandsInv'
      BY ONLY <3>2, OnceInv DEF OnceInv, HandsInv
    <3>8. QueuedInv'
      <4>0. SUFFICES ASSUME NEW j \in Used
                   PROVE  /\ Distinct(items'[j])
                          /\ \A x \in Task : In(x, items'[j]) =>
                               /\ \A n \in Used : In(x, items'[n]) => n = j
                               /\ \A u \in Thread : arg'[u] # x /\ dqed'[u] # x
        BY ONLY <2>0, <4>0 DEF QueuedInv
      <4>1. Distinct(items'[j])
        BY ONLY <2>0, <3>2, <3>5, OnceInv DEF OnceInv, QueuedInv
      <4>2. ASSUME NEW x \in Task, In(x, items'[j])
            PROVE  /\ \A n \in Used : In(x, items'[n]) => n = j
                   /\ \A u \in Thread : arg'[u] # x /\ dqed'[u] # x
        <5>1. CASE x = y
          <6>1. \A n \in Used : n # q => ~In(x, items'[n])
            BY ONLY <2>0, <3>2, <3>3, <5>1
          <6> QED BY ONLY <2>0, <3>2, <3>6, <4>2, <5>1, <6>1
        <5>2. CASE x # y
          <6>1. \A n \in Used : In(x, items'[n]) <=> In(x, items[n])
            BY ONLY <2>0, <3>2, <3>4, <5>2
          <6>2. \A u \in Thread : arg'[u] # x
            BY ONLY <3>2, <4>2, <6>1, Basics, OnceInv DEF OnceInv, QueuedInv
          <6> QED BY ONLY <3>2, <4>2, <6>1, <6>2, OnceInv DEF OnceInv, QueuedInv
        <5> QED BY ONLY <5>1, <5>2
      <4> QED BY ONLY <4>1, <4>2
    <3>9. FinishedInv'
      <4>1. \A j \in Used : \A x \in finished : ~In(x, items'[j])
        BY ONLY <2>0, <3>2, <3>4, <3>6, OnceInv DEF OnceInv, FinishedInv
      <4>2. \A u \in Thread : arg'[u] # NULL => arg'[u] = arg[u]
        BY ONLY <3>2
      <4> QED BY ONLY <1>0, <2>0, <3>2, <4>1, <4>2, Basics, OnceInv DEF OnceInv, FinishedInv
    <3> QED BY ONLY <3>7, <3>8, <3>9 DEF OnceInv
  <2>2. CASE dequeue(t)
    <3> DEFINE q == qnum[t]
               y == Head(items[q])
    <3>1. /\ q \in Used /\ q \in Queue /\ items[q] \in Seq(Task) /\ items[q] # << >>
          /\ dqed[t] = NULL /\ pc[t] \notin Finishing
      BY <2>2, <2>0
         DEF dequeue, RangeInv, Choosing, TaskInv, Enqueueing, Finishing, TypeOK, QueuesOK
    <3>2. /\ items'[q] = Tail(items[q])
          /\ \A j \in Queue : j # q => items'[j] = items[j]
          /\ dqed'[t] = y /\ \A u \in Thread : u # t => dqed'[u] = dqed[u]
          /\ arg' = arg /\ finished' = finished
          /\ \A u \in Thread : pc[u] \in Finishing => pc'[u] \in Finishing
      BY <2>2, <3>1 DEF dequeue, TypeOK, QueuesOK, TasksOK, ThreadsOK, Finishing
    <3>3. y \in Task /\ \A x : In(x, items[q]) <=> x = y \/ In(x, Tail(items[q]))
      BY ONLY <3>1, InTail
    <3>4. Distinct(items'[q]) /\ ~In(y, items'[q])
      BY ONLY <3>1, <3>2, DistinctTail, OnceInv DEF OnceInv, QueuedInv
    <3> HIDE DEF q, y
    <3>5. \A j \in Used : ~In(y, items'[j])
      <4>1. \A j \in Used : j # q => ~In(y, items[j])
        BY ONLY <3>1, <3>3, OnceInv DEF OnceInv, QueuedInv
      <4> QED BY ONLY <2>0, <3>2, <3>4, <4>1
    <3>6. /\ \A u \in Thread : dqed[u] # y /\ arg[u] # y
          /\ y \notin finished
      BY ONLY <3>1, <3>3, OnceInv DEF OnceInv, QueuedInv, FinishedInv
    <3>7. HandsInv'
      BY ONLY <3>2, <3>6, OnceInv DEF OnceInv, HandsInv
    <3>8. QueuedInv'
      <4>1. \A n \in Used : \A x : In(x, items'[n]) => In(x, items[n]) /\ x # y
        BY ONLY <2>0, <3>2, <3>3, <3>5
      <4>2. \A n \in Used : Distinct(items'[n])
        BY ONLY <2>0, <3>2, <3>4, OnceInv DEF OnceInv, QueuedInv
      <4> QED BY ONLY <2>0, <3>2, <4>1, <4>2, OnceInv DEF OnceInv, QueuedInv
    <3>9. FinishedInv'
      <4>1. \A j \in Used : \A x \in finished : ~In(x, items'[j])
        BY ONLY <2>0, <3>2, <3>3, OnceInv DEF OnceInv, FinishedInv
      <4> QED BY ONLY <2>0, <3>2, <3>6, <4>1, OnceInv DEF OnceInv, FinishedInv
    <3> QED BY ONLY <3>7, <3>8, <3>9 DEF OnceInv
  <2>3. CASE callxformer(t)
    <3>1. dqed[t] # NULL
      BY <2>3 DEF callxformer, TaskInv
    <3>2. /\ items' = items /\ arg' = arg /\ dqed' = dqed
          /\ finished' = finished \cup {dqed[t]}
          /\ pc'[t] \in Finishing
          /\ \A u \in Thread : pc[u] \in Finishing => pc'[u] \in Finishing
      BY <2>3 DEF callxformer, TypeOK, ThreadsOK, Finishing, queues
    <3>3. HandsInv' /\ QueuedInv'
      BY ONLY <2>0, <3>2, OnceInv DEF OnceInv, HandsInv, QueuedInv
    <3>4. FinishedInv'
      <4>1. \A j \in Used : ~In(dqed[t], items[j])
        BY ONLY <1>0, <3>1, OnceInv, t \in Thread DEF OnceInv, QueuedInv
      <4>2. \A u \in Thread : arg[u] # dqed[t] /\ (dqed[u] = dqed[t] => u = t)
        BY ONLY <1>0, <3>1, OnceInv, t \in Thread DEF OnceInv, HandsInv
      <4> QED BY ONLY <2>0, <3>2, <4>1, <4>2, OnceInv DEF OnceInv, FinishedInv
    <3> QED BY ONLY <3>3, <3>4 DEF OnceInv
  <2>4. CASE deq_task_finished(t)
    <3>1. /\ items' = items /\ arg' = arg /\ finished' = finished
          /\ dqed'[t] = NULL /\ \A u \in Thread : u # t => dqed'[u] = dqed[u]
          /\ \A u \in Thread : u # t => pc'[u] = pc[u]
      BY <2>4 DEF deq_task_finished, TypeOK, ThreadsOK, TasksOK
    <3>2. HandsInv'
      BY ONLY <3>1, OnceInv DEF OnceInv, HandsInv
    <3>3. QueuedInv'
      BY ONLY <2>0, <3>1, Basics, OnceInv DEF OnceInv, QueuedInv
    <3>4. FinishedInv'
      BY ONLY <1>0, <2>0, <3>1, Basics, OnceInv DEF OnceInv, FinishedInv
    <3> QED BY ONLY <3>2, <3>3, <3>4 DEF OnceInv
  <2> QED BY ONLY <1>3, <1>7, <2>0, <2>1, <2>2, <2>3, <2>4, TypeOK, HandsMove
<1> QED BY ONLY [Step]_vars, <1>1, <1>2, <1>4, <1>5, <1>6, <1>7 DEF Step

\* A full queue means more than QUEUESIZE unfinished tasks: those queued, and the
\* one that does not fit.
LEMMA FullQueue ==
  ASSUME TypeOK, TaskInv, RangeInv, OnlyMade, OnceInv, IsFiniteSet(made),
         NEW t \in Thread, pc[t] = "enq_put", Len(items[qnum[t]]) >= QUEUESIZE
  PROVE  Cardinality(made \ finished) > QUEUESIZE
<1> DEFINE q == qnum[t]
           U == made \ finished
           R == U \ {arg[t]}
           f == [k \in 1 .. QUEUESIZE |-> items[q][k]]
<1>1. q \in Used /\ items[q] \in Seq(Task) /\ arg[t] \in Task /\ arg[t] # NULL
  BY Basics, UsedFacts
     DEF RangeInv, Choosing, Enqueueing, TaskInv, TypeOK, QueuesOK, TasksOK
<1>2. arg[t] \in U
  BY <1>1 DEF OnlyMade, OnceInv, FinishedInv
<1>3. \A k \in 1 .. QUEUESIZE : k \in 1 .. Len(items[q]) /\ items[q][k] \in Task
  BY <1>1, Basics
<1>4. \A k \in 1 .. QUEUESIZE : In(items[q][k], items[q])
  BY ONLY <1>3 DEF In
<1> HIDE DEF q
<1>5. \A k \in 1 .. QUEUESIZE : items[q][k] \in R
  BY ONLY <1>1, <1>3, <1>4, OnlyMade, OnceInv, t \in Thread
     DEF OnlyMade, OnceInv, QueuedInv, FinishedInv
<1>6. \A k, m \in 1 .. QUEUESIZE : items[q][k] = items[q][m] => k = m
  BY ONLY <1>1, <1>3, OnceInv DEF OnceInv, QueuedInv, Distinct
<1> HIDE DEF R, U
<1>7. f \in Injection(1 .. QUEUESIZE, R)
  BY ONLY <1>5, <1>6 DEF Injection, IsInjective
<1> HIDE DEF f
<1>8. IsFiniteSet(U) /\ IsFiniteSet(R)
  BY FS_Difference, FS_RemoveElement DEF U, R
<1>9. Cardinality(1 .. QUEUESIZE) <= Cardinality(R)
  BY ONLY <1>7, <1>8, FS_Injection
<1>10. Cardinality(1 .. QUEUESIZE) = QUEUESIZE
  BY FS_Interval, QueueSizeAssumption
<1>11. Cardinality(R) = Cardinality(U) - 1 /\ Cardinality(U) \in Nat
  BY ONLY <1>2, <1>8, FS_RemoveElement, FS_CardinalityType DEF R
<1> QED BY <1>9, <1>10, <1>11, QueueSizeAssumption DEF U

\* Every step keeps the set of tasks finite, and ends the process only when it may.
LEMMA AbortStep ==
  ASSUME TypeOK, TaskInv, RangeInv, OnlyMade, OnceInv, AbortInv, [Next]_vars
  PROVE  AbortInv'
<1>1. CASE UNCHANGED vars
  BY <1>1 DEF vars, tasks, AbortInv, OverflowNeedsQueueSizeTasks
<1>2. CASE ~aborted /\ Step
  <2>1. ASSUME aborted' = aborted, IsFiniteSet(made') PROVE AbortInv'
    BY <1>2, <2>1 DEF AbortInv, OverflowNeedsQueueSizeTasks
  <2>2. ASSUME NEW p \in Modes, launch_helpers(p) PROVE AbortInv'
    BY <2>1, <2>2, FS_EmptySet DEF launch_helpers
  <2>3. ASSUME NEW t \in Thread, NEW x \in Task, addtoqueue(t, x) PROVE AbortInv'
    <3>1. IsFiniteSet(made \cup {x})
      BY FS_AddElement DEF AbortInv
    <3> QED BY <2>1, <2>3, <3>1 DEF addtoqueue
  <2>4. CASE finish
    BY <2>1, <2>4 DEF finish, tasks, AbortInv
  <2>5. CASE kitsune_helpers_wait
    BY <2>1, <2>5 DEF kitsune_helpers_wait, tasks, AbortInv
  <2>6. ASSUME NEW t \in Thread, ThreadStep(t) PROVE AbortInv'
    <3>1. CASE enqueue_full(t)
      <4>1. made' = made /\ finished' = finished /\ pc[t] = "enq_put"
            /\ Len(items[qnum[t]]) >= QUEUESIZE
        BY <3>1 DEF enqueue_full, tasks
      <4>2. Cardinality(made \ finished) > QUEUESIZE
        BY <4>1, FullQueue DEF AbortInv
      <4> QED BY <4>1, <4>2 DEF AbortInv, OverflowNeedsQueueSizeTasks
    <3>2. CASE ~enqueue_full(t)
      <4>1. aborted' = aborted /\ made' = made
        BY ONLY <2>6, <3>2
           DEF tasks, ThreadStep, lowest, enqueue_trylock, trylock, enqueue, start_dequeue_lock,
               lock_home, start_dequeue, dequeue_home, highest, dequeue_trylock, dequeue,
               dequeue_nothing, callxformer, deq_task_finished_lock, deq_task_finished,
               allqempty_flag, allqempty_scan, allqempty_lock, allqempty_test, allqempty_unlock
      <4> QED BY <2>1, <4>1 DEF AbortInv
    <3> QED BY ONLY <3>1, <3>2
  <2> QED BY ONLY <1>2, <2>2, <2>3, <2>4, <2>5, <2>6 DEF Step
<1> QED BY ONLY <1>1, <1>2, [Next]_vars DEF Next

\* Hence both hold in every reachable state.
LEMMA OnceInvariance == Spec => [](OnceInv /\ AbortInv)
<1>1. Init => OnceInv /\ AbortInv
  <2> SUFFICES ASSUME Init PROVE OnceInv /\ AbortInv
    OBVIOUS
  <2>1. TypeOK
    BY InitInv DEF IInv
  <2>2. /\ made = {} /\ finished = {} /\ ~aborted
        /\ \A t \in Thread : arg[t] = NULL /\ dqed[t] = NULL
        /\ \A j \in Queue : items[j] = << >>
    BY DEF Init
  <2>3. \A j \in Used : items[j] = << >>
    BY ONLY <2>1, <2>2, UsedFacts DEF TypeOK
  <2>4. HandsInv /\ FinishedInv /\ AbortInv
    BY ONLY <2>2, FS_EmptySet
       DEF HandsInv, FinishedInv, AbortInv, OverflowNeedsQueueSizeTasks
  <2>5. QueuedInv
    BY ONLY <2>3, InEmpty DEF QueuedInv, Distinct
  <2> QED BY ONLY <2>4, <2>5 DEF OnceInv
<1>2. IInv /\ OnceInv /\ AbortInv /\ [Next]_vars => OnceInv' /\ AbortInv'
  <2> SUFFICES ASSUME IInv, OnceInv, AbortInv, [Next]_vars PROVE OnceInv' /\ AbortInv'
    OBVIOUS
  <2>1. [Step]_vars
    BY DEF Next
  <2>2. TypeOK /\ ControlInv /\ RangeInv /\ TaskInv /\ OnlyMade
    BY DEF IInv
  <2> QED BY ONLY <2>1, <2>2, OnceInv, AbortInv, [Next]_vars, OnceStep, AbortStep
<1> QED BY <1>1, <1>2, Invariance, PTL DEF Spec

\* The process ends with assert(0) only when more than QUEUESIZE tasks are unfinished: a
\* queue is full only of different tasks that have not run, and the one that does not fit
\* is another, whatever lowest read without its lock and whichever queues trylock skipped.
THEOREM OverflowIsExplained == Spec => []OverflowNeedsQueueSizeTasks
<1>1. AbortInv => OverflowNeedsQueueSizeTasks
  BY DEF AbortInv
<1> QED BY <1>1, OnceInvariance, PTL

\* In every reachable state a task that has not run is in exactly one place, the hands of
\* one thread or one position of one queue, and one that has run is only in the hands of
\* the thread about to report it: neither the unlocked scans, the trylocks that skip to
\* another queue nor dequeuing from another thread's queue lose or double a task.
THEOREM TasksRunOnce == Spec => []ExactlyOnce
<1>1. IInv /\ OnceInv => ExactlyOnce
  <2> SUFFICES ASSUME IInv, OnceInv PROVE ExactlyOnce
    OBVIOUS
  <2>0. /\ \A t \in Thread : arg[t] \in Task \cup {NULL} /\ dqed[t] \in Task \cup {NULL}
        /\ made \subseteq Task /\ finished \subseteq Task /\ NULL \notin Task
        /\ \A j \in Used : DOMAIN items[j] = 1 .. Len(items[j])
    BY Basics, UsedFacts DEF IInv, TypeOK, TasksOK, QueuesOK
  <2>1. ASSUME NEW x \in made \ finished PROVE Cardinality(Places(x)) = 1
    <3>1. CASE \E t \in Thread : arg[t] = x
      <4>1. PICK t \in Thread : arg[t] = x
        BY <3>1
      <4>2. /\ \A u \in Thread : (arg[u] = x => u = t) /\ dqed[u] # x
            /\ \A j \in Used : ~In(x, items[j])
        BY ONLY <2>0, <4>1, OnceInv DEF OnceInv, HandsInv, QueuedInv
      <4>3. \A j \in Used : {n \in DOMAIN items[j] : items[j][n] = x} = {}
        BY ONLY <2>0, <4>2 DEF In
      <4>4. Places(x) = {<<"arg", t>>}
        BY ONLY <4>1, <4>2, <4>3 DEF Places
      <4> QED BY ONLY <4>4, FS_Singleton
    <3>2. CASE \E t \in Thread : dqed[t] = x
      <4>1. PICK t \in Thread : dqed[t] = x
        BY <3>2
      <4>2. /\ \A u \in Thread : (dqed[u] = x => u = t) /\ arg[u] # x
            /\ \A j \in Used : ~In(x, items[j])
        BY ONLY <2>0, <4>1, OnceInv DEF OnceInv, HandsInv, QueuedInv
      <4>3. \A j \in Used : {n \in DOMAIN items[j] : items[j][n] = x} = {}
        BY ONLY <2>0, <4>2 DEF In
      <4>4. Places(x) = {<<"run", t>>}
        BY ONLY <4>1, <4>2, <4>3 DEF Places
      <4> QED BY ONLY <4>4, FS_Singleton
    <3>3. CASE \E j \in Used : In(x, items[j])
      <4>1. PICK j \in Used : In(x, items[j])
        BY <3>3
      <4>2. PICK k \in 1 .. Len(items[j]) : items[j][k] = x
        BY <4>1 DEF In
      <4>3. /\ \A u \in Thread : arg[u] # x /\ dqed[u] # x
            /\ \A n \in Used : n # j => ~In(x, items[n])
            /\ \A m \in 1 .. Len(items[j]) : items[j][m] = x => m = k
        BY ONLY <2>0, <4>1, <4>2, OnceInv DEF OnceInv, QueuedInv, Distinct
      <4>4. \A n \in Used : {m \in DOMAIN items[n] : items[n][m] = x} = IF n = j THEN {k} ELSE {}
        BY ONLY <2>0, <4>2, <4>3 DEF In
      <4>5. Places(x) = {<<"queued", j, k>>}
        BY ONLY <4>3, <4>4 DEF Places
      <4> QED BY ONLY <4>5, FS_Singleton
    <3> QED BY ONLY <3>1, <3>2, <3>3, IInv, x \in made \ finished DEF IInv, NotLost
  <2>2. ASSUME NEW x \in finished, NEW pl \in Places(x)
        PROVE  pl[1] = "run" /\ pc[pl[2]] \in Finishing
    <3>1. /\ \A u \in Thread : arg[u] # x /\ (dqed[u] = x => pc[u] \in Finishing)
          /\ \A j \in Used : {n \in DOMAIN items[j] : items[j][n] = x} = {}
      BY ONLY <2>0, OnceInv, x \in finished DEF OnceInv, FinishedInv, In
    <3>2. Places(x) = {<<"run", t>> : t \in {u \in Thread : dqed[u] = x}}
      BY ONLY <3>1 DEF Places
    <3> QED BY ONLY <2>2, <3>1, <3>2
  <2> QED BY ONLY <2>1, <2>2 DEF ExactlyOnce
<1> QED BY <1>1, Invariance, OnceInvariance, PTL

-----------------------------------------------------------------------------
(* The refinement *)

\* What the pool of tasks sees of the engine.
Phase == IF pc[Main] = "idle" THEN "idle" ELSE IF InRoots THEN "open" ELSE "closed"
Running == [t \in Thread |-> IF pc[t] \in Finishing THEN NULL ELSE dqed[t]]
Left == {t \in Thread : pc[t] = "exited"}

\* A step of a thread shows when a task starts or ends, or when the thread leaves.
LEMMA VisibleSteps ==
  ASSUME TypeOK, ControlInv, TaskInv, NEW t \in Thread, ThreadStep(t)
  PROVE  \/ dequeue(t)
         \/ callxformer(t)
         \/ pc[t] # "exited" /\ pc'[t] = "exited" /\ UNCHANGED <<Phase, made, Running, finished>>
              /\ \A u \in Thread : u # t => pc'[u] = pc[u]
         \/ UNCHANGED <<Phase, made, Running, finished, Left>>
<1> DEFINE Hidden == UNCHANGED <<Phase, made, Running, finished, Left>>
           Shown == UNCHANGED <<Phase, made, Running, finished>>
<1>0. /\ pc \in [Thread -> Label] /\ dqed \in [Thread -> Task \cup {NULL}] /\ Main \in Thread
  BY Basics DEF TypeOK, ThreadsOK, TasksOK
<1>1. ASSUME NEW a \in Label, made' = made, finished' = finished, dqed' = dqed,
             pc' = [pc EXCEPT ![t] = a], pc[t] \notin {"idle", "roots"}, a \notin {"idle", "roots"},
             pc[t] \in Finishing <=> a \in Finishing,
             pc[t] \in Enqueueing <=> a \in Enqueueing
      PROVE  Shown /\ (pc[t] # "exited" /\ a # "exited" => Hidden)
             /\ \A u \in Thread : u # t => pc'[u] = pc[u]
  <2>1. Phase' = Phase
    BY ONLY <1>0, <1>1 DEF Phase, InRoots, Enqueueing
  <2>2. Running' = Running
    BY ONLY <1>0, <1>1 DEF Running
  <2>3. pc[t] # "exited" /\ a # "exited" => Left' = Left
    BY ONLY <1>0, <1>1 DEF Left
  <2> QED BY ONLY <1>0, <1>1, <2>1, <2>2, <2>3
<1>2. CASE lowest(t)
  <2> DEFINE a == IF LastQueue(t) THEN "enq_try" ELSE pc[t]
  <2>1. made' = made /\ finished' = finished /\ dqed' = dqed /\ pc' = [pc EXCEPT ![t] = a]
    BY <1>0, <1>2 DEF lowest, tasks
  <2>2. /\ a \in Label /\ a \notin {"idle", "roots", "exited"} /\ pc[t] \notin {"idle", "roots", "exited"}
        /\ pc[t] \in Finishing <=> a \in Finishing
        /\ pc[t] \in Enqueueing <=> a \in Enqueueing
    BY <1>0, <1>2, Labels DEF lowest, Finishing, Enqueueing
  <2> QED BY ONLY <1>1, <2>1, <2>2
<1>3. CASE enqueue_trylock(t)
  <2> DEFINE a == IF mutex[qnum[t]] = Unlocked THEN "enq_put" ELSE pc[t]
  <2>1. made' = made /\ finished' = finished /\ dqed' = dqed /\ pc' = [pc EXCEPT ![t] = a]
    BY <1>0, <1>3 DEF enqueue_trylock, trylock, tasks
  <2>2. /\ a \in Label /\ a \notin {"idle", "roots", "exited"} /\ pc[t] \notin {"idle", "roots", "exited"}
        /\ pc[t] \in Finishing <=> a \in Finishing
        /\ pc[t] \in Enqueueing <=> a \in Enqueueing
    BY <1>3, Labels DEF enqueue_trylock, trylock, Finishing, Enqueueing
  <2> QED BY ONLY <1>1, <2>1, <2>2
<1>4. CASE enqueue_full(t)
  BY <1>4 DEF enqueue_full, tasks, Phase, Running, Left, InRoots
<1>5. CASE start_dequeue_lock(t)
  <2> DEFINE a == "start_set"
  <2>1. made' = made /\ finished' = finished /\ dqed' = dqed /\ pc' = [pc EXCEPT ![t] = a]
    BY <1>0, <1>5 DEF start_dequeue_lock, lock_home, tasks
  <2>2. /\ a \in Label /\ a \notin {"idle", "roots", "exited"} /\ pc[t] \notin {"idle", "roots", "exited"}
        /\ pc[t] \in Finishing <=> a \in Finishing
        /\ pc[t] \in Enqueueing <=> a \in Enqueueing
    BY <1>0, <1>5, Labels DEF start_dequeue_lock, lock_home, Finishing, Enqueueing
  <2> QED BY ONLY <1>1, <2>1, <2>2
<1>6. CASE start_dequeue(t)
  <2> DEFINE a == "deq_home"
  <2>1. made' = made /\ finished' = finished /\ dqed' = dqed /\ pc' = [pc EXCEPT ![t] = a]
    BY <1>0, <1>6 DEF start_dequeue, tasks
  <2>2. /\ a \in Label /\ a \notin {"idle", "roots", "exited"} /\ pc[t] \notin {"idle", "roots", "exited"}
        /\ pc[t] \in Finishing <=> a \in Finishing
        /\ pc[t] \in Enqueueing <=> a \in Enqueueing
    BY <1>0, <1>6, Labels DEF start_dequeue, Finishing, Enqueueing
  <2> QED BY ONLY <1>1, <2>1, <2>2
<1>7. CASE dequeue_home(t)
  <2> DEFINE a == IF mutex[Home(t)] = Unlocked THEN "deq_take" ELSE "deq_scan"
  <2>1. made' = made /\ finished' = finished /\ dqed' = dqed /\ pc' = [pc EXCEPT ![t] = a]
    BY <1>0, <1>7 DEF dequeue_home, tasks
  <2>2. /\ a \in Label /\ a \notin {"idle", "roots", "exited"} /\ pc[t] \notin {"idle", "roots", "exited"}
        /\ pc[t] \in Finishing <=> a \in Finishing
        /\ pc[t] \in Enqueueing <=> a \in Enqueueing
    BY <1>0, <1>7, Labels DEF dequeue_home, Finishing, Enqueueing
  <2> QED BY ONLY <1>1, <2>1, <2>2
<1>8. CASE highest(t)
  <2> DEFINE a == IF LastQueue(t) THEN "deq_try" ELSE pc[t]
  <2>1. made' = made /\ finished' = finished /\ dqed' = dqed /\ pc' = [pc EXCEPT ![t] = a]
    BY <1>0, <1>8 DEF highest, tasks
  <2>2. /\ a \in Label /\ a \notin {"idle", "roots", "exited"} /\ pc[t] \notin {"idle", "roots", "exited"}
        /\ pc[t] \in Finishing <=> a \in Finishing
        /\ pc[t] \in Enqueueing <=> a \in Enqueueing
    BY <1>0, <1>8, Labels DEF highest, Finishing, Enqueueing
  <2> QED BY ONLY <1>1, <2>1, <2>2
<1>9. CASE dequeue_trylock(t)
  <2> DEFINE a == IF mutex[qnum[t]] = Unlocked THEN "deq_take" ELSE pc[t]
  <2>1. made' = made /\ finished' = finished /\ dqed' = dqed /\ pc' = [pc EXCEPT ![t] = a]
    BY <1>0, <1>9 DEF dequeue_trylock, trylock, tasks
  <2>2. /\ a \in Label /\ a \notin {"idle", "roots", "exited"} /\ pc[t] \notin {"idle", "roots", "exited"}
        /\ pc[t] \in Finishing <=> a \in Finishing
        /\ pc[t] \in Enqueueing <=> a \in Enqueueing
    BY <1>9, Labels DEF dequeue_trylock, trylock, Finishing, Enqueueing
  <2> QED BY ONLY <1>1, <2>1, <2>2
<1>10. CASE deq_task_finished_lock(t)
  <2> DEFINE a == "fin_dec"
  <2>1. made' = made /\ finished' = finished /\ dqed' = dqed /\ pc' = [pc EXCEPT ![t] = a]
    BY <1>0, <1>10 DEF deq_task_finished_lock, lock_home, tasks
  <2>2. /\ a \in Label /\ a \notin {"idle", "roots", "exited"} /\ pc[t] \notin {"idle", "roots", "exited"}
        /\ pc[t] \in Finishing <=> a \in Finishing
        /\ pc[t] \in Enqueueing <=> a \in Enqueueing
    BY <1>0, <1>10, Labels DEF deq_task_finished_lock, lock_home, Finishing, Enqueueing
  <2> QED BY ONLY <1>1, <2>1, <2>2
<1>11. CASE allqempty_scan(t)
  <2> DEFINE a == pc'[t]
  <2>1. made' = made /\ finished' = finished /\ dqed' = dqed /\ pc' = [pc EXCEPT ![t] = a]
    BY <1>0, <1>11 DEF allqempty_scan, tasks
  <2>2. /\ a \in Label /\ a \notin {"idle", "roots", "exited"} /\ pc[t] \notin {"idle", "roots", "exited"}
        /\ pc[t] \in Finishing <=> a \in Finishing
        /\ pc[t] \in Enqueueing <=> a \in Enqueueing
    BY <1>0, <1>11, Labels DEF allqempty_scan, Finishing, Enqueueing
  <2> QED BY ONLY <1>1, <2>1, <2>2
<1>12. CASE allqempty_lock(t)
  <2> DEFINE a == IF LastQueue(t) THEN "chk_test" ELSE pc[t]
  <2>1. made' = made /\ finished' = finished /\ dqed' = dqed /\ pc' = [pc EXCEPT ![t] = a]
    BY <1>0, <1>12 DEF allqempty_lock, tasks
  <2>2. /\ a \in Label /\ a \notin {"idle", "roots", "exited"} /\ pc[t] \notin {"idle", "roots", "exited"}
        /\ pc[t] \in Finishing <=> a \in Finishing
        /\ pc[t] \in Enqueueing <=> a \in Enqueueing
    BY <1>0, <1>12, Labels DEF allqempty_lock, Finishing, Enqueueing
  <2> QED BY ONLY <1>1, <2>1, <2>2
<1>13. CASE allqempty_test(t)
  <2> DEFINE a == IF AllEmpty THEN "unlock_empty" ELSE "unlock_busy"
  <2>1. made' = made /\ finished' = finished /\ dqed' = dqed /\ pc' = [pc EXCEPT ![t] = a]
    BY <1>0, <1>13 DEF allqempty_test, tasks
  <2>2. /\ a \in Label /\ a \notin {"idle", "roots", "exited"} /\ pc[t] \notin {"idle", "roots", "exited"}
        /\ pc[t] \in Finishing <=> a \in Finishing
        /\ pc[t] \in Enqueueing <=> a \in Enqueueing
    BY <1>0, <1>13, Labels DEF allqempty_test, Finishing, Enqueueing
  <2> QED BY ONLY <1>1, <2>1, <2>2
<1>14. CASE dequeue_nothing(t)
  <2> DEFINE a == IF is_parallel THEN "chk_flag" ELSE "exited"
  <2>1. made' = made /\ finished' = finished /\ dqed' = dqed /\ pc' = [pc EXCEPT ![t] = a]
    BY <1>0, <1>14 DEF dequeue_nothing, tasks
  <2>2. /\ a \in Label /\ a \notin {"idle", "roots"} /\ pc[t] \notin {"idle", "roots", "exited"}
        /\ pc[t] \in Finishing <=> a \in Finishing
        /\ pc[t] \in Enqueueing <=> a \in Enqueueing
    BY <1>0, <1>14, Labels DEF dequeue_nothing, Finishing, Enqueueing
  <2>3. pc'[t] = a
    BY ONLY <1>0, <2>1
  <2> QED BY ONLY <1>1, <2>1, <2>2, <2>3
<1>15. CASE allqempty_flag(t)
  <2> DEFINE a == IF allqdone THEN "exited" ELSE "chk_scan"
  <2>1. made' = made /\ finished' = finished /\ dqed' = dqed /\ pc' = [pc EXCEPT ![t] = a]
    BY <1>0, <1>15 DEF allqempty_flag, tasks
  <2>2. /\ a \in Label /\ a \notin {"idle", "roots"} /\ pc[t] \notin {"idle", "roots", "exited"}
        /\ pc[t] \in Finishing <=> a \in Finishing
        /\ pc[t] \in Enqueueing <=> a \in Enqueueing
    BY <1>0, <1>15, Labels DEF allqempty_flag, Finishing, Enqueueing
  <2>3. pc'[t] = a
    BY ONLY <1>0, <2>1
  <2> QED BY ONLY <1>1, <2>1, <2>2, <2>3
<1>16. CASE allqempty_unlock(t)
  <2> DEFINE a == pc'[t]
  <2>1. made' = made /\ finished' = finished /\ dqed' = dqed /\ pc' = [pc EXCEPT ![t] = a]
    BY <1>0, <1>16 DEF allqempty_unlock, tasks
  <2>2. /\ a \in Label /\ a \notin {"idle", "roots"} /\ pc[t] \notin {"idle", "roots", "exited"}
        /\ pc[t] \in Finishing <=> a \in Finishing
        /\ pc[t] \in Enqueueing <=> a \in Enqueueing
    BY <1>0, <1>16, Labels DEF allqempty_unlock, Finishing, Enqueueing
  <2>3. pc'[t] = a
    BY ONLY <1>0, <2>1
  <2> QED BY ONLY <1>1, <2>1, <2>2, <2>3
<1>17. CASE enqueue(t)
  <2>1. /\ made' = made /\ finished' = finished /\ dqed' = dqed /\ pc[t] = "enq_put"
        /\ pc' = [pc EXCEPT ![t] = IF dqed[t] = NULL THEN "roots" ELSE "task"]
        /\ dqed[t] = NULL => t = Main
    BY <1>17 DEF enqueue, TaskInv, Enqueueing
  <2>2. Phase' = Phase /\ Left' = Left
    BY ONLY <1>0, <2>1 DEF Phase, InRoots, Left, Enqueueing
  <2>3. Running' = Running
    BY ONLY <1>0, <2>1 DEF Running, Finishing
  <2> QED BY ONLY <2>1, <2>2, <2>3
<1>18. CASE deq_task_finished(t)
  <2>1. /\ made' = made /\ finished' = finished /\ dqed' = [dqed EXCEPT ![t] = NULL] /\ pc[t] = "fin_dec"
        /\ pc' = [pc EXCEPT ![t] = "deq_home"]
    BY <1>18 DEF deq_task_finished
  <2>2. Phase' = Phase /\ Left' = Left
    BY ONLY <1>0, <2>1 DEF Phase, InRoots, Left, Enqueueing
  <2>3. Running' = Running
    BY ONLY <1>0, <2>1 DEF Running, Finishing
  <2> QED BY ONLY <2>1, <2>2, <2>3
<1> QED
  BY ONLY ThreadStep(t), <1>2, <1>3, <1>4, <1>5, <1>6, <1>7, <1>8, <1>9, <1>10, <1>11, <1>12, <1>13, <1>14, <1>15, <1>16, <1>17, <1>18
  DEF ThreadStep

\* Every step of the engine is a step of the pool of tasks, or changes nothing
\* the pool can see.
LEMMA PoolStep ==
  ASSUME IInv, IInv', ExitedDone', OnceInv, ~stale', [Next]_vars
  PROVE  [Pool!Next]_(Pool!vars)
<1>0. /\ pc \in [Thread -> Label] /\ dqed \in [Thread -> Task \cup {NULL}] /\ Main \in Thread
      /\ NULL \notin Task
      /\ TypeOK /\ RangeInv /\ ControlInv /\ TaskInv /\ OnlyMade
  BY Basics DEF IInv, TypeOK, ThreadsOK, TasksOK
<1>1. ASSUME NEW p \in Modes, launch_helpers(p) PROVE Pool!Open
  <2>1. \A t \in Thread : pc[t] = "idle" /\ dqed[t] = NULL
    BY ONLY <1>0, <1>1 DEF launch_helpers, ControlInv, TaskInv, Enqueueing, Finishing
  <2>2. /\ pc[Main] = "idle" /\ pc'[Main] = "roots" /\ made' = {} /\ finished' = {} /\ dqed' = dqed
        /\ \A t \in Thread : pc'[t] \in {"roots", "start_lock", "idle"}
    BY ONLY <1>0, <1>1 DEF launch_helpers
  <2>3. Phase = "idle" /\ Phase' = "open" /\ Left' = {}
    BY ONLY <2>2 DEF Phase, InRoots, Left
  <2>4. Running' = Running
    BY ONLY <2>1, <2>2 DEF Running, Finishing
  <2> QED BY ONLY <2>2, <2>3, <2>4 DEF Pool!Open, Phase, Running, Left
<1>2. ASSUME NEW t \in Thread, NEW x \in Task, addtoqueue(t, x) PROVE Pool!Submit(x)
  <2>1. /\ pc[t] \in {"roots", "task"} /\ x \notin made /\ made' = made \cup {x}
        /\ pc' = [pc EXCEPT ![t] = "enq_scan"] /\ dqed' = dqed /\ finished' = finished
    BY ONLY <1>2 DEF addtoqueue
  <2>2. /\ pc[t] = "roots" => t = Main /\ dqed[t] = NULL
        /\ pc[t] = "task" => dqed[t] # NULL
    BY ONLY <1>0, <2>1 DEF ControlInv, TaskInv, Enqueueing, Finishing
  <2>3. Phase' = Phase /\ Left' = Left
    BY ONLY <1>0, <2>1, <2>2 DEF Phase, InRoots, Left, Enqueueing
  <2>4. Running' = Running
    BY ONLY <1>0, <2>1 DEF Running, Finishing
  <2>5. Phase = "open" \/ Running[t] # NULL
    BY ONLY <1>0, <2>1, <2>2 DEF Phase, InRoots, Running, Finishing
  <2> QED BY ONLY <2>1, <2>3, <2>4, <2>5 DEF Pool!Submit, Phase, Running, Left
<1>3. CASE finish
  <2>1. /\ pc[Main] = "roots" /\ pc' = [pc EXCEPT ![Main] = "start_lock"]
        /\ made' = made /\ dqed' = dqed /\ finished' = finished
    BY ONLY <1>3 DEF finish, tasks
  <2>2. Phase = "open" /\ Phase' = "closed" /\ Left' = Left
    BY ONLY <1>0, <2>1 DEF Phase, InRoots, Left, Enqueueing
  <2>3. Running' = Running
    BY ONLY <1>0, <2>1 DEF Running, Finishing
  <2>4. Pool!Close
    BY ONLY <2>1, <2>2, <2>3 DEF Pool!Close, Phase, Running, Left
  <2> QED BY ONLY <2>4 DEF Pool!Next
<1>4. CASE kitsune_helpers_wait
  <2>1. /\ pc[Main] = "exited" /\ pc' = [t \in Thread |-> "idle"]
        /\ made' = made /\ dqed' = dqed /\ finished' = finished
        /\ \A t \in Thread : pc[t] \in {"idle", "exited"}
    BY ONLY <1>0, <1>4 DEF kitsune_helpers_wait, tasks, ControlInv, Active, TypeOK, RunOK
  <2>2. Phase = "closed" /\ Phase' = "idle" /\ Left # {} /\ Left' = {}
    BY ONLY <1>0, <2>1 DEF Phase, InRoots, Left, Enqueueing
  <2>3. Running' = Running
    BY ONLY <1>0, <2>1 DEF Running, Finishing
  <2>4. Pool!Return
    BY ONLY <2>1, <2>2, <2>3 DEF Pool!Return, Phase, Running, Left
  <2> QED BY ONLY <2>4 DEF Pool!Next
<1>5. CASE UNCHANGED vars
  BY ONLY <1>5 DEF vars, tasks, Pool!vars, InRoots
<1>6. ASSUME NEW t \in Thread, ThreadStep(t) PROVE [Pool!Next]_(Pool!vars)
  <2>1. CASE dequeue(t)
    <3>1. /\ pc[t] = "deq_take" /\ items[qnum[t]] # << >>
          /\ pc' = [pc EXCEPT ![t] = "task"] /\ dqed' = [dqed EXCEPT ![t] = Head(items[qnum[t]])]
          /\ made' = made /\ finished' = finished
      BY ONLY <2>1 DEF dequeue
    <3>2. dqed[t] = NULL
      BY ONLY <1>0, <3>1, t \in Thread DEF TaskInv, Enqueueing, Finishing
    <3>3. qnum[t] \in Used /\ items[qnum[t]] \in Seq(Task)
      BY ONLY <1>0, <3>1, t \in Thread, UsedFacts DEF RangeInv, Choosing, TypeOK, QueuesOK
    <3>4. Head(items[qnum[t]]) \in Task
      BY ONLY <3>1, <3>3
    <3>5. PICK x \in Task : x = Head(items[qnum[t]])
      BY ONLY <3>4
    <3>6. In(x, items[qnum[t]])
      BY ONLY <3>1, <3>3, <3>5, InTail
    <3>7. x \in made \ finished /\ \A u \in Thread : dqed[u] # x
      BY ONLY <1>0, <3>3, <3>6, OnceInv DEF OnceInv, QueuedInv, FinishedInv, OnlyMade
    <3>8. Phase' = Phase /\ Left' = Left /\ t \notin Left
      BY ONLY <1>0, <3>1 DEF Phase, InRoots, Left, Enqueueing
    <3>9. /\ Running[t] = NULL /\ Running' = [Running EXCEPT ![t] = x]
          /\ \A u \in Thread : Running[u] # x
      BY ONLY <1>0, <3>1, <3>2, <3>5, <3>7 DEF Running, Finishing
    <3>10. Pool!Take(t, x)
      BY ONLY <3>1, <3>7, <3>8, <3>9 DEF Pool!Take, Phase, Running, Left
    <3> QED BY ONLY <3>10, t \in Thread, x \in Task DEF Pool!Next
  <2>2. CASE callxformer(t)
    <3>1. /\ pc[t] = "task" /\ dqed[t] # NULL /\ pc' = [pc EXCEPT ![t] = "fin_lock"]
          /\ dqed' = dqed /\ made' = made /\ finished' = finished \cup {dqed[t]}
      BY ONLY <1>0, <2>2, t \in Thread DEF callxformer, TaskInv
    <3>2. Phase' = Phase /\ Left' = Left
      BY ONLY <1>0, <3>1 DEF Phase, InRoots, Left, Enqueueing
    <3>3. /\ Running[t] = dqed[t] /\ Running' = [Running EXCEPT ![t] = NULL]
      BY ONLY <1>0, <3>1 DEF Running, Finishing
    <3>4. Pool!Finish(t)
      BY ONLY <3>1, <3>2, <3>3 DEF Pool!Finish, Phase, Running, Left
    <3> QED BY ONLY <3>4, t \in Thread DEF Pool!Next
  <2>3. CASE /\ pc[t] # "exited" /\ pc'[t] = "exited" /\ UNCHANGED <<Phase, made, Running, finished>>
             /\ \A u \in Thread : u # t => pc'[u] = pc[u]
    <3>1. Quiet' /\ made' = finished'
      BY ONLY <2>3, ExitedDone', ~stale', t \in Thread DEF ExitedDone
    <3>2. made = finished
      BY ONLY <2>3, <3>1
    <3>3. pc'[Main] # "idle" /\ ~InRoots'
      BY ONLY <1>0, <2>3, <3>1, IInv', t \in Thread DEF IInv, ControlInv, Quiet, InRoots
    <3>4. Phase = "closed"
      BY ONLY <2>3, <3>3 DEF Phase
    <3>5. Left' = Left \cup {t}
      BY ONLY <2>3, t \in Thread DEF Left
    <3>6. Pool!Leave(t)
      BY ONLY <2>3, <3>2, <3>4, <3>5 DEF Pool!Leave, Phase, Running, Left
    <3> QED BY ONLY <3>6, t \in Thread DEF Pool!Next
  <2>4. CASE UNCHANGED <<Phase, made, Running, finished, Left>>
    BY ONLY <2>4 DEF Pool!vars, Phase, Running, Left
  <2> QED BY ONLY <1>0, <1>6, <2>1, <2>2, <2>3, <2>4, VisibleSteps
<1>7. [Step]_vars
  BY DEF Next
<1> QED BY ONLY <1>1, <1>2, <1>3, <1>4, <1>5, <1>6, <1>7 DEF Step, Pool!Next

\* Before the first call of init the pool is idle.
LEMMA PoolInit == Init => Pool!Init
  BY Basics DEF Init, Pool!Init, InRoots, Finishing

\* The queues, counters and locks of queue.c implement the pool of tasks of TaskPool for any
\* number of threads, queue size and set of tasks, in every behaviour in which no traversal
\* starts with allqdone set (nothing clears the flag: AllqemptySaysAllEmpty fails otherwise).
THEOREM EngineIsTaskPool == Spec /\ []~stale => ImplementsTaskPool
<1>1. Init => Pool!Init
  BY PoolInit
<1>2. IInv /\ IInv' /\ ExitedDone' /\ OnceInv /\ ~stale' /\ [Next]_vars
        => [Pool!Next]_(Pool!vars)
  BY PoolStep
<1> QED BY <1>1, <1>2, ExitedIsDone, Invariance, OnceInvariance, PTL DEF Spec, ImplementsTaskPool, Pool!Spec

\* No traversal has set the flag before the first, so only later ones start with it set.
LEMMA FirstTraversal == Spec => []((stale => traversals > 1) /\ traversals <= MaxTraversals)
<1> DEFINE J == /\ stale => traversals > 1
                /\ traversals <= MaxTraversals
                /\ traversals = 0 => ~allqdone /\ \A t \in Thread : pc[t] = "idle"
<1>1. Init => J
  BY MaxTraversalsAssumption DEF Init
<1>2. IInv /\ IInv' /\ J /\ [Next]_vars => J'
  <2> SUFFICES ASSUME IInv, IInv', J, [Next]_vars PROVE J'
    OBVIOUS
  <2>0. traversals \in Nat /\ Main \in Thread /\ [Step]_vars
    BY Basics DEF IInv, TypeOK, RunOK, Next
  <2>1. ASSUME NEW p \in Modes, launch_helpers(p) PROVE J'
    <3>1. /\ traversals' = traversals + 1 /\ traversals < MaxTraversals
          /\ stale' => allqdone
      BY ONLY <2>1 DEF launch_helpers
    <3>2. stale' => traversals # 0
      BY ONLY <3>1, J
    <3> QED BY ONLY <2>0, <3>1, <3>2, MaxTraversalsAssumption
  <2>2. ASSUME NEW t \in Thread, NEW x \in Task, addtoqueue(t, x) PROVE J'
    BY <2>0, <2>2 DEF addtoqueue, run
  <2>3. CASE finish
    BY <2>0, <2>3 DEF finish, run
  <2>4. CASE kitsune_helpers_wait
    BY <2>0, <2>4 DEF kitsune_helpers_wait, run
  <2>5. CASE UNCHANGED vars
    BY <2>5 DEF vars, run
  <2>6. ASSUME NEW t \in Thread, ThreadStep(t) PROVE J'
    <3>1. pc[t] # "idle"
      BY ONLY <2>6
         DEF ThreadStep, lowest, enqueue_trylock, trylock, enqueue, enqueue_full, start_dequeue_lock,
             lock_home, start_dequeue, dequeue_home, highest, dequeue_trylock, dequeue,
             dequeue_nothing, callxformer, deq_task_finished_lock, deq_task_finished,
             allqempty_flag, allqempty_scan, allqempty_lock, allqempty_test, allqempty_unlock
    <3>2. traversals' = traversals /\ stale' = stale
      BY ONLY <2>6
         DEF run, ThreadStep, lowest, enqueue_trylock, trylock, enqueue, enqueue_full, start_dequeue_lock,
             lock_home, start_dequeue, dequeue_home, highest, dequeue_trylock, dequeue,
             dequeue_nothing, callxformer, deq_task_finished_lock, deq_task_finished,
             allqempty_flag, allqempty_scan, allqempty_lock, allqempty_test, allqempty_unlock
    <3> QED BY <3>1, <3>2
  <2> QED BY ONLY <2>0, <2>1, <2>2, <2>3, <2>4, <2>5, <2>6 DEF Step
<1> QED BY <1>1, <1>2, Invariance, PTL DEF Spec

\* A program that traverses its heap once per process gets the pool of tasks without any
\* proviso.
THEOREM OneTraversalIsTaskPool == MaxTraversals <= 1 => (Spec => ImplementsTaskPool)
<1> SUFFICES ASSUME MaxTraversals <= 1 PROVE Spec => ImplementsTaskPool
  OBVIOUS
<1>1. TypeOK /\ (stale => traversals > 1) /\ traversals <= MaxTraversals => ~stale
  BY MaxTraversalsAssumption DEF TypeOK, RunOK
<1> QED BY <1>1, TypeCorrect, FirstTraversal, EngineIsTaskPool, PTL
=============================================================================
