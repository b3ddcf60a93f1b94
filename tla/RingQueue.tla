------------------------------ MODULE RingQueue ------------------------------
(***************************************************************************)
(* The queue struct of src/src/queue.h and the bodies of init_queue,       *)
(* enqueue and dequeue in src/src/queue.c between the lock and the unlock  *)
(* of the queue's mutex: a ring of QUEUESIZE slots addressed by front,     *)
(* rear and count.  Which queue is chosen, the mutex and the inflight      *)
(* counter are in module WorkQueue.                                        *)
(***************************************************************************)
EXTENDS Integers, Sequences

CONSTANTS Value,      \* the task pointers (never null: addtoqueue drops null)
          NULL,       \* the null pointer
          QUEUESIZE   \* slots in the ring, 250000 in queue.h

ASSUME QueueSizeAssumption == QUEUESIZE \in Nat \ {0}
ASSUME NullAssumption == NULL \notin Value

VARIABLES q,          \* the slots
          front,      \* slot the next dequeue reads
          rear,       \* slot the last enqueue wrote
          count,      \* number of queued pointers
          x,          \* the pointer the last dequeue returned
          aborted     \* assert(0) of a full enqueue has ended the process

ringvars == <<q, front, rear, count, x, aborted>>

Slot == 0 .. QUEUESIZE - 1

\* The indices stay inside the array q and count within its size.
RingTypeOK == /\ q \in [Slot -> Value \cup {NULL}]
          /\ front \in Slot
          /\ rear \in Slot
          /\ count \in 0 .. QUEUESIZE
          /\ x \in Value \cup {NULL}
          /\ aborted \in BOOLEAN

-----------------------------------------------------------------------------
\* queue_array is a zero-initialised global that the first init_queue resets.
RingInit == /\ q = [i \in Slot |-> NULL]
        /\ front = 0
        /\ rear = QUEUESIZE - 1
        /\ count = 0
        /\ x = NULL
        /\ aborted = FALSE

\* Mutant of init_queue: rear is left where the last traversal put it.
MutInitKeepsRear == /\ ~aborted
                    /\ front' = 0
                    /\ count' = 0
                    /\ UNCHANGED <<q, rear, x, aborted>>

\* A new traversal resets the indices; the slots keep what they held.
init_queue == /\ ~aborted
              /\ front' = 0
              /\ rear' = QUEUESIZE - 1
              /\ count' = 0
              /\ UNCHANGED <<q, x, aborted>>

enqueue(v) == /\ ~aborted
              /\ count < QUEUESIZE
              /\ rear' = (rear + 1) % QUEUESIZE
              /\ q' = [q EXCEPT ![rear'] = v]
              /\ count' = count + 1
              /\ UNCHANGED <<front, x, aborted>>

enqueue_full == /\ ~aborted
                /\ count >= QUEUESIZE
                /\ aborted' = TRUE
                /\ UNCHANGED <<q, front, rear, count, x>>

\* Mutant of dequeue: the modulus of queue.c:177 is off by one.
MutDequeueModulus == /\ ~aborted
                     /\ count # 0
                     /\ x' = q[front]
                     /\ front' = IF front + 1 >= QUEUESIZE - 1 THEN 0 ELSE front + 1
                     /\ count' = count - 1
                     /\ UNCHANGED <<q, rear, aborted>>

dequeue == /\ ~aborted
           /\ count # 0
           /\ x' = q[front]
           /\ front' = (front + 1) % QUEUESIZE
           /\ count' = count - 1
           /\ UNCHANGED <<q, rear, aborted>>

dequeue_empty == /\ ~aborted
                 /\ count = 0
                 /\ x' = NULL
                 /\ UNCHANGED <<q, front, rear, count, aborted>>

RingNext == \/ init_queue
        \/ \E v \in Value : enqueue(v)
        \/ enqueue_full
        \/ dequeue
        \/ dequeue_empty

RingSpec == RingInit /\ [][RingNext]_ringvars

-----------------------------------------------------------------------------
(***************************************************************************)
(* The refinement mapping: the queued pointers are the count slots from    *)
(* front on, wrapping round the end of the ring.                           *)
(***************************************************************************)
Contents == [k \in 1 .. count |-> q[(front + k - 1) % QUEUESIZE]]

Fifo == INSTANCE FifoQueue
          WITH items <- Contents, ret <- x, failed <- aborted,
               Capacity <- QUEUESIZE

\* rear and front stay count slots apart however often the ring has wrapped.
\* This is what enqueue (which only moves rear) and dequeue (which only moves
\* front) rely on, and no single operation of queue.c checks it.
IndicesAgree == (front + count) % QUEUESIZE = (rear + 1) % QUEUESIZE

\* The ring implements the bounded first-in first-out queue, whatever mix of
\* operations wraps it and however often init_queue resets it.
ImplementsFifo == Fifo!Spec
=============================================================================
