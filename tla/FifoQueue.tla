------------------------------ MODULE FifoQueue ------------------------------
(***************************************************************************)
(* What one work queue of the runtime promises its callers (queue.c): a    *)
(* bounded first-in first-out buffer of non-null pointers.                 *)
(*                                                                         *)
(* Every operation runs under the queue's mutex, so each is one step here. *)
(***************************************************************************)
EXTENDS Naturals, Sequences

CONSTANTS Value,      \* the pointers that may be enqueued
          NULL,       \* what dequeue answers when there is nothing
          Capacity    \* how many pointers the queue holds

VARIABLES items,      \* the queued pointers, oldest first
          ret,        \* the answer of the last dequeue
          failed      \* an enqueue found the queue full

vars == <<items, ret, failed>>

Init == /\ items = << >>
        /\ ret = NULL
        /\ failed = FALSE

Reset == /\ items' = << >>
         /\ UNCHANGED <<ret, failed>>

Enqueue(x) == /\ Len(items) < Capacity
              /\ items' = Append(items, x)
              /\ UNCHANGED <<ret, failed>>

Fail == /\ Len(items) = Capacity
        /\ failed' = TRUE
        /\ UNCHANGED <<items, ret>>

Dequeue == /\ items # << >>
           /\ ret' = Head(items)
           /\ items' = Tail(items)
           /\ UNCHANGED failed

DequeueNothing == /\ items = << >>
                  /\ ret' = NULL
                  /\ UNCHANGED <<items, failed>>

Next == \/ Reset
        \/ \E x \in Value : Enqueue(x)
        \/ Fail
        \/ Dequeue
        \/ DequeueNothing

Spec == Init /\ [][Next]_vars
=============================================================================
