------------------------------ MODULE TaskPool ------------------------------
(***************************************************************************)
(* What the traversal engine promises its caller: between init and finish  *)
(* a pool of tasks is open; every task submitted to it is run once, by one *)
(* thread; a running task may submit more; and no thread gives up before   *)
(* all of them have run.  No queues, no locks.                             *)
(***************************************************************************)
CONSTANTS Thread, Task, NULL

VARIABLES phase,      \* "idle", "open" (roots may come) or "closed"
          made,       \* tasks submitted since the pool opened
          running,    \* the task each thread is running
          finished,   \* tasks that have run
          left        \* threads that have given up looking for work

vars == <<phase, made, running, finished, left>>

Init == /\ phase = "idle"
        /\ made = {}
        /\ running = [t \in Thread |-> NULL]
        /\ finished = {}
        /\ left = {}

Open == /\ phase = "idle"
        /\ phase' = "open"
        /\ made' = {}
        /\ finished' = {}
        /\ left' = {}
        /\ UNCHANGED running

Submit(x) == /\ phase = "open" \/ \E t \in Thread : running[t] # NULL
             /\ x \notin made
             /\ made' = made \cup {x}
             /\ UNCHANGED <<phase, running, finished, left>>

Take(t, x) == /\ t \notin left
              /\ running[t] = NULL
              /\ x \in made \ finished
              /\ \A u \in Thread : running[u] # x
              /\ running' = [running EXCEPT ![t] = x]
              /\ UNCHANGED <<phase, made, finished, left>>

Finish(t) == /\ running[t] # NULL
             /\ finished' = finished \cup {running[t]}
             /\ running' = [running EXCEPT ![t] = NULL]
             /\ UNCHANGED <<phase, made, left>>

Close == /\ phase = "open"
         /\ phase' = "closed"
         /\ UNCHANGED <<made, running, finished, left>>

Leave(t) == /\ phase = "closed"
            /\ made = finished
            /\ left' = left \cup {t}
            /\ UNCHANGED <<phase, made, running, finished>>

Return == /\ phase = "closed"
          /\ left # {}
          /\ phase' = "idle"
          /\ left' = {}
          /\ UNCHANGED <<made, running, finished>>

Next == \/ Open
        \/ \E x \in Task : Submit(x)
        \/ \E t \in Thread, x \in Task : Take(t, x)
        \/ \E t \in Thread : Finish(t)
        \/ Close
        \/ \E t \in Thread : Leave(t)
        \/ Return

Spec == Init /\ [][Next]_vars
=============================================================================
