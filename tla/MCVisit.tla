------------------------------- MODULE MCVisit -------------------------------
(* Visit on small heaps, in a table with a row where two objects collide. *)
EXTENDS Visit

CONSTANTS o1, o2

\* o1 and every fresh address share a row.
Rows == [a \in Addr |-> IF a = o2 THEN 1 ELSE 0]

\* Services that copy every object to fresh memory, or none; in the second case
\* in and out may be the same.
CopyAllOrNone ==
  {v \in [moved : {{}, Object}, stop : {{}, {o2}}, inplace : BOOLEAN] :
     v.inplace => v.moved = {}}

\* A service that works in place and moves one object.
CopyInPlace == {[moved |-> {o2}, stop |-> {}, inplace |-> TRUE]}
=============================================================================
