---------------------------- MODULE MCStructures ----------------------------
(***************************************************************************)
(* The structures that a redis server is built on, in one model: the hash  *)
(* table, the sorted set, the zipmap and the event loop.  A behaviour is   *)
(* about one of them.                                                      *)
(***************************************************************************)
EXTENDS Dict, SkipList, ZipMap, Events

CONSTANTS k1, k2, k3,              \* keys of the hash table
          t1, t2, t3, none, two, big  \* texts in the zipmap

VARIABLE part    \* the structure that this behaviour is about

\* k1 and k2 share a bucket of a table of two, k2 and k3 of no table larger than one.
HashMC == [k \in Key |-> CASE k = k1 -> 0 [] k = k2 -> 2 [] OTHER -> 3]

StrLenMC == [s \in Str |-> CASE s \in {t1, t2} -> 1 [] s = t3 -> 3 [] s = none -> 0 [] s = two -> 2 [] OTHER -> 5]

\* No definition looks into the values of the hash table.
ValueSymmetry == Permutations(Value)

Init == DictInit /\ SkipInit /\ ZipInit /\ EventsInit /\ part \in {"dict", "zset", "zipmap", "events"}

Next ==
  /\ UNCHANGED part
  /\ \/ part = "dict" /\ DictNext /\ UNCHANGED <<skipvars, zipvars, eventvars>>
     \/ part = "zset" /\ SkipNext /\ UNCHANGED <<dictvars, zipvars, eventvars>>
     \/ part = "zipmap" /\ ZipNext /\ UNCHANGED <<dictvars, skipvars, eventvars>>
     \/ part = "events" /\ EventsNext /\ UNCHANGED <<dictvars, skipvars, zipvars>>

Spec == Init /\ [][Next]_<<dictvars, skipvars, zipvars, eventvars, part>>
=============================================================================
