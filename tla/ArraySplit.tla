----------------------------- MODULE ArraySplit ------------------------------
(***************************************************************************)
(* transform_split_array (src/src/transform.c): an array (of count        *)
(* elements) is visited whole, or in SPLIT pieces, all but the last of     *)
(* which become tasks of their own.                                        *)
(*                                                                         *)
(* A piece is the range of elements that transform_array visits: from      *)
(* in + size*first, len elements.  id tells pieces apart.                  *)
(***************************************************************************)
EXTENDS Integers

CONSTANTS SPLIT,      \* how many pieces
          MaxCount    \* bound: the longest array

ASSUME SplitAssumption == SPLIT \in Nat \ {0}
ASSUME MaxCountAssumption == MaxCount \in Nat

VARIABLES is_parallel, elems,   \* the traversal's mode; elements of the array
          i, remainder,         \* locals of transform_split_array
          pieces,               \* ranges that were enqueued or visited
          pc

splitvars == <<is_parallel, elems, i, remainder, pieces, pc>>

Piece == [id : Nat, first : Nat, len : Nat]
Elements(p) == p.first .. p.first + p.len - 1

\* The counters of transform_split_array and the pieces it has enqueued.
SplitTypeOK ==
  /\ is_parallel \in BOOLEAN
  /\ elems \in 0 .. MaxCount
  /\ i \in 0 .. SPLIT
  /\ remainder \in 0 .. MaxCount
  /\ pieces \subseteq Piece
  /\ pc \in {"start", "loop", "done"}

share == elems \div SPLIT

SplitInit ==
  /\ is_parallel \in BOOLEAN
  /\ elems \in 0 .. MaxCount
  /\ i = 0
  /\ remainder = 0
  /\ pieces = {}
  /\ pc = "start"

\* A serial traversal, or a short array: one piece.
transform_array ==
  /\ pc = "start"
  /\ ~is_parallel \/ elems < SPLIT
  /\ pieces' = {[id |-> 0, first |-> 0, len |-> elems]}
  /\ pc' = "done"
  /\ UNCHANGED <<is_parallel, elems, i, remainder>>

split_begin ==
  /\ pc = "start"
  /\ is_parallel
  /\ elems >= SPLIT
  /\ remainder' = elems
  /\ pc' = "loop"
  /\ UNCHANGED <<is_parallel, elems, i, pieces>>

\* Mutant of split_task: remainder is not counted down.
MutKeepRemainder ==
  /\ pc = "loop"
  /\ i < SPLIT - 1
  /\ pieces' = pieces \cup {[id |-> i, first |-> i * share, len |-> share]}
  /\ i' = i + 1
  /\ UNCHANGED <<is_parallel, elems, remainder, pc>>

\* All pieces but the last become tasks.
split_task ==
  /\ pc = "loop"
  /\ i < SPLIT - 1
  /\ pieces' = pieces \cup {[id |-> i, first |-> i * share, len |-> share]}
  /\ remainder' = remainder - share
  /\ i' = i + 1
  /\ UNCHANGED <<is_parallel, elems, pc>>

\* Mutant of split_last: what the division leaves over is forgotten.
MutLastShare ==
  /\ pc = "loop"
  /\ i = SPLIT - 1
  /\ pieces' = pieces \cup {[id |-> i, first |-> i * share, len |-> share]}
  /\ pc' = "done"
  /\ UNCHANGED <<is_parallel, elems, i, remainder>>

\* The last piece, with the elements that the division leaves over.
split_last ==
  /\ pc = "loop"
  /\ i = SPLIT - 1
  /\ pieces' = pieces \cup {[id |-> i, first |-> i * share, len |-> remainder]}
  /\ pc' = "done"
  /\ UNCHANGED <<is_parallel, elems, i, remainder>>

SplitNext == transform_array \/ split_begin \/ split_task \/ split_last \/ (pc = "done" /\ UNCHANGED splitvars)

SplitSpec == SplitInit /\ [][SplitNext]_splitvars

-----------------------------------------------------------------------------
\* No two tasks visit the same element, and none visits memory outside the array.
PiecesApart ==
  /\ \A p \in pieces : Elements(p) \subseteq 0 .. elems - 1
  /\ \A p, q \in pieces : p # q => Elements(p) \cap Elements(q) = {}

\* In the end every element of the array is visited, those that the division
\* leaves over included.
AllVisited == pc = "done" => \A e \in 0 .. elems - 1 : \E p \in pieces : e \in Elements(p)
=============================================================================
