----------------------------- MODULE MCTypeTable -----------------------------
(***************************************************************************)
(* TypeTable alone, with a struct type and the type of pointers to it,     *)
(* where constructed types share a row of the table.                       *)
(***************************************************************************)
EXTENDS TypeTable

CONSTANTS args   \* of a generic type

\* Types are sequences: a generated type is its index, a constructed one what was hashed.
\* No two calls collide.
Struct == <<0>>
Pointer == <<1>>
Generated == {Struct, Pointer}
NoneTyp == << >>
PointsTo == [type \in Generated |-> IF type = Pointer THEN Struct ELSE NoneTyp]
HashApart(c, p) == <<c.fn, c.type, c.x, IF c.fn = "mktypptr" THEN 0 ELSE p>>

RowShared(k) == IF Len(k) = 1 THEN k ELSE <<"made", Struct>>
=============================================================================
