----------------------------- MODULE MCServices -----------------------------
(***************************************************************************)
(* The parts of C-strider under and around the traversal in one model: the *)
(* ring, the splitting of arrays, the roots, the type table and the hash   *)
(* table it is made of, and the serialization service.  A behaviour is     *)
(* about one of them.                                                      *)
(***************************************************************************)
EXTENDS RingQueue, ArraySplit, Roots, TypeTable, UtHash, Serialize, TLC

CONSTANTS g1, g2, c1, c2, obj,                         \* generated roots, cells, an object
          args,                                        \* of a generic type
          k1, k2, k3,                                  \* keys of the hash table
          n1, n2, ar, st, sym, sym2, txt, d1, d2, junk \* addresses and data

VARIABLE part    \* the part that this behaviour is about

-----------------------------------------------------------------------------
Visitalls == <<g1, g2>>

\* Types are sequences: a generated type is its index, a constructed one what was hashed.
\* Pointers to arrays of three structs collide with those to a struct, pointers to arrays of
\* three pointers with a generated type.
Struct == <<0>>
Pointer == <<1>>
Generated == {Struct, Pointer}
NoneTyp == << >>
PointsTo == [type \in Generated |-> IF type = Pointer THEN Struct ELSE NoneTyp]
HashApart(c, p) == <<c.fn, c.type, c.x, IF c.fn = "mktypptr" THEN 0 ELSE p>>
HashSome(c, p) ==
  CASE c.fn = "mktypptr" /\ c.type = <<"mktyparr", Struct, 3, p>> -> <<"mktypptr", Struct, 0, 0>>
    [] c.fn = "mktypptr" /\ c.type = <<"mktyparr", Pointer, 3, p>> -> Pointer
    [] OTHER -> HashApart(c, p)

\* Constructed types that share a row are made under one lock.
RowApart(k) == IF Len(k) = 1 THEN k ELSE <<k[1], IF k[1] = "mktypptr" THEN Struct ELSE k[2]>>

\* k1 and k3 share a row until the table has eight.
HashesMC == [k \in HashKey |-> CASE k = k1 -> 0 [] k = k2 -> 1 [] k = k3 -> 4]

\* The globals point to an array of two structs, a string and a struct; the structs point to
\* each other, to themselves, to a symbol or to nothing, and share a string.
FieldsMC == [roots |-> <<"array", "str", "struct">>, struct |-> <<"prim", "str", "struct">>,
             array |-> <<"struct", "struct">>, str |-> <<"prim">>]
Pointers == {Null, n1, n2, sym}
HeapsMC ==
  {[at \in {Globals, n1, n2, ar, st} |->
      CASE at = Globals -> <<ar, s1, Null>> [] at = n1 -> <<d1, s2, p1>> [] at = n2 -> <<d2, st, p2>>
        [] at = ar -> <<p3, p4>> [] at = st -> <<txt>>] :
     s1, s2 \in {Null, st}, p1, p2, p3, p4 \in Pointers}
RelocatedMC == [at \in {sym} |-> sym2]

\* Fresh addresses are alike, since memory holds none of them before they are given out.
MallocMC(free) == {CHOOSE at \in free : TRUE}

ThreadSymmetry == Permutations(Thread) \cup Permutations(User)

-----------------------------------------------------------------------------
\* A part may stop where its program does: after a failed assertion, or when the heap is read.
Stopped == (part = "ring" /\ aborted) \/ (part = "serialize" /\ phase \notin {"write", "read"})

Init ==
  /\ RingInit /\ SplitInit /\ RootsInit /\ TypesInit /\ HashInit /\ SerInit
  /\ part \in {"ring", "split", "roots", "types", "hash", "serialize"}
  /\ part # "split" => elems = 0 /\ is_parallel
  /\ part # "roots" => content = [c \in Cell |-> CHOOSE v \in Content : TRUE]
  /\ part # "serialize" => from = CHOOSE h \in HeapsMC : TRUE

Next ==
  /\ UNCHANGED part
  /\ \/ part = "ring" /\ RingNext /\ UNCHANGED <<splitvars, rootsvars, typesvars, hashvars, servars>>
     \/ part = "split" /\ SplitNext /\ UNCHANGED <<ringvars, rootsvars, typesvars, hashvars, servars>>
     \/ part = "roots" /\ RootsNext /\ UNCHANGED <<ringvars, splitvars, typesvars, hashvars, servars>>
     \/ part = "types" /\ TypesNext /\ UNCHANGED <<ringvars, splitvars, rootsvars, hashvars, servars>>
     \/ part = "hash" /\ HashNext /\ UNCHANGED <<ringvars, splitvars, rootsvars, typesvars, servars>>
     \/ part = "serialize" /\ SerNext /\ UNCHANGED <<ringvars, splitvars, rootsvars, typesvars, hashvars>>
     \/ Stopped /\ UNCHANGED <<ringvars, splitvars, rootsvars, typesvars, hashvars, servars>>

Spec == Init /\ [][Next]_<<ringvars, splitvars, rootsvars, typesvars, hashvars, servars, part>>
=============================================================================
