----------------------------- MODULE Serialize -----------------------------
(***************************************************************************)
(* The serialization service (examples/heap_serialize/serial.c) on top of  *)
(* visit (src/src/transform.c) without helper threads: checkpoint writes   *)
(* the heap to a file, and another process reads it into fresh memory.     *)
(*                                                                         *)
(* An object is a sequence of cells, whose types its own type gives: a     *)
(* struct, an array of pointers, or a string.  Both traversals visit the   *)
(* cells in one order, structs through the queue and the elements of an    *)
(* array at once: the file has no other structure than that order.  In the *)
(* reader, a cell is its own output, and what it holds before it is read   *)
(* is what malloc left there.                                              *)
(*                                                                         *)
(* Abstracted: a text, the data of a primitive cell and a pointer are one  *)
(* token of the file each.                                                 *)
(***************************************************************************)
EXTENDS Integers, Sequences, SequencesExt, FiniteSets

CONSTANTS Globals,      \* the global variables, an object of type "roots"
          Null,
          Fields,       \* the types of the cells of an object of each type
          Heaps,        \* heaps of the writing process: addresses to cells
          Symbol,       \* addresses of symbols in the writing process
          Relocated,    \* where they are in the reading process
          NewAddr,      \* where malloc may put an object in the reading process
          Malloc(_),    \* what it may return when these are free
          Leftover      \* what memory from malloc may hold

SER_SYMBOL == 2

VARIABLES from,      \* the memory of the writing process
          to,        \* the memory of the reading process
          file,      \* the tokens of ser.txt
          pos,       \* tokens that have been read
          mapping,   \* the mapping table of the traversal
          todo,      \* cells to visit before the next task, and mappings to add between them
          fifo,      \* the queue of structs
          phase      \* "write", "read", "done"; "assert" or "garbled"

servars == <<from, to, file, pos, mapping, todo, fifo, phase>>

-----------------------------------------------------------------------------
Ptr(v) == [kind |-> "ptr", v |-> v]
Text(v) == [kind |-> "text", v |-> v]
Data(v) == [kind |-> "data", v |-> v]

\* The visits of the cells of an object; mapLater is what visit does once its callback
\* returns.
CellsOf(a, type) == [n \in 1 .. Len(Fields[type]) |-> [op |-> "visit", at |-> a, i |-> n, type |-> Fields[type][n]]]
mapLater(a) == <<[op |-> "map", at |-> a, i |-> 0, type |-> "prim"]>>

add_mapping(m, in, out) ==
  IF in = Null \/ in \in DOMAIN m THEN m ELSE [x \in DOMAIN m \cup {in} |-> IF x = in THEN out ELSE m[x]]

\* malloc: an object at address a.
Allocated(a, cells) == [x \in DOMAIN to \cup {a} |-> IF x = a THEN cells ELSE to[x]]

SerInit ==
  /\ from \in Heaps
  /\ to = [x \in {Globals} |-> [n \in 1 .. Len(Fields["roots"]) |-> Null]]
  /\ file = <<>> /\ pos = 0
  /\ mapping = [x \in {} |-> Null]
  /\ todo = CellsOf(Globals, "roots") /\ fifo = <<>>
  /\ phase = "write"

\* callxformer on the next struct, in either process.
nextTask ==
  /\ phase \in {"write", "read"} /\ todo = <<>> /\ fifo # <<>>
  /\ todo' = CellsOf(Head(fifo), "struct")
  /\ fifo' = Tail(fifo)
  /\ UNCHANGED <<from, to, file, pos, mapping, phase>>

-----------------------------------------------------------------------------
(* Writing *)

serial_char_str(s) == <<Text(s)>>

\* What the callback writes, and whether the traversal goes on behind the pointer.
serial_ptr(v, type) ==
  CASE v = Null -> [tokens |-> <<Ptr(Null)>>, retc |-> FALSE]
    [] v \in Symbol -> [tokens |-> <<Ptr(SER_SYMBOL)>> \o serial_char_str(v), retc |-> FALSE]
    [] type = "str" -> [tokens |-> <<Ptr(v)>> \o serial_char_str(from[v][1]), retc |-> FALSE]
    [] OTHER -> [tokens |-> <<Ptr(v)>>, retc |-> TRUE]

\* Mutant of serial_ptr_mapped: a symbol that is met again is written as an address.
MutMappedPtr(v) == <<Ptr(v)>>

serial_ptr_mapped(v) == IF v \in Symbol THEN <<Ptr(SER_SYMBOL)>> \o serial_char_str(v) ELSE <<Ptr(v)>>

\* visit of one cell with the callbacks ser_funs; in and out are the same.
serialCell ==
  LET c == Head(todo)
      v == from[c.at][c.i]
      r == serial_ptr(v, c.type)
  IN  /\ phase = "write" /\ todo # <<>>
      /\ IF c.type = "prim" THEN file' = Append(file, Data(v)) /\ todo' = Tail(todo) /\ UNCHANGED <<mapping, fifo>>
         ELSE IF v \in DOMAIN mapping
         THEN file' = file \o serial_ptr_mapped(v) /\ todo' = Tail(todo) /\ UNCHANGED <<mapping, fifo>>
         ELSE /\ file' = file \o r.tokens
              /\ mapping' = add_mapping(mapping, v, v)
              /\ todo' = (IF r.retc /\ c.type = "array" THEN CellsOf(v, "array") ELSE <<>>) \o Tail(todo)
              /\ fifo' = IF r.retc /\ c.type = "struct" THEN Append(fifo, v) ELSE fifo
      /\ UNCHANGED <<from, to, pos, phase>>

\* checkpoint is over; another process starts with do_deserialize.
do_deserialize ==
  /\ phase = "write" /\ todo = <<>> /\ fifo = <<>>
  /\ phase' = "read"
  /\ mapping' = [x \in {} |-> Null]
  /\ todo' = CellsOf(Globals, "roots")
  /\ UNCHANGED <<from, to, file, pos, fifo>>

-----------------------------------------------------------------------------
(* Reading *)

\* The n-th token from here; past the end fread changes nothing, and the variable is not
\* initialised.
Token(n) == IF pos + n <= Len(file) THEN file[pos + n] ELSE [kind |-> "none", v |-> Null]

\* *out is written, and with it *in.
Stored(mem, c, v) == [mem EXCEPT ![c.at][c.i] = v]

Garbled == phase' = "garbled" /\ UNCHANGED <<to, pos, mapping, todo, fifo>>

deserial_prim(c) ==
  IF Token(1).kind # "data" THEN Garbled
  ELSE /\ to' = Stored(to, c, Token(1).v) /\ pos' = pos + 1
       /\ todo' = Tail(todo)
       /\ UNCHANGED <<mapping, fifo, phase>>

\* A pointer that needs no memory; visit maps what has been stored to itself.
deserialKnown(c, v, n) ==
  /\ to' = Stored(to, c, v) /\ pos' = pos + n
  /\ mapping' = add_mapping(mapping, v, v)
  /\ todo' = Tail(todo)
  /\ UNCHANGED <<fifo, phase>>

\* A string, read into new memory.
deserialString(c, present, new) ==
  IF Token(2).kind # "text" THEN Garbled
  ELSE /\ to' = Stored(Allocated(new, <<Token(2).v>>), c, new) /\ pos' = pos + 2
       /\ mapping' = add_mapping(add_mapping(mapping, present, new), new, new)
       /\ todo' = Tail(todo)
       /\ UNCHANGED <<fifo, phase>>

\* A struct or an array, in memory that is not initialised; the callback visits it before
\* visit maps the new address.
deserialObject(c, present, new, old) ==
  LET seen == add_mapping(mapping, present, new)
  IN  /\ to' = Stored(Allocated(new, [n \in 1 .. Len(Fields[c.type]) |-> old]), c, new) /\ pos' = pos + 1
      /\ IF c.type = "array"
         THEN mapping' = seen /\ todo' = CellsOf(new, "array") \o mapLater(new) \o Tail(todo) /\ UNCHANGED fifo
         ELSE mapping' = add_mapping(seen, new, new) /\ todo' = Tail(todo) /\ fifo' = Append(fifo, new)
      /\ UNCHANGED phase

deserial_ptr(c, new, old) ==
  LET present == Token(1)
  IN  IF present.kind # "ptr" THEN Garbled
      ELSE IF present.v = SER_SYMBOL
      THEN IF Token(2).kind # "text" THEN Garbled ELSE deserialKnown(c, Relocated[Token(2).v], 2)
      ELSE IF present.v = Null THEN deserialKnown(c, Null, 1)
      ELSE IF present.v \in DOMAIN mapping THEN deserialKnown(c, mapping[present.v], 1)
      ELSE IF c.type = "str" THEN deserialString(c, present.v, new)
      ELSE deserialObject(c, present.v, new, old)

\* visit of one cell with the callbacks deser_funs; a cell whose old contents has a mapping
\* runs into the assertion of deserial_ptr_mapped.
deserialCell(new, old) ==
  LET c == Head(todo)
  IN  /\ phase = "read" /\ todo # <<>>
      /\ IF c.op = "map"
         THEN mapping' = add_mapping(mapping, c.at, c.at) /\ todo' = Tail(todo) /\ UNCHANGED <<to, pos, fifo, phase>>
         ELSE IF c.type = "prim" THEN deserial_prim(c)
         ELSE IF to[c.at][c.i] \in DOMAIN mapping
         THEN phase' = "assert" /\ UNCHANGED <<to, pos, mapping, todo, fifo>>
         ELSE deserial_ptr(c, new, old)
      /\ UNCHANGED <<from, file>>

finishReading ==
  /\ phase = "read" /\ todo = <<>> /\ fifo = <<>>
  /\ phase' = "done"
  /\ UNCHANGED <<from, to, file, pos, mapping, todo, fifo>>

SerNext ==
  \/ nextTask \/ serialCell \/ do_deserialize
  \/ \E new \in Malloc(NewAddr \ DOMAIN to), old \in Leftover : deserialCell(new, old)
  \/ finishReading

-----------------------------------------------------------------------------
\* The reader takes every token for what the writer meant: it never reads a text where a
\* pointer was written, and at the end it has read all of them.
InStep == phase # "garbled" /\ (phase = "done" => pos = Len(file))

Reached == {file[i].v : i \in {n \in 1 .. Len(file) : file[n].kind = "ptr"}} \ {Null, SER_SYMBOL}
Image(v) == IF v \in Symbol THEN Relocated[v] ELSE IF v \in DOMAIN mapping THEN mapping[v] ELSE v

\* The heap comes back as it was, cycles, shared objects and symbols included: an object
\* that is reached in several ways is one object again, and two are not made one.
SameHeap ==
  phase = "done" =>
    /\ Reached \subseteq DOMAIN mapping
    /\ \A a, b \in Reached : mapping[a] = mapping[b] => a = b
    /\ \A a \in Reached : mapping[a] \in DOMAIN to /\ to[mapping[a]] = [n \in DOMAIN from[a] |-> Image(from[a][n])]
    /\ to[Globals] = [n \in DOMAIN from[Globals] |-> Image(from[Globals][n])]

\* deserial_ptr_mapped "will never get called, because "null" will never be mapped": only where
\* fresh memory still holds an address, one that has been read from the file or given out since.
AssertOnlyLeftover ==
  phase = "assert" =>
    LET c == Head(todo)
    IN  c.at # Globals /\ to[c.at][c.i] \in Leftover \ {Null}

\* A heap that checkpoint wrote and another process read is the same heap, and the reader was
\* in step with the writer all the way (serial_ptr, deserial_ptr, visit), or it stopped at the
\* assertion of deserial_ptr_mapped over what malloc left in its memory.
RoundTrip == InStep /\ SameHeap /\ AssertOnlyLeftover
=============================================================================
