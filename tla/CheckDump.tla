----------------------------- MODULE CheckDump -----------------------------
(***************************************************************************)
(* redis-check-dump (examples/redis-2.0.2/redis-check-dump.c), which reads *)
(* a dump file with code of its own and tells whether it is in order.  On  *)
(* an entry that it cannot read it looks for the next place from which     *)
(* three entries can be read.                                              *)
(***************************************************************************)
EXTENDS Rdb

CONSTANT MaxDbNumber    \* the largest database number the checker takes (63)

ASSUME CheckDbAssumption == MaxDbNumber \in Nat

VARIABLE checker    \* its position, the errors it counted, the type of the last entry, and whether it ended

checkvars == <<checker>>

NoType == -1

-----------------------------------------------------------------------------
\* The reading functions are those of the server over a file in memory.
loadLength(f, p) == rdbLoadLen(f, p)
loadIntegerObject(f, p, enctype) == rdbLoadIntegerObject(f, p, enctype)

\* Only where a packed string ends matters here.
PackedAfter(f, clen, slen) == IF clen.ok /\ slen.ok /\ fread(f, slen.p, clen.v).ok THEN Got(<<>>, slen.p + clen.v) ELSE Short
PackedLen(f, clen) == PackedAfter(f, clen, loadLength(f, clen.p))
loadLzfStringObject(f, p) == PackedLen(f, loadLength(f, p))

TextAfter(f, r) ==
  CASE ~r.ok -> Short
    [] r.enc /\ r.v <= 2 -> loadIntegerObject(f, r.p, r.v)
    [] r.enc /\ r.v = 3 -> loadLzfStringObject(f, r.p)
    [] r.enc -> Short
    [] OTHER -> fread(f, r.p, r.v)
loadStringObject(f, p) == TextAfter(f, loadLength(f, p))

loadDoubleValue(f, p) ==
  LET len == fread(f, p, 1)
  IN  IF ~len.ok THEN Short
      ELSE IF len.v[1] >= B - 3 THEN Got(<<>>, len.p)
      ELSE fread(f, len.p, len.v[1])

\* A byte that can begin an entry.
loadType(f, p) == IF p < Len(f) /\ (f[p + 1] <= REDIS_HASH \/ f[p + 1] >= EXPIRETIME) THEN Got(f[p + 1], p + 1) ELSE Short

\* The key and the value of an entry of this type: where they end.
ElementAfter(type, f, s) ==
  CASE ~s.ok -> Short
    [] type = REDIS_ZSET -> loadDoubleValue(f, s.p)
    [] type = REDIS_HASH -> loadStringObject(f, s.p)
    [] OTHER -> s
ElementsAfter(type, f, len) ==
  LET bound == Min({len.v, Len(f) - len.p + 1})
      upto[i \in 0 .. bound] ==
        IF i = 0 THEN len ELSE IF upto[i - 1].ok THEN ElementAfter(type, f, loadStringObject(f, upto[i - 1].p)) ELSE Short
  IN  IF len.ok THEN upto[bound] ELSE Short
ValueAfter(type, f, key) ==
  IF ~key.ok \/ type > REDIS_HASH THEN Short
  ELSE ElementsAfter(type, f, IF type = REDIS_STRING THEN Got(1, key.p) ELSE loadLength(f, key.p))
loadPair(type, f, p) == ValueAfter(type, f, loadStringObject(f, p))

Entry(success, type, p) == [success |-> success, type |-> type, p |-> p]

\* One entry: a database number, the end (which must be that of the file), or a pair
\* with perhaps a time.  Every entry but the end must be followed by one.
BodyAfter(f, p, timed, type, body) ==
  IF body.ok THEN Entry((type # SELECTDB \/ timed \/ body.v <= MaxDbNumber) /\ loadType(f, body.p).ok, type, body.p)
  ELSE Entry(FALSE, type, p)
EntryAfter(f, p, timed, first, type) ==
  CASE ~type.ok -> Entry(FALSE, IF first.ok THEN first.v ELSE NoType, p)
    [] type.v = EOF /\ ~timed -> Entry(type.p = Len(f), EOF, type.p)
    [] OTHER -> BodyAfter(f, p, timed, type.v, IF type.v = SELECTDB /\ ~timed THEN loadLength(f, type.p) ELSE loadPair(type.v, f, type.p))
TypeAfter(f, timed, first) ==
  IF ~timed THEN first ELSE IF fread(f, first.p, 4).ok THEN loadType(f, first.p + 4) ELSE Short
TimeAfter(f, p, timed, first) == EntryAfter(f, p, timed, first, TypeAfter(f, timed, first))
FirstAfter(f, p, first) == TimeAfter(f, p, first.ok /\ first.v = EXPIRETIME, first)
loadEntry(f, p) == FirstAfter(f, p, loadType(f, p))

\* Up to three entries from offset p on: the last one that was read.
Then(f, e) == IF e.success THEN loadEntry(f, e.p) ELSE e
Three(f, p) == Then(f, Then(f, loadEntry(f, p)))

-----------------------------------------------------------------------------
CheckInit == checker = [state |-> "none", p |-> 0, errors |-> 0, type |-> NoType]

\* main and processHeader.  Until an entry is read, the variable that holds it is
\* not initialised: its type can be anything.
processHeader(garbage) ==
  /\ checker.state = "none" /\ loader.state = "none" /\ (dump # <<>> \/ ~whole)
  /\ checker' = IF dump = <<>> THEN [checker EXCEPT !.state = "exit"]
                ELSE IF dump[1] # MAGIC THEN [checker EXCEPT !.state = "exit"]
                ELSE [checker EXCEPT !.state = "reading", !.p = 1, !.type = garbage]
  /\ UNCHANGED rdbvars

\* One turn of the loop of process: an entry, or the search for the next readable place.
Readable == {o \in checker.p + 1 .. Len(dump) - 1 : Three(dump, o).success}
Failed(offset, e) == [checker EXCEPT !.p = offset, !.errors = @ + 1, !.type = e.type]
Search(e, at) ==
  IF at # {} THEN Failed(Min(at), Three(dump, Min(at)))
  ELSE Failed(Max({checker.p + 1, Len(dump)}), IF checker.p + 1 >= Len(dump) THEN e ELSE Three(dump, Len(dump) - 1))
CheckedEntry(e) == IF e.success THEN [checker EXCEPT !.p = e.p, !.type = e.type] ELSE Search(e, Readable)

processEntry ==
  /\ checker.state = "reading" /\ checker.p < Len(dump)
  /\ checker' = CheckedEntry(loadEntry(dump, checker.p))
  /\ UNCHANGED rdbvars

\* The last entry should have been the end.
processEnd ==
  /\ checker.state = "reading" /\ checker.p >= Len(dump)
  /\ checker' = [checker EXCEPT !.state = "done", !.errors = IF checker.type # EOF THEN @ + 1 ELSE @]
  /\ UNCHANGED rdbvars

CheckNext ==
  \/ \E garbage \in {NoType, EOF} : processHeader(garbage)
  \/ processEntry
  \/ processEnd

-----------------------------------------------------------------------------
\* The two readers of the format agree: a file that the server wrote has no errors
\* for the checker; one that is cut short anywhere is refused or has errors.  Only of
\* a file that is nothing but its header, whose type is not initialised, nothing can
\* be said.
CheckerAgrees ==
  checker.state \in {"exit", "done"} =>
    /\ whole => checker.state = "done" /\ checker.errors = 0
    /\ ~whole /\ Len(dump) # 1 => checker.state = "exit" \/ checker.errors > 0

\* The writer of dump files and both readers, rdbLoad and redis-check-dump, agree on every
\* value, every width and every place where a file may be cut.
DumpReadersSound == RdbTypeOK /\ LoadedIsSaved /\ PartRefused /\ CheckerAgrees
=============================================================================
