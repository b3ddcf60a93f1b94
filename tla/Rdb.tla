-------------------------------- MODULE Rdb --------------------------------
(***************************************************************************)
(* The dump file of redis (examples/redis-2.0.2/redis.c, "RDB saving and   *)
(* loading"): how lengths, integers, doubles and values become bytes and   *)
(* how a server that starts reads them back.  rdbSave writes the file or   *)
(* fails on the way; rdbLoad reads it record by record, perhaps a copy     *)
(* that is cut short.                                                      *)
(*                                                                         *)
(* A byte has W bits instead of eight, so that every width of the format   *)
(* is reached with small numbers.  Strings are sequences of bytes; the     *)
(* file is one too, its signature and version in one cell.                 *)
(***************************************************************************)
EXTENDS Integers, Sequences, SequencesExt, FiniteSetsExt

CONSTANTS W,                  \* bits of a byte
          IntText,            \* longest text that is tried as an integer (11)
          LzfMin,             \* longest string that is not compressed (20)
          LongMax,            \* largest long
          hash_max_zipmap_entries, hash_max_zipmap_value,
          DbId,               \* databases, those below server.dbnum
          Datasets,           \* what the server may hold: see dataset
          Times               \* values of the clock

ASSUME RdbWidths == W \in Nat /\ W >= 5 /\ LongMax >= 2^(4 * W - 1)
ASSUME RdbLimits == {IntText, LzfMin, hash_max_zipmap_entries, hash_max_zipmap_value} \subseteq Nat

VARIABLES dataset,   \* per database a sequence of entries, in the order of the hash table
          now,       \* the clock
          dump,      \* the dump file; <<>> is no file, or an empty one once it is not whole
          whole,     \* the file is as rdbSave left it
          loader     \* rdbLoad: where it reads, into which database, what it has, and how it ended

rdbvars == <<dataset, now, dump, whole, loader>>

B == 2^W                   \* bytes are 0 .. B - 1
Q == 2^(W - 2)             \* what is left of a byte beside two bits of type
UINT_MAX == 2^(4 * W) - 1

\* Characters.
NUL == 0
Digit == 1 .. 10           \* "0" .. "9"
MINUS == 11
DOT == 12
SPACE == 13

\* Types of values, and the other bytes that begin a record.
REDIS_STRING == 0
REDIS_LIST == 1
REDIS_SET == 2
REDIS_ZSET == 3
REDIS_HASH == 4
EXPIRETIME == B - 3
SELECTDB == B - 2
EOF == B - 1
MAGIC == -1                \* REDIS0001

-----------------------------------------------------------------------------
(* Numbers and text *)

Abs(v) == IF v < 0 THEN -v ELSE v

ll2string(v) ==
  LET k == CHOOSE n \in 1 .. 9 : Abs(v) < 10^n /\ (n = 1 \/ Abs(v) >= 10^(n - 1))
      digits == [i \in 1 .. k |-> ((Abs(v) \div 10^(k - i)) % 10) + 1]
  IN  IF v < 0 THEN <<MINUS>> \o digits ELSE digits

\* strtol of memory that begins with s: the number, and how many bytes it takes.
\* Nothing is converted without a digit; what does not fit a long is LongMax.
Blanks(mem) == Min({i \in 0 .. Len(mem) : i = Len(mem) \/ mem[i + 1] # SPACE})
DigitsEnd(mem, from) == Min({i \in from .. Len(mem) : i = Len(mem) \/ mem[i + 1] \notin Digit})
Decimal(digits) ==
  IF Len(digits) > 6 THEN LongMax
  ELSE LET v[i \in 0 .. Len(digits)] == IF i = 0 THEN 0 ELSE 10 * v[i - 1] + digits[i] - 1 IN Min({v[Len(digits)], LongMax})
Converted(mem, sign, from, to) ==
  IF to = from THEN [v |-> 0, end |-> 0]
  ELSE [v |-> (IF sign THEN -1 ELSE 1) * Decimal(SubSeq(mem, from + 1, to)), end |-> to]
AfterSign(mem, sign, from) == Converted(mem, sign, from, DigitsEnd(mem, from))
AfterBlanks(mem, n) == IF n < Len(mem) /\ mem[n + 1] = MINUS THEN AfterSign(mem, TRUE, n + 1) ELSE AfterSign(mem, FALSE, n)
strtoll(mem) == AfterBlanks(mem, Blanks(mem))

\* n bytes of the two's complement of v, the lowest first.
LittleEndian(v, n) == [i \in 1 .. n |-> (v \div B^(i - 1)) % B]
Unsigned(bytes) == LET u[i \in 0 .. Len(bytes)] == IF i = 0 THEN 0 ELSE u[i - 1] + bytes[i] * B^(i - 1) IN u[Len(bytes)]
TwosComplement(u, n) == IF u < B^n \div 2 THEN u ELSE u - B^n
Signed(bytes) == TwosComplement(Unsigned(bytes), Len(bytes))

\* memory that begins with string s and ends in a zero
Sds(s) == s \o <<NUL>>

\* Mutant of Canonical: the length of the text is not compared.
MutCanonical(mem, len) ==
  LET p == strtoll(mem) IN mem[p.end + 1] = NUL /\ Len(ll2string(p.v)) >= len /\ SubSeq(ll2string(p.v), 1, len) = SubSeq(mem, 1, len)

\* The string of this length at mem is the text of a number, exactly as ll2string writes it.
Canonical(mem, len) ==
  LET p == strtoll(mem)
  IN  mem[p.end + 1] = NUL /\ Len(ll2string(p.v)) = len /\ ll2string(p.v) = SubSeq(mem, 1, len)

isStringRepresentableAsLong(s) == Canonical(Sds(s), Len(s))

\* As an object: an integer if it can be one, otherwise the string itself.
tryObjectEncoding(s) ==
  IF isStringRepresentableAsLong(s) THEN [int |-> TRUE, v |-> strtoll(Sds(s)).v, s |-> <<>>]
  ELSE [int |-> FALSE, v |-> 0, s |-> s]

getDecodedObject(o) == IF o.int THEN ll2string(o.v) ELSE o.s

-----------------------------------------------------------------------------
(* Saving: what is written *)

rdbSaveLen(len) ==
  IF len < Q THEN <<len>>
  ELSE IF len < Q * B THEN <<Q + len \div B, len % B>>
  ELSE <<2 * Q>> \o Reverse(LittleEndian(len, 4))

\* <<>> if the value fits no integer encoding
rdbEncodeInteger(v) ==
  IF v >= -(B \div 2) /\ v <= B \div 2 - 1 THEN <<3 * Q>> \o LittleEndian(v, 1)
  ELSE IF v >= -(B^2 \div 2) /\ v <= B^2 \div 2 - 1 THEN <<3 * Q + 1>> \o LittleEndian(v, 2)
  ELSE IF v >= -(B^4 \div 2) /\ v <= B^4 \div 2 - 1 THEN <<3 * Q + 2>> \o LittleEndian(v, 4)
  ELSE <<>>

rdbTryIntegerEncoding(mem, len) == IF Canonical(mem, len) THEN rdbEncodeInteger(strtoll(mem).v) ELSE <<>>

\* The compressor: here it finds strings of one repeated byte. <<>> if that does not pay.
lzf_compress(s, outlen) ==
  IF \A i \in 1 .. Len(s) : s[i] = s[1] THEN LET c == <<s[1], B - 1>> IN IF Len(c) <= outlen THEN c ELSE <<>>
  ELSE <<>>
lzf_decompress(c, len) == [i \in 1 .. len |-> c[1]]

rdbSaveLzfStringObject(s) ==
  LET c == IF Len(s) <= 4 THEN <<>> ELSE lzf_compress(s, Len(s) - 4)
  IN  IF c = <<>> THEN <<>> ELSE <<3 * Q + 3>> \o rdbSaveLen(Len(c)) \o rdbSaveLen(Len(s)) \o c

\* The string is the first len bytes at mem: strtoll sees what follows it.
rdbSaveRawString(mem, len) ==
  LET s == SubSeq(mem, 1, len)
      int == IF len <= IntText THEN rdbTryIntegerEncoding(mem, len) ELSE <<>>
      lzf == IF len > LzfMin THEN rdbSaveLzfStringObject(s) ELSE <<>>
  IN  IF int # <<>> THEN int ELSE IF lzf # <<>> THEN lzf ELSE rdbSaveLen(len) \o s

rdbSaveStringObject(o) ==
  LET int == IF o.int THEN rdbEncodeInteger(o.v) ELSE <<>>
      s == getDecodedObject(o)
  IN  IF int # <<>> THEN int ELSE rdbSaveRawString(Sds(s), Len(s))

\* A score is <<"num", h>>, h halves, or one of <<"nan", 0>>, <<"inf", 1>>, <<"inf", -1>>.
DoubleText(h) ==
  (IF h < 0 THEN <<MINUS>> ELSE <<>>) \o ll2string(Abs(h) \div 2) \o (IF h % 2 = 1 THEN <<DOT, 6>> ELSE <<>>)

rdbSaveDoubleValue(score) ==
  CASE score[1] = "nan" -> <<B - 3>>
    [] score[1] = "inf" -> <<IF score[2] < 0 THEN B - 1 ELSE B - 2>>
    [] OTHER -> <<Len(DoubleText(score[2]))>> \o DoubleText(score[2])

\* The memory of a zipmap: every string with its length before it, a value also
\* with its number of free bytes (ZipMap.tla).
ZipmapBlock(items) ==
  FlattenSeq([i \in 1 .. Len(items) |-> <<Len(items[i])>> \o (IF i % 2 = 0 THEN <<0>> ELSE <<>>) \o items[i]]) \o <<B - 1>>

\* Where the i-th string of the zipmap begins: the number of bytes before it.
ZipmapString(items, i) ==
  LET before == [j \in 1 .. i |-> (IF j % 2 = 0 THEN 2 ELSE 1) + (IF j < i THEN Len(items[j]) ELSE 0)]
  IN  FoldLeft(LAMBDA n, k : n + k, 0, before)

\* Values: a type, an encoding (zipmap or not), the strings, and the scores of a
\* sorted set.  A string is one string; a hash alternates fields and values.
Value(type, zipmap, items, scores) == [type |-> type, zipmap |-> zipmap, items |-> items, scores |-> scores]

Elements(type, items) == IF type = REDIS_HASH THEN Len(items) \div 2 ELSE Len(items)

rdbSaveObject(o) ==
  LET block == ZipmapBlock(o.items)
      Raw(i) == LET at == ZipmapString(o.items, i) IN rdbSaveRawString(SubSeq(block, at + 1, Len(block)), Len(o.items[i]))
      One(i) == CASE o.zipmap -> Raw(i)
                  [] o.type = REDIS_ZSET -> rdbSaveStringObject(tryObjectEncoding(o.items[i])) \o rdbSaveDoubleValue(o.scores[i])
                  [] OTHER -> rdbSaveStringObject(tryObjectEncoding(o.items[i]))
  IN  (IF o.type = REDIS_STRING THEN <<>> ELSE rdbSaveLen(Elements(o.type, o.items)))
      \o FlattenSeq([i \in 1 .. Len(o.items) |-> One(i)])

rdbSaveTime(t) == LittleEndian(t, 4)

\* One entry: nothing if its time has passed.
SaveEntry(e) ==
  IF e.exp # -1 /\ e.exp < now THEN <<>>
  ELSE (IF e.exp # -1 THEN <<EXPIRETIME>> \o rdbSaveTime(e.exp) ELSE <<>>)
       \o <<e.val.type>> \o rdbSaveStringObject([int |-> FALSE, v |-> 0, s |-> e.key]) \o rdbSaveObject(e.val)

\* The databases in ascending order.
DbSeq == SetToSortSeq(DbId, <)

SavedFile ==
  <<MAGIC>>
  \o FlattenSeq([j \in 1 .. Len(DbSeq) |->
       IF dataset[DbSeq[j]] = <<>> THEN <<>>
       ELSE <<SELECTDB>> \o rdbSaveLen(DbSeq[j]) \o FlattenSeq([i \in 1 .. Len(dataset[DbSeq[j]]) |-> SaveEntry(dataset[DbSeq[j]][i])])])
  \o <<EOF>>

-----------------------------------------------------------------------------
(* Loading.  A reader of file f at offset p returns what it read and where it is
   then, or Short. *)

Got(v, p) == [ok |-> TRUE, enc |-> FALSE, v |-> v, p |-> p]
Short == [ok |-> FALSE, enc |-> FALSE, v |-> 0, p |-> 0]

fread(f, p, n) == IF p + n <= Len(f) THEN Got(SubSeq(f, p + 1, p + n), p + n) ELSE Short

\* A length, or (enc) the kind of an encoded string.  UINT_MAX is an error.
LongLen(r) == IF r.ok /\ Unsigned(Reverse(r.v)) # UINT_MAX THEN Got(Unsigned(Reverse(r.v)), r.p) ELSE Short
rdbLoadLen(f, p) ==
  IF p >= Len(f) THEN Short
  ELSE LET b == f[p + 1] IN
       CASE b < Q -> Got(b, p + 1)
         [] b >= 3 * Q -> [Got(b - 3 * Q, p + 1) EXCEPT !.enc = TRUE]
         [] b >= Q /\ b < 2 * Q -> IF p + 2 <= Len(f) THEN Got((b - Q) * B + f[p + 2], p + 2) ELSE Short
         [] OTHER -> LongLen(fread(f, p + 1, 4))

rdbLoadIntegerObject(f, p, enctype) ==
  LET r == fread(f, p, CASE enctype = 0 -> 1 [] enctype = 1 -> 2 [] OTHER -> 4)
  IN  IF r.ok THEN Got(ll2string(Signed(r.v)), r.p) ELSE Short

Unpacked(clen, len, c) == IF clen.ok /\ len.ok /\ c.ok /\ clen.v > 0 THEN Got(lzf_decompress(c.v, len.v), c.p) ELSE Short
LzfAfter(f, clen, len) == Unpacked(clen, len, fread(f, len.p, clen.v))
LzfLen(f, clen) == LzfAfter(f, clen, rdbLoadLen(f, clen.p))
rdbLoadLzfStringObject(f, p) == LzfLen(f, rdbLoadLen(f, p))

\* An encoding that is none of the four ends the server too (redisPanic).
StringAfter(f, r) ==
  CASE ~r.ok -> Short
    [] r.enc /\ r.v <= 2 -> rdbLoadIntegerObject(f, r.p, r.v)
    [] r.enc /\ r.v = 3 -> rdbLoadLzfStringObject(f, r.p)
    [] r.enc -> Short
    [] OTHER -> fread(f, r.p, r.v)

rdbGenericLoadStringObject(f, p) == StringAfter(f, rdbLoadLen(f, p))

\* sscanf of a text that DoubleText wrote.
Halves(t, p) == 2 * Abs(p.v) + (IF p.end < Len(t) /\ t[p.end + 1] = DOT THEN 1 ELSE 0)
ParseDouble(t) == <<"num", (IF t # <<>> /\ t[1] = MINUS THEN -1 ELSE 1) * Halves(t, strtoll(Sds(t)))>>

DoubleOf(r) == IF r.ok THEN Got(ParseDouble(r.v), r.p) ELSE Short
DoubleAfter(f, len) ==
  CASE ~len.ok -> Short
    [] len.v[1] = B - 1 -> Got(<<"inf", -1>>, len.p)
    [] len.v[1] = B - 2 -> Got(<<"inf", 1>>, len.p)
    [] len.v[1] = B - 3 -> Got(<<"nan", 0>>, len.p)
    [] len.v[1] = 0 -> Short
    [] OTHER -> DoubleOf(fread(f, len.p, len.v[1]))
rdbLoadDoubleValue(f, p) == DoubleAfter(f, fread(f, p, 1))

\* n elements of a value of this type, from offset p.  Every element takes a byte at
\* least, so one more than there are bytes cannot be read.
Items(ok, p, items, scores) == [ok |-> ok, p |-> p, items |-> items, scores |-> scores]
Scored(r, s, d) == Items(d.ok, d.p, Append(r.items, s.v), Append(r.scores, d.v))
Paired(r, s, v) == Items(v.ok, v.p, r.items \o <<s.v, v.v>>, <<>>)
WithString(type, f, r, s) ==
  CASE ~s.ok -> [r EXCEPT !.ok = FALSE]
    [] type = REDIS_ZSET -> Scored(r, s, rdbLoadDoubleValue(f, s.p))
    [] type = REDIS_HASH -> Paired(r, s, rdbGenericLoadStringObject(f, s.p))
    [] OTHER -> Items(TRUE, s.p, Append(r.items, s.v), <<>>)
WithItem(type, f, r) == IF r.ok THEN WithString(type, f, r, rdbGenericLoadStringObject(f, r.p)) ELSE r
LoadItems(type, f, p, n) ==
  LET upto[i \in 0 .. Min({n, Len(f) - p + 1})] ==
        IF i = 0 THEN Items(TRUE, p, <<>>, <<>>) ELSE WithItem(type, f, upto[i - 1])
  IN  upto[Min({n, Len(f) - p + 1})]

\* A hash is loaded into a zipmap unless it is large or a string of it is long.
StaysZipmap(items) ==
  /\ Len(items) \div 2 <= hash_max_zipmap_entries
  /\ \A i \in 1 .. Len(items) : Len(items[i]) <= hash_max_zipmap_value

Loaded(type, r) ==
  IF r.ok THEN Got(Value(type, type = REDIS_HASH /\ StaysZipmap(r.items), r.items, r.scores), r.p) ELSE Short
ObjectAfter(type, f, len) == IF len.ok THEN Loaded(type, LoadItems(type, f, len.p, len.v)) ELSE Short
rdbLoadObject(type, f, p) == ObjectAfter(type, f, IF type = REDIS_STRING THEN Got(1, p) ELSE rdbLoadLen(f, p))

-----------------------------------------------------------------------------
NoLoader == [state |-> "none", p |-> 0, db |-> 0, data |-> [d \in DbId |-> <<>>]]

\* The server has its dataset from the commands of clients, and no file yet.
RdbInit ==
  /\ dataset \in Datasets
  /\ now = Min(Times)
  /\ dump = <<>> /\ whole = TRUE
  /\ loader = NoLoader

\* SAVE, BGSAVE's child, SHUTDOWN.  Only a complete temporary file is renamed; one that
\* could not be written to its end is removed.
rdbSave(complete) ==
  /\ loader.state = "none" /\ dump = <<>> /\ whole
  /\ dump' = IF complete THEN SavedFile ELSE dump
  /\ UNCHANGED <<dataset, now, whole, loader>>

\* The file is copied elsewhere and the copy is cut short, by a transfer or a full disk.
cutShort(n) ==
  /\ loader.state = "none" /\ dump # <<>> /\ whole
  /\ n < Len(dump)
  /\ dump' = SubSeq(dump, 1, n) /\ whole' = FALSE
  /\ UNCHANGED <<dataset, now, loader>>

\* A server starts on the file at time t, with nothing in memory.
startLoad(t) ==
  /\ loader.state = "none" /\ (dump # <<>> \/ ~whole) /\ t >= now
  /\ loader' = IF dump = <<>> THEN [loader EXCEPT !.state = "exit"]
               ELSE [loader EXCEPT !.state = IF dump[1] = MAGIC THEN "reading" ELSE "error", !.p = 1]
  /\ now' = t
  /\ UNCHANGED <<dataset, dump, whole>>

TimeOf(r) == IF r.ok /\ Signed(r.v) # -1 THEN Got(Signed(r.v), r.p) ELSE Short
rdbLoadTime(f, p) == TimeOf(fread(f, p, 4))

rdbLoadType(f, p) == IF p < Len(f) THEN Got(f[p + 1], p + 1) ELSE Short

\* One record of rdbLoad: a time and a type, then a database number or an entry.
\* Whatever cannot be read, and a key that is there already, ends the server.
LoadExit == [loader EXCEPT !.state = "exit"]
SelectDb(id) == IF id.ok /\ id.v <= Max(DbId) THEN [loader EXCEPT !.p = id.p, !.db = id.v] ELSE LoadExit
Known(k) == \E i \in 1 .. Len(loader.data[loader.db]) : loader.data[loader.db][i].key = k
AddEntry(exp, key, val) ==
  CASE ~val.ok -> LoadExit
    [] exp # -1 /\ exp < now -> [loader EXCEPT !.p = val.p]
    [] Known(key.v) -> LoadExit
    [] OTHER -> [loader EXCEPT !.p = val.p, !.data[loader.db] = Append(@, [key |-> key.v, val |-> val.v, exp |-> exp])]
LoadPair(exp, type, key) == IF key.ok THEN AddEntry(exp, key, rdbLoadObject(type, dump, key.p)) ELSE LoadExit
LoadTyped(exp, type) ==
  CASE ~exp.ok \/ ~type.ok -> LoadExit
    [] type.v = EOF -> [loader EXCEPT !.state = "ok", !.p = type.p]
    [] type.v = SELECTDB -> SelectDb(rdbLoadLen(dump, type.p))
    [] type.v > REDIS_HASH -> LoadExit
    [] OTHER -> LoadPair(exp.v, type.v, rdbGenericLoadStringObject(dump, type.p))
LoadAfter(exp, type) == LoadTyped(exp, IF exp.v = -1 THEN type ELSE rdbLoadType(dump, exp.p))
LoadTimed(type) == LoadAfter(IF type.ok /\ type.v = EXPIRETIME THEN rdbLoadTime(dump, type.p) ELSE Got(-1, type.p), type)

loadRecord ==
  /\ loader.state = "reading"
  /\ loader' = LoadTimed(rdbLoadType(dump, loader.p))
  /\ UNCHANGED <<dataset, now, dump, whole>>

RdbNext ==
  \/ \E complete \in BOOLEAN : rdbSave(complete)
  \/ \E n \in 0 .. Len(dump) : cutShort(n)
  \/ \E t \in Times : startLoad(t)
  \/ loadRecord

-----------------------------------------------------------------------------
\* rdbSave writes bytes: every number was cut to its byte by the shifts and masks of
\* rdbSaveLen and rdbEncodeInteger; rdbLoad stays inside the file.
RdbTypeOK ==
  /\ dataset \in Datasets /\ now \in Times
  /\ \A i \in 1 .. Len(dump) : dump[i] \in 0 .. B - 1 \/ (i = 1 /\ dump[i] = MAGIC)
  /\ loader.state \in {"none", "reading", "ok", "exit", "error"} /\ loader.p <= Len(dump) /\ loader.db \in DbId

\* Expire times are 32 bits in the file: larger ones come back as something else.
TimesFit == \A d \in DbId, i \in 1 .. 5 : i <= Len(dataset[d]) => dataset[d][i].exp < B^4 \div 2

\* What a server has after loading a complete file is what the server that saved it
\* had: every type of value with its elements in order, texts of numbers as they were
\* typed, infinite scores, times; only what expired in between is missing, and small
\* hashes are zipmaps again.
LoadedIsSaved ==
  loader.state \in {"ok", "exit", "error"} /\ whole /\ TimesFit =>
    /\ loader.state = "ok"
    /\ \A d \in DbId :
         LET kept == SelectSeq(dataset[d], LAMBDA e : e.exp = -1 \/ e.exp >= now)
         IN  /\ Len(kept) = Len(loader.data[d])
             /\ \A i \in 1 .. Len(kept) :
                  LET e == loader.data[d][i]
                  IN  /\ [e EXCEPT !.val.zipmap = FALSE] = [kept[i] EXCEPT !.val.zipmap = FALSE]
                      /\ e.val.zipmap => e.val.type = REDIS_HASH /\ Len(e.val.items) <= 2 * hash_max_zipmap_entries
                                         /\ \A j \in 1 .. Len(e.val.items) : Len(e.val.items[j]) <= hash_max_zipmap_value

\* "unexpected end of file is handled here with a fatal exit": no server runs with
\* the first part of a dataset, wherever the file is cut.
PartRefused == loader.state = "ok" => whole /\ loader.p = Len(dump)
=============================================================================
