------------------------------- MODULE ZipMap -------------------------------
(***************************************************************************)
(* The packed representation of small hashes in redis                      *)
(* (examples/redis-2.0.2/zipmap.c): one block of memory                    *)
(*                                                                         *)
(*   <zmlen><len>key<len><free>value ... <end>                             *)
(*                                                                         *)
(* that is re-packed in place when a value grows or shrinks.  The block is *)
(* a sequence of cells.  A cell of a string is the name of the string; a   *)
(* cell of a number is the number; what realloc adds is Junk.  The limits  *)
(* of the format are parameters, so that small blocks reach them.          *)
(***************************************************************************)
EXTENDS Integers, Sequences, FiniteSets, FiniteSetsExt

CONSTANTS Str,                     \* keys and values
          StrLen,                  \* their lengths
          ZKey,                    \* the strings that are keys
          ZIPMAP_BIGLEN,           \* lengths from here on take 1 + INTBYTES cells
          INTBYTES,
          ZIPMAP_VALUE_MAX_FREE,   \* more free cells than this are given back
          ZEND, Junk

ASSUME ZipLenAssumption == StrLen \in [Str -> Nat] /\ ZKey \subseteq Str
ASSUME ZipLimitAssumption == ZIPMAP_BIGLEN \in Nat \ {0} /\ INTBYTES \in Nat \ {0}

VARIABLES zm,     \* the block
          hash    \* what the map should hold: the value of each key, or Junk

zipvars == <<zm, hash>>

-----------------------------------------------------------------------------
Fill(c, n) == [i \in 1 .. n |-> c]

\* ZIPMAP_LEN_BYTES.
LenCells(l) == IF l < ZIPMAP_BIGLEN THEN 1 ELSE 1 + INTBYTES

zipmapEncodeLength(l) == IF l < ZIPMAP_BIGLEN THEN <<l>> ELSE <<ZIPMAP_BIGLEN, l>> \o Fill(0, INTBYTES - 1)

zipmapDecodeLength(z, p) == IF z[p] < ZIPMAP_BIGLEN THEN z[p] ELSE z[p + 1]

zipmapRequiredLength(klen, vlen) ==
  klen + vlen + 3 + (IF klen >= ZIPMAP_BIGLEN THEN INTBYTES ELSE 0) + (IF vlen >= ZIPMAP_BIGLEN THEN INTBYTES ELSE 0)

zipmapRawKeyLength(z, p) == LET l == zipmapDecodeLength(z, p) IN LenCells(l) + l

\* Length, free count, value and free cells.
zipmapRawValueLength(z, p) ==
  LET l == zipmapDecodeLength(z, p) IN LenCells(l) + 1 + l + z[p + LenCells(l)]

zipmapRawEntryLength(z, p) ==
  LET l == zipmapRawKeyLength(z, p) IN l + zipmapRawValueLength(z, p + l)

\* The string at p, behind its length, with skip cells between the two.
StringAt(z, p, skip) ==
  LET l == zipmapDecodeLength(z, p) IN SubSeq(z, p + LenCells(l) + skip, p + LenCells(l) + skip + l - 1)

Cells(s) == Fill(s, StrLen[s])

\* zipmapNext from entry to entry: where the entries begin, and where the end is.
Positions(z) ==
  LET walk[n \in 0 .. Len(z)] ==
        IF n = 0 THEN {2}
        ELSE LET before == walk[n - 1]
                 p == Max(before)
             IN  IF z[p] = ZEND THEN before ELSE before \cup {p + zipmapRawEntryLength(z, p)}
  IN  walk[Len(z)]

Starts(z) == {p \in Positions(z) : z[p] # ZEND}

\* zipmapLookupRaw: the entry of key k, or 0; and the length of the block.
zipmapLookupRaw(z, k) ==
  LET hits == {p \in Starts(z) : zipmapDecodeLength(z, p) = StrLen[k] /\ StringAt(z, p, 0) = Cells(k)}
  IN  IF hits = {} THEN 0 ELSE CHOOSE p \in hits : \A q \in hits : p <= q
TotLen(z) == CHOOSE p \in Positions(z) : z[p] = ZEND

\* realloc: cells are lost or come as junk; the last one becomes the end.
zipmapResize(z, len) ==
  [i \in 1 .. len |-> IF i = len THEN ZEND ELSE IF i <= Len(z) THEN z[i] ELSE Junk]

memmove(z, to, from, n) ==
  [i \in DOMAIN z |-> IF i >= to /\ i < to + n THEN z[i - to + from] ELSE z[i]]

Write(z, p, cells) == [i \in DOMAIN z |-> IF i >= p /\ i < p + Len(cells) THEN cells[i - p + 1] ELSE z[i]]

\* Mutant of Grown: the tail loses its last cell.
MutGrown(z, p, freelen, reqlen) ==
  LET zmlen == TotLen(z)
      r == zipmapResize(z, zmlen - freelen + reqlen)
  IN  memmove(r, p + reqlen, p + freelen, zmlen - (p + freelen + 1))

\* The entry at p does not fit: the block is enlarged and its tail moved, all but
\* the end cell ("the +1 is caused by the end-of-zipmap byte").
Grown(z, p, freelen, reqlen) ==
  LET zmlen == TotLen(z)
      r == zipmapResize(z, zmlen - freelen + reqlen)
  IN  memmove(r, p + reqlen, p + freelen, zmlen - (p - 1 + freelen + 1))

\* There is too much room: the tail moves to the front and the block shrinks.
Shrunk(z, p, freelen, reqlen) ==
  LET zmlen == TotLen(z)
  IN  zipmapResize(memmove(z, p + reqlen, p + freelen, zmlen - (p - 1 + freelen + 1)), zmlen - (freelen - reqlen))

TooMuch(empty) == empty >= ZIPMAP_VALUE_MAX_FREE

\* The count of entries stops at ZIPMAP_BIGLEN.
Count(n) == IF n < ZIPMAP_BIGLEN THEN n + 1 ELSE n

zipmapSet(z, k, v) ==
  LET p0 == zipmapLookupRaw(z, k)
      zmlen == TotLen(z)
      reqlen == zipmapRequiredLength(StrLen[k], StrLen[v])
      p == IF p0 = 0 THEN zmlen ELSE p0
      freelen == IF p0 = 0 THEN reqlen ELSE zipmapRawEntryLength(z, p0)
      empty == freelen - reqlen
      room == IF p0 = 0 THEN [zipmapResize(z, zmlen + reqlen) EXCEPT ![1] = Count(@)]
              ELSE IF empty < 0 THEN Grown(z, p, freelen, reqlen)
              ELSE IF TooMuch(empty) THEN Shrunk(z, p, freelen, reqlen)
              ELSE z
      vempty == IF empty < 0 \/ TooMuch(empty) THEN 0 ELSE empty
  IN  Write(room, p, zipmapEncodeLength(StrLen[k]) \o Cells(k) \o zipmapEncodeLength(StrLen[v]) \o <<vempty>> \o Cells(v))

zipmapDel(z, k) ==
  LET p == zipmapLookupRaw(z, k)
      freelen == zipmapRawEntryLength(z, p)
      zmlen == TotLen(z)
  IN  IF p = 0 THEN z
      ELSE [zipmapResize(memmove(z, p, p + freelen, zmlen - (p - 1 + freelen + 1)), zmlen - freelen)
              EXCEPT ![1] = IF @ < ZIPMAP_BIGLEN THEN @ - 1 ELSE @]

zipmapGet(z, k) ==
  LET p == zipmapLookupRaw(z, k) IN StringAt(z, p + zipmapRawKeyLength(z, p), 1)

\* zipmapLen: the count, or a walk where the count has stopped.
zipmapLen(z) == IF z[1] < ZIPMAP_BIGLEN THEN z[1] ELSE Cardinality(Starts(z))

-----------------------------------------------------------------------------
\* zipmapNew.
ZipInit == zm = <<0, ZEND>> /\ hash = [k \in ZKey |-> Junk]

ZipSet(k, v) ==
  /\ zm' = zipmapSet(zm, k, v)
  /\ hash' = [hash EXCEPT ![k] = v]

ZipDel(k) ==
  /\ zm' = zipmapDel(zm, k)
  /\ hash' = [hash EXCEPT ![k] = Junk]

\* zipmapLen "re-stores length if small enough".
ZipLen ==
  /\ zipmapLen(zm) < ZIPMAP_BIGLEN
  /\ zm' = [zm EXCEPT ![1] = zipmapLen(zm)]
  /\ UNCHANGED hash

ZipNext == (\E k \in ZKey : ZipDel(k) \/ \E v \in Str : ZipSet(k, v)) \/ ZipLen

ZipSpec == ZipInit /\ [][ZipNext]_zipvars

-----------------------------------------------------------------------------
Filled == {k \in ZKey : hash[k] # Junk}

\* The block is one entry after the other up to its last cell, and what it holds is
\* what was set last: a value that grew or shrank has not run over its neighbours,
\* and no cell that realloc added is read as part of a string.
BlockHolds ==
  /\ TotLen(zm) = Len(zm)
  /\ Cardinality(Starts(zm)) = Cardinality(Filled)
  /\ \A k \in ZKey : IF k \in Filled THEN zipmapLookupRaw(zm, k) # 0 /\ zipmapGet(zm, k) = Cells(hash[k])
                     ELSE zipmapLookupRaw(zm, k) = 0

\* "When the zipmap length is greater than or equal to 254, this value is not used
\* and the zipmap needs to be traversed": HLEN is right on both sides of the limit
\* and after coming back from it.
LengthRight == zipmapLen(zm) = Cardinality(Filled)

\* "<free> is always an unsigned 8 bit number": a block never keeps more free cells in
\* an entry than ZIPMAP_VALUE_MAX_FREE allows.
FreeBounded ==
  \A p \in Starts(zm) :
    LET q == p + zipmapRawKeyLength(zm, p) IN zm[q + LenCells(zipmapDecodeLength(zm, q))] < ZIPMAP_VALUE_MAX_FREE

\* Setting and deleting move what is behind the entry inside a block that is resized, and
\* leave a block that reads as the hash that was set, with its length (zipmapSet, zipmapDel).
ZipmapSound == BlockHolds /\ LengthRight /\ FreeBounded
=============================================================================
