------------------------------ MODULE SkipList ------------------------------
(***************************************************************************)
(* The sorted sets of redis (examples/redis-2.0.2/redis.c, "ZSets"): a     *)
(* skip list with spans, from which ranks are computed, and next to it a   *)
(* hash table from elements to scores.  The actions are the commands that  *)
(* change a sorted set, each with the walk down the levels, the re-linking *)
(* and the arithmetic on spans that it does.                               *)
(*                                                                         *)
(* Elements are numbers, whose order is that of compareStringObjects.      *)
(* span[x][i] is the code's span[i-1]; level 0 has span 1.                 *)
(***************************************************************************)
EXTENDS Integers, Sequences, FiniteSets, FiniteSetsExt

CONSTANTS Obj,                  \* elements
          Score,
          ZSKIPLIST_MAXLEVEL

ASSUME SkipObjAssumption == Obj \subseteq Nat \ {0} /\ Score \subseteq Int
ASSUME SkipLevelAssumption == ZSKIPLIST_MAXLEVEL \in Nat \ {0}

VARIABLES zsl,     \* the skip list
          zdict    \* the hash table: pairs of element and score

skipvars == <<zsl, zdict>>

NIL == 0
Header == -1
Node == Obj \cup {Header}
Level == 0 .. ZSKIPLIST_MAXLEVEL - 1

ScoreOf(o) == (CHOOSE e \in zdict : e[1] = o)[2]
Members == {e[1] : e \in zdict}

-----------------------------------------------------------------------------
zslCreate ==
  [level |-> 1, length |-> 0, tail |-> NIL,
   forward |-> [x \in Node |-> [i \in Level |-> NIL]],
   span |-> [x \in Node |-> [i \in Level |-> IF i = 0 THEN 1 ELSE 0]],
   backward |-> [x \in Node |-> NIL],
   score |-> [x \in Node |-> 0]]

\* The walk from the highest level down.  Forward(x, i, r) tells whether it goes on
\* along level i from node x, after r elements.  The result is, for each level, the
\* node where it turns down (update) and the number of elements before it (rank).
Descend(z, Forward(_, _, _)) ==
  LET path[i \in 0 .. z.level] ==
        IF i = z.level THEN [update |-> Header, rank |-> 0]
        ELSE LET walk[n \in 0 .. Cardinality(Obj)] ==
                   IF n = 0 THEN path[i + 1]
                   ELSE LET p == walk[n - 1]
                        IN  IF z.forward[p.update][i] # NIL /\ Forward(p.update, i, p.rank)
                            THEN [update |-> z.forward[p.update][i], rank |-> p.rank + z.span[p.update][i]]
                            ELSE p
             IN  walk[Cardinality(Obj)]
  IN  path

\* Node n comes before (score, obj).
Before(z, n, score, obj) == z.score[n] < score \/ (z.score[n] = score /\ n < obj)

\* Mutant of LinkSpan: the new node takes the whole span of its predecessor.
MutSpanNotSplit(z, u, path, i) == z.span[u][i] - path[0].rank

\* What is left of a predecessor's span behind the new node.
LinkSpan(z, u, path, i) == z.span[u][i] - (path[0].rank - path[i].rank)

\* zslInsert with a node of the given level (zslRandomLevel).
zslInsert(z0, score, obj, level) ==
  LET walk == Descend(z0, LAMBDA x, i, r : Before(z0, z0.forward[x][i], score, obj))
      path == [i \in Level |-> IF i < z0.level THEN walk[i] ELSE [update |-> Header, rank |-> 0]]
      z == [z0 EXCEPT !.span[Header] = [i \in Level |-> IF i >= z0.level /\ i < level THEN z0.length ELSE @[i]],
                      !.level = Max({z0.level, level})]
      up(i) == path[i].update
      next == z.forward[up(0)][0]
      Linked(x, i) ==
        IF i < level /\ x = obj THEN z.forward[up(i)][i]
        ELSE IF i < level /\ x = up(i) THEN obj ELSE z.forward[x][i]
      Spanned(x, i) ==
        IF i = 0 THEN 1
        ELSE IF i < level /\ x = obj THEN LinkSpan(z, up(i), path, i)
        ELSE IF i < level /\ x = up(i) THEN (path[0].rank - path[i].rank) + 1
        ELSE IF i >= level /\ i < z.level /\ x = up(i) THEN z.span[x][i] + 1 ELSE z.span[x][i]
  IN  [z EXCEPT !.forward = [x \in Node |-> [i \in Level |-> Linked(x, i)]],
                !.span = [x \in Node |-> [i \in Level |-> Spanned(x, i)]],
                !.backward = [x \in Node |-> IF x = obj THEN (IF up(0) = Header THEN NIL ELSE up(0))
                                             ELSE IF x = next THEN obj ELSE @[x]],
                !.tail = IF next = NIL THEN obj ELSE @,
                !.score[obj] = score,
                !.length = @ + 1]

\* The span of predecessor n on level i without node x.
UnlinkSpan(z, x, n, i) == IF z.forward[n][i] = x THEN z.span[n][i] + z.span[x][i] - 1 ELSE z.span[n][i] - 1

\* The pointer back of node n without node x.
BackFrom(z, x, n) == IF n = z.forward[x][0] THEN z.backward[x] ELSE z.backward[n]

\* Unlinks node x, given the node of each level where the walk to it turned down,
\* and frees it: its fields are as in zslCreate again.
zslDeleteNode(z, x, path) ==
  LET fwd == [n \in Node |-> [i \in Level |-> IF i < z.level /\ n = path[i].update /\ z.forward[n][i] = x
                                              THEN z.forward[x][i] ELSE z.forward[n][i]]]
      Spanned(n, i) == IF i > 0 /\ i < z.level /\ n = path[i].update THEN UnlinkSpan(z, x, n, i) ELSE z.span[n][i]
  IN  [z EXCEPT !.forward = [fwd EXCEPT ![x] = [i \in Level |-> NIL]],
                !.span = [n \in Node |-> [i \in Level |-> IF n = x /\ i > 0 THEN 0 ELSE Spanned(n, i)]],
                !.backward = [n \in Node |-> IF n = x THEN NIL ELSE BackFrom(z, x, n)],
                !.tail = IF z.forward[x][0] = NIL THEN z.backward[x] ELSE @,
                !.score[x] = 0,
                !.level = Max({1} \cup {i + 1 : i \in {j \in Level : j < z.level /\ fwd[Header][j] # NIL}}),
                !.length = @ - 1]

zslDelete(z, score, obj) ==
  LET path == Descend(z, LAMBDA x, i, r : Before(z, z.forward[x][i], score, obj))
      x == z.forward[path[0].update][0]
  IN  IF x # NIL /\ z.score[x] = score /\ x = obj THEN zslDeleteNode(z, x, path) ELSE z

\* Deletes nodes from the one after the walk on, with one update array for all of
\* them, as long as More(x, n) holds of the next node x, which is the n-th of the list.
DeleteRun(z, path, More(_, _, _)) ==
  LET del[n \in 0 .. Cardinality(Obj)] ==
        IF n = 0 THEN z
        ELSE LET p == del[n - 1]
                 x == p.forward[path[0].update][0]
             IN  IF x # NIL /\ More(p, x, path[0].rank + n) THEN zslDeleteNode(p, x, path) ELSE p
  IN  del[Cardinality(Obj)]

zslDeleteRangeByScore(z, min, max) ==
  DeleteRun(z, Descend(z, LAMBDA x, i, r : z.score[z.forward[x][i]] < min), LAMBDA p, x, n : p.score[x] <= max)

zslDeleteRangeByRank(z, start, end) ==
  DeleteRun(z, Descend(z, LAMBDA x, i, r : r + z.span[x][i] < start), LAMBDA p, x, n : n <= end)

zslFirstWithScore(z, score) ==
  z.forward[Descend(z, LAMBDA x, i, r : z.score[z.forward[x][i]] < score)[0].update][0]

\* The rank is that of the highest level whose walk ends at the element.
zslGetRank(z, score, o) ==
  LET path == Descend(z, LAMBDA x, i, r : Before(z, z.forward[x][i], score, o) \/ z.forward[x][i] = o)
      at == {i \in 0 .. z.level - 1 : path[i].update = o}
  IN  IF at = {} THEN 0 ELSE path[Max(at)].rank

zslGetElementByRank(z, rank) ==
  LET path == Descend(z, LAMBDA x, i, r : r + z.span[x][i] <= rank)
      at == {i \in 0 .. z.level - 1 : path[i].rank = rank}
  IN  IF at = {} THEN NIL ELSE path[Max(at)].update

-----------------------------------------------------------------------------
(* The commands that read a sorted set: their replies *)

\* n elements from node ln on, forward or backward.
Walk(z, ln, n, reverse) ==
  LET at[j \in 1 .. n] == IF j = 1 THEN ln ELSE IF reverse THEN z.backward[at[j - 1]] ELSE z.forward[at[j - 1]][0]
  IN  [j \in 1 .. n |-> at[j]]

\* The node at index start, from either end.
StartNode(z, start, reverse) ==
  IF reverse THEN (IF start = 0 THEN z.tail ELSE zslGetElementByRank(z, z.length - start))
  ELSE IF start = 0 THEN z.forward[Header][0] ELSE zslGetElementByRank(z, start + 1)

\* ZRANGE and ZREVRANGE.
zrangeGenericCommand(z, start0, end0, reverse) ==
  LET llen == z.length
      start == Max({IF start0 < 0 THEN llen + start0 ELSE start0, 0})
      end == Min({IF end0 < 0 THEN llen + end0 ELSE end0, llen - 1})
  IN  IF start > end \/ start >= llen THEN <<>> ELSE Walk(z, StartNode(z, start, reverse), end - start + 1, reverse)

\* ZRANGEBYSCORE; ZCOUNT is the length of its reply.  The loop goes over the nodes from the
\* first one that fits, skips offset of them, and ends at limit, at max or at the end of the
\* list.
genericZrangebyscoreCommand(z, min, minex, max, maxex, offset0, limit0) ==
  LET first == zslFirstWithScore(z, min)
      skip[n \in 0 .. Cardinality(Obj)] ==
        IF n = 0 THEN first
        ELSE LET ln == skip[n - 1] IN IF minex /\ ln # NIL /\ z.score[ln] = min THEN z.forward[ln][0] ELSE ln
      Goes(r) == r.ln # NIL /\ (IF maxex THEN z.score[r.ln] < max ELSE z.score[r.ln] <= max) /\ (r.offset = 0 => r.limit # 0)
      Turn(r) == IF r.offset > 0 THEN [r EXCEPT !.offset = @ - 1, !.ln = z.forward[@][0]]
                 ELSE [r EXCEPT !.reply = Append(@, r.ln), !.ln = z.forward[@][0], !.limit = IF @ > 0 THEN @ - 1 ELSE @]
      loop[n \in 0 .. Cardinality(Obj)] ==
        IF n = 0 THEN [ln |-> skip[Cardinality(Obj)], offset |-> Max({offset0, 0}), limit |-> limit0, reply |-> <<>>]
        ELSE IF Goes(loop[n - 1]) THEN Turn(loop[n - 1]) ELSE loop[n - 1]
  IN  loop[Cardinality(Obj)].reply

\* ZRANK and ZREVRANK, of an element that the hash table has.
zrankGenericCommand(z, o, reverse) ==
  LET rank == zslGetRank(z, ScoreOf(o), o) IN IF reverse THEN z.length - rank ELSE rank - 1

-----------------------------------------------------------------------------
SkipInit == zsl = zslCreate /\ zdict = {}

\* Elements that the list z still has.
Kept(z) == {x \in Obj : \E n \in Node : z.forward[n][0] = x}

\* ZADD and ZINCRBY: a new element, or one that moves when its score changes.
zaddGenericCommand(o, score, level) ==
  /\ zsl' = IF o \notin Members THEN zslInsert(zsl, score, o, level)
            ELSE IF score # ScoreOf(o) THEN zslInsert(zslDelete(zsl, ScoreOf(o), o), score, o, level)
            ELSE zsl
  /\ zdict' = {e \in zdict : e[1] # o} \cup {<<o, score>>}

zremCommand(o) ==
  /\ o \in Members
  /\ zsl' = zslDelete(zsl, ScoreOf(o), o)
  /\ zdict' = {e \in zdict : e[1] # o}

\* The nodes that leave the list leave the hash table.
zremrangebyscoreCommand(min, max) ==
  /\ zsl' = zslDeleteRangeByScore(zsl, min, max)
  /\ zdict' = {e \in zdict : e[1] \in Kept(zsl')}

\* Negative indices count from the end; out of range they are cut off.
zremrangebyrankCommand(start0, end0) ==
  LET llen == zsl.length
      start == Max({IF start0 < 0 THEN llen + start0 ELSE start0, 0})
      end == IF end0 < 0 THEN llen + end0 ELSE end0
  IN  /\ start <= end /\ start < llen
      /\ zsl' = zslDeleteRangeByRank(zsl, start + 1, Min({end, llen - 1}) + 1)
      /\ zdict' = {e \in zdict : e[1] \in Kept(zsl')}

SkipNext ==
  \/ \E o \in Obj, s \in Score, l \in 1 .. ZSKIPLIST_MAXLEVEL : zaddGenericCommand(o, s, l)
  \/ \E o \in Obj : zremCommand(o)
  \/ \E min, max \in Score : zremrangebyscoreCommand(min, max)
  \/ \E start, end \in -2 .. 2 : zremrangebyrankCommand(start, end)

SkipSpec == SkipInit /\ [][SkipNext]_skipvars

-----------------------------------------------------------------------------
\* The elements in the order of the lowest level.
InOrder ==
  LET at[n \in 1 .. zsl.length] == IF n = 1 THEN zsl.forward[Header][0] ELSE zsl.forward[at[n - 1]][0]
  IN  at

\* Levels stay within ZSKIPLIST_MAXLEVEL, forward pointers lead to elements, and length is
\* the size of the hash table next to the list after every command.
SkipTypeOK ==
  /\ zsl.level \in 1 .. ZSKIPLIST_MAXLEVEL
  /\ zsl.length = Cardinality(zdict)
  /\ \A x \in Node, i \in Level : zsl.forward[x][i] \in Obj \cup {NIL} /\ zsl.span[x][i] \in Nat
  /\ zdict \subseteq Obj \X Score

\* "The elements are added to an hash table mapping Redis objects to scores. At the
\* same time the elements are added to a skip list": the two hold the same elements
\* with the same scores, the list in order, and it can be walked from both ends.
TwoViewsAgree ==
  /\ {<<InOrder[n], zsl.score[InOrder[n]]>> : n \in 1 .. zsl.length} = zdict
  /\ \A n \in 1 .. zsl.length - 1 : Before(zsl, InOrder[n], zsl.score[InOrder[n + 1]], InOrder[n + 1])
  /\ \A n \in 1 .. zsl.length : zsl.backward[InOrder[n]] = IF n = 1 THEN NIL ELSE InOrder[n - 1]
  /\ zsl.tail = IF zsl.length = 0 THEN NIL ELSE InOrder[zsl.length]

\* Ranks computed from spans, by any path through the levels, are positions: ZRANK,
\* ZRANGE and ZREMRANGEBYRANK count right, whatever was inserted and deleted before.
RanksRight ==
  /\ \A n \in 1 .. zsl.length :
       /\ zslGetRank(zsl, zsl.score[InOrder[n]], InOrder[n]) = n
       /\ zslGetElementByRank(zsl, n) = InOrder[n]
  /\ \A s \in Score : zslFirstWithScore(zsl, s) =
       LET from == {n \in 1 .. zsl.length : zsl.score[InOrder[n]] >= s}
       IN  IF from = {} THEN NIL ELSE InOrder[Min(from)]

\* The elements of the hash table, by score and then by name.
Sorted == [n \in 1 .. Cardinality(zdict) |->
             (CHOOSE e \in zdict : Cardinality({f \in zdict : f[2] < e[2] \/ (f[2] = e[2] /\ f[1] < e[1])}) = n - 1)[1]]

\* What the commands that walk the list answer is what the set of elements and scores says,
\* both ways round, with indices from either end, open and closed intervals and LIMIT.  (A
\* sorted set without elements is deleted with its key.)
QueriesRight ==
  zdict # {} =>
    LET len == Cardinality(zdict)
        sorted == Sorted
        From(i) == Max({IF i < 0 THEN len + i ELSE i, 0})
        To(i) == Min({IF i < 0 THEN len + i ELSE i, len - 1})
        back == [n \in 1 .. len |-> sorted[len + 1 - n]]
        Fits(o, min, minex, max, maxex) == zsl.score[o] \in (IF minex THEN min + 1 ELSE min) .. (IF maxex THEN max - 1 ELSE max)
    IN  /\ \A start, end \in {-4, -2, -1, 0, 1, 3} :
             /\ zrangeGenericCommand(zsl, start, end, FALSE) = SubSeq(sorted, From(start) + 1, To(end) + 1)
             /\ zrangeGenericCommand(zsl, start, end, TRUE) = SubSeq(back, From(start) + 1, To(end) + 1)
        /\ \A min, max \in Score, minex, maxex \in BOOLEAN :
             LET fit == SelectSeq(sorted, LAMBDA o : Fits(o, min, minex, max, maxex))
             IN  \A offset \in 0 .. 1, limit \in {-1, 0, 1} :
                   genericZrangebyscoreCommand(zsl, min, minex, max, maxex, offset, limit) =
                     SubSeq(fit, offset + 1, IF limit < 0 THEN Len(fit) ELSE Min({Len(fit), offset + limit}))
        /\ \A n \in 1 .. len : zrankGenericCommand(zsl, sorted[n], FALSE) = n - 1 /\ zrankGenericCommand(zsl, sorted[n], TRUE) = len - n

\* The skip list, its spans and the hash table describe one sorted set after every command,
\* and every query by rank, score or element answers for that set (zslInsert, zslDelete,
\* zslGetRank, zrangeGenericCommand, genericZrangebyscoreCommand).
SortedSetSound == SkipTypeOK /\ TwoViewsAgree /\ RanksRight /\ QueriesRight
=============================================================================
