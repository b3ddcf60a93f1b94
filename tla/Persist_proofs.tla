---------------------------- MODULE Persist_proofs ----------------------------
(***************************************************************************)
(* The files of redis rebuild its dataset, and slaves end with it, however *)
(* saves, rewritings, synchronizations, failures and crashes meet, apart   *)
(* from the situations of met: for any databases, any slaves and any       *)
(* number of commands and crashes.                                         *)
(***************************************************************************)
EXTENDS Persist, SequenceTheorems, WellFoundedInduction, FiniteSetTheorems, TLAPS

Dataset == [Db -> Nat]
Image == [data : Dataset, db : Db]
Change == {<<"incr">>, <<"flushall">>, <<"save">>}
Cmd == {<<"select", d>> : d \in Db} \cup Change

\* What a client in database d makes of dataset x.
Effect(x, d, e) ==
  CASE e = <<"incr">> -> [x EXCEPT ![d] = @ + 1] [] e = <<"flushall">> -> Empty [] OTHER -> x

-----------------------------------------------------------------------------
(* The commands of a buffer *)

\* Induction, for a set of numbers.
LEMMA NumberInduction ==
  ASSUME NEW S, 0 \in S, \A n \in Nat : n \in S => n + 1 \in S
  PROVE  Nat \subseteq S
<1> DEFINE Less == {p \in Nat \X Nat : p[1] < p[2]}
           T == Nat \ S
<1>1. IsWellFoundedOn(Less, Nat)
  BY NatLessThanWellFounded DEF OpToRel
<1>2. SUFFICES ASSUME T # {} PROVE FALSE
  OBVIOUS
<1>3. \E x \in T : \A y \in T : <<y, x>> \notin Less
  <2> HIDE DEF Less
  <2> QED BY <1>1, <1>2, WFMin
<1>4. PICK x \in T : \A y \in T : ~(y < x)
  BY <1>3
<1>5. x # 0 /\ x - 1 \in Nat /\ x - 1 \notin T
  BY <1>4
<1> QED BY <1>5

\* One command, on what the others have made.
LEMMA RunEffect ==
  ASSUME NEW r \in Image
  PROVE  /\ \A e \in Cmd : Run(r, e) \in Image
         /\ \A d \in Db : Run(r, <<"select", d>>) = [data |-> r.data, db |-> d]
         /\ \A e \in Change : Run(r, e) = [data |-> Effect(r.data, r.db, e), db |-> r.db]
<1>1. Empty \in Dataset
  BY DEF Empty, Dataset
<1>2. \A d \in Db : Run(r, <<"select", d>>) = [data |-> r.data, db |-> d]
  BY DEF Run, Image
<1>3. Run(r, <<"incr">>) = [data |-> Effect(r.data, r.db, <<"incr">>), db |-> r.db]
  BY DEF Run, Image, Effect
<1>4. Run(r, <<"flushall">>) = [data |-> Effect(r.data, r.db, <<"flushall">>), db |-> r.db]
  BY DEF Run, Image, Effect
<1>5. Run(r, <<"save">>) = [data |-> Effect(r.data, r.db, <<"save">>), db |-> r.db]
  BY DEF Run, Image, Effect
<1>6. \A e \in Change : Run(r, e) = [data |-> Effect(r.data, r.db, e), db |-> r.db]
  BY <1>3, <1>4, <1>5 DEF Change
<1>7. \A e \in Change : Effect(r.data, r.db, e) \in Dataset
  BY <1>1 DEF Effect, Image, Dataset
<1>8. \A e \in Cmd : Run(r, e) \in Image
  <2>1. \A x \in Dataset, d \in Db : [data |-> x, db |-> d] \in Image
    BY DEF Image
  <2>2. r.data \in Dataset /\ r.db \in Db
    BY DEF Image
  <2>3. \A d \in Db : Run(r, <<"select", d>>) \in Image
    BY ONLY <1>2, <2>1, <2>2
  <2>4. \A e \in Change : Run(r, e) \in Image
    BY ONLY <1>6, <1>7, <2>1, <2>2
  <2> QED BY ONLY <2>3, <2>4 DEF Cmd
<1> QED BY <1>2, <1>6, <1>8

\* f is what RunAll computes, up to command k.
Ran(f, r, buf, k) == f = [n \in 0 .. k |-> IF n = 0 THEN r ELSE Run(f[n - 1], buf[n])]

LEMMA RanExists ==
  ASSUME NEW r \in Image, NEW buf \in Seq(Cmd)
  PROVE  \A k \in Nat : k <= Len(buf) => \E f \in [0 .. k -> Image] : Ran(f, r, buf, k)
<1> DEFINE S == {k \in Nat : k <= Len(buf) => \E f \in [0 .. k -> Image] : Ran(f, r, buf, k)}
<1>1. 0 \in S
  <2> DEFINE f == [n \in 0 .. 0 |-> r]
  <2>1. f \in [0 .. 0 -> Image] /\ f = [n \in 0 .. 0 |-> IF n = 0 THEN r ELSE Run(f[n - 1], buf[n])]
    OBVIOUS
  <2> QED BY <2>1 DEF Ran
<1>2. ASSUME NEW k \in Nat, k \in S PROVE k + 1 \in S
  <2>1. SUFFICES ASSUME k + 1 <= Len(buf) PROVE \E f \in [0 .. k + 1 -> Image] : Ran(f, r, buf, k + 1)
    OBVIOUS
  <2>2. PICK g \in [0 .. k -> Image] : Ran(g, r, buf, k)
    BY <1>2, <2>1
  <2> DEFINE f == [n \in 0 .. k + 1 |-> IF n = k + 1 THEN Run(g[k], buf[k + 1]) ELSE g[n]]
  <2>3. g[k] \in Image /\ buf[k + 1] \in Cmd
    BY <2>1
  <2>4. Run(g[k], buf[k + 1]) \in Image
    BY <2>3, RunEffect
  <2>5. f \in [0 .. k + 1 -> Image]
    BY <2>4
  <2>6. ASSUME NEW n \in 0 .. k + 1 PROVE f[n] = IF n = 0 THEN r ELSE Run(f[n - 1], buf[n])
    <3>1. CASE n = k + 1
      <4>1. f[k + 1] = Run(g[k], buf[k + 1]) /\ f[k] = g[k]
        OBVIOUS
      <4>2. n # 0 /\ n - 1 = k
        BY <3>1
      <4> HIDE DEF f
      <4> QED BY <3>1, <4>1, <4>2
    <3>2. CASE n \in 0 .. k
      <4>1. f[n] = g[n] /\ (n # 0 => f[n - 1] = g[n - 1])
        BY <3>2
      <4>2. g[n] = IF n = 0 THEN r ELSE Run(g[n - 1], buf[n])
        BY <2>2, <3>2 DEF Ran
      <4> HIDE DEF f
      <4> QED BY <4>1, <4>2
    <3> QED BY <3>1, <3>2
  <2>7. Ran(f, r, buf, k + 1)
    <3>1. f = [n \in 0 .. k + 1 |-> f[n]]
      OBVIOUS
    <3> HIDE DEF f
    <3> QED BY <2>6, <3>1 DEF Ran
  <2> HIDE DEF f
  <2> QED BY <2>5, <2>7
<1>3. Nat \subseteq S
  <2> HIDE DEF S
  <2> QED BY <1>1, <1>2, NumberInduction
<1> QED BY <1>3

\* Two buffers that begin alike have the same effect so far.
LEMMA RanSame ==
  \A r, b, c, f, g : \A j, k \in Nat : Ran(f, r, b, j) /\ Ran(g, r, c, k) =>
    \A l \in Nat : l <= j /\ l <= k /\ (\A n \in 1 .. l : b[n] = c[n]) => f[l] = g[l]
<1> TAKE r, b, c, f, g
<1> TAKE j \in Nat, k \in Nat
<1> HAVE Ran(f, r, b, j) /\ Ran(g, r, c, k)
<1> DEFINE Same(l) == l <= j /\ l <= k /\ (\A n \in 1 .. l : b[n] = c[n]) => f[l] = g[l]
           S == {l \in Nat : Same(l)}
<1>0. /\ \A n \in 0 .. j : f[n] = IF n = 0 THEN r ELSE Run(f[n - 1], b[n])
      /\ \A n \in 0 .. k : g[n] = IF n = 0 THEN r ELSE Run(g[n - 1], c[n])
  BY DEF Ran
<1>1. 0 \in S
  BY <1>0
<1>2. ASSUME NEW l \in Nat, l \in S PROVE l + 1 \in S
  <2>1. SUFFICES ASSUME l + 1 <= j, l + 1 <= k, \A n \in 1 .. l + 1 : b[n] = c[n]
                 PROVE  f[l + 1] = g[l + 1]
    OBVIOUS
  <2>2. f[l] = g[l]
    BY <1>2, <2>1
  <2>3. f[l + 1] = Run(f[l], b[l + 1]) /\ g[l + 1] = Run(g[l], c[l + 1])
    BY <1>0, <2>1
  <2> QED BY <2>1, <2>2, <2>3
<1>3. Nat \subseteq S
  <2> HIDE DEF S
  <2> QED BY <1>1, <1>2, NumberInduction
<1> QED BY <1>3

\* What the definition of RunAll says.
LEMMA RunAllIs ==
  ASSUME NEW r \in Image, NEW buf \in Seq(Cmd)
  PROVE  \E f \in [0 .. Len(buf) -> Image] : Ran(f, r, buf, Len(buf)) /\ RunAll(r, buf) = f[Len(buf)]
<1> DEFINE Is(f) == f = [n \in 0 .. Len(buf) |-> IF n = 0 THEN r ELSE Run(f[n - 1], buf[n])]
           c == CHOOSE f : Is(f)
<1>1. PICK g \in [0 .. Len(buf) -> Image] : Ran(g, r, buf, Len(buf))
  BY RanExists
<1>2. Is(g)
  BY <1>1 DEF Ran
<1>3. Is(c)
  <2> HIDE DEF Is
  <2> QED BY <1>2
<1>4. RunAll(r, buf) = c[Len(buf)]
  BY DEF RunAll
<1>5. Ran(c, r, buf, Len(buf))
  <2> HIDE DEF c
  <2> QED BY <1>3 DEF Ran
<1> HIDE DEF c, Is
<1>6. Len(buf) \in Nat
  OBVIOUS
<1>7. c[Len(buf)] = g[Len(buf)]
  BY <1>1, <1>5, <1>6, RanSame
<1> QED BY <1>1, <1>4, <1>7

LEMMA RunAllType == \A r \in Image, buf \in Seq(Cmd) : RunAll(r, buf) \in Image /\ RunAll(r, << >>) = r
<1> SUFFICES ASSUME NEW r \in Image, NEW buf \in Seq(Cmd) PROVE RunAll(r, buf) \in Image /\ RunAll(r, << >>) = r
  OBVIOUS
<1>1. RunAll(r, buf) \in Image
  <2>1. Len(buf) \in 0 .. Len(buf)
    OBVIOUS
  <2> QED BY <2>1, RunAllIs
<1>2. RunAll(r, << >>) = r
  <2>1. << >> \in Seq(Cmd) /\ Len(<< >>) = 0
    OBVIOUS
  <2>2. PICK f : Ran(f, r, << >>, 0) /\ RunAll(r, << >>) = f[0]
    BY <2>1, RunAllIs
  <2> QED BY <2>2 DEF Ran
<1> QED BY <1>1, <1>2

\* One more command.
LEMMA RunAllOneMore ==
  \A r \in Image, buf \in Seq(Cmd), e \in Cmd :
    buf \o <<e>> \in Seq(Cmd) /\ RunAll(r, buf \o <<e>>) = Run(RunAll(r, buf), e)
<1> SUFFICES ASSUME NEW r \in Image, NEW buf \in Seq(Cmd), NEW e \in Cmd
             PROVE  buf \o <<e>> \in Seq(Cmd) /\ RunAll(r, buf \o <<e>>) = Run(RunAll(r, buf), e)
  OBVIOUS
<1> DEFINE b == buf \o <<e>>
           k == Len(buf)
<1>1. b \in Seq(Cmd) /\ k \in Nat /\ Len(b) = k + 1 /\ b[k + 1] = e /\ \A n \in 1 .. k : buf[n] = b[n]
  OBVIOUS
<1> HIDE DEF b, k
<1>2. PICK f : Ran(f, r, buf, k) /\ RunAll(r, buf) = f[k]
  BY RunAllIs DEF k
<1>3. PICK g : Ran(g, r, b, k + 1) /\ RunAll(r, b) = g[k + 1]
  BY <1>1, RunAllIs
<1>4. f[k] = g[k]
  <2>1. k <= k /\ k <= k + 1 /\ k + 1 \in Nat
    BY <1>1
  <2>2. \A l \in Nat : l <= k /\ l <= k + 1 /\ (\A n \in 1 .. l : buf[n] = b[n]) => f[l] = g[l]
    BY ONLY <1>1, <1>2, <1>3, <2>1, RanSame
  <2> QED BY ONLY <1>1, <2>1, <2>2
<1>5. g[k + 1] = Run(g[k], b[k + 1])
  <2>1. k + 1 \in 0 .. k + 1 /\ k + 1 # 0 /\ (k + 1) - 1 = k
    BY <1>1
  <2>2. g[k + 1] = IF k + 1 = 0 THEN r ELSE Run(g[(k + 1) - 1], b[k + 1])
    BY <1>3, <2>1 DEF Ran
  <2> QED BY ONLY <2>1, <2>2
<1>6. RunAll(r, b) = Run(RunAll(r, buf), e)
  BY <1>1, <1>2, <1>3, <1>4, <1>5
<1> QED BY <1>1, <1>6 DEF b

\* A buffer that has selected seldb, if it has selected anything, is fed with what a client in
\* database d has done: it does the same, and has selected d.
LEMMA FedBuffer ==
  \A r \in Image, buf \in Seq(Cmd), seldb \in Db \cup {-1}, d \in Db, e \in Change :
    /\ buf \o InDb(seldb, d, e) \in Seq(Cmd)
    /\ (seldb # -1 => RunAll(r, buf).db = seldb)
       => RunAll(r, buf \o InDb(seldb, d, e)) = [data |-> Effect(RunAll(r, buf).data, d, e), db |-> d]
    /\ e = <<"flushall">> => RunAll(r, buf \o InDb(seldb, d, e)).data = Empty
<1> SUFFICES ASSUME NEW r \in Image, NEW buf \in Seq(Cmd), NEW seldb \in Db \cup {-1}, NEW d \in Db, NEW e \in Change
             PROVE  /\ buf \o InDb(seldb, d, e) \in Seq(Cmd)
                    /\ (seldb # -1 => RunAll(r, buf).db = seldb)
                       => RunAll(r, buf \o InDb(seldb, d, e)) = [data |-> Effect(RunAll(r, buf).data, d, e), db |-> d]
                    /\ e = <<"flushall">> => RunAll(r, buf \o InDb(seldb, d, e)).data = Empty
  OBVIOUS
<1>1. << >> \in Seq(Cmd) /\ <<"select", d>> \in Cmd /\ e \in Cmd
  BY DEF Cmd
<1> DEFINE was == RunAll(r, buf)
           mid == buf \o << <<"select", d>> >>
<1>2. was \in Image
  BY RunAllType
<1>3. mid \in Seq(Cmd) /\ RunAll(r, mid) = [data |-> was.data, db |-> d]
  <2>1. mid \in Seq(Cmd) /\ RunAll(r, mid) = Run(was, <<"select", d>>)
    BY <1>1, RunAllOneMore
  <2> QED BY ONLY <2>1, <1>2, RunEffect
<1>4. RunAll(r, mid) \in Image
  BY <1>3, RunAllType
<1>5. CASE seldb = d
  <2>1. InDb(seldb, d, e) = <<e>> /\ seldb # -1
    BY <1>5, PersistDbAssumption DEF InDb
  <2>2. buf \o <<e>> \in Seq(Cmd) /\ RunAll(r, buf \o <<e>>) = Run(was, e)
    BY <1>1, RunAllOneMore
  <2>3. Run(was, e) = [data |-> Effect(was.data, was.db, e), db |-> was.db]
    BY <1>2, RunEffect
  <2>4. e = <<"flushall">> => Effect(was.data, was.db, e) = Empty
    BY DEF Effect
  <2> HIDE DEF was
  <2> QED BY <1>5, <2>1, <2>2, <2>3, <2>4 DEF was
<1>6. CASE seldb # d
  <2>1. InDb(seldb, d, e) = << <<"select", d>>, e>>
    BY <1>6 DEF InDb
  <2>2. buf \o InDb(seldb, d, e) = mid \o <<e>>
    <3>1. InDb(seldb, d, e) = << <<"select", d>> >> \o <<e>>
      BY <2>1
    <3>2. << <<"select", d>> >> \in Seq(Cmd) /\ <<e>> \in Seq(Cmd)
      BY <1>1
    <3> QED BY <3>1, <3>2, ConcatAssociative
  <2>3. mid \o <<e>> \in Seq(Cmd) /\ RunAll(r, mid \o <<e>>) = Run(RunAll(r, mid), e)
    BY <1>1, <1>3, RunAllOneMore
  <2>4. Run(RunAll(r, mid), e) = [data |-> Effect(was.data, d, e), db |-> d]
    <3>1. Run(RunAll(r, mid), e) = [data |-> Effect(RunAll(r, mid).data, RunAll(r, mid).db, e), db |-> RunAll(r, mid).db]
      BY <1>4, RunEffect
    <3> HIDE DEF mid, was
    <3> QED BY ONLY <1>3, <3>1
  <2>5. e = <<"flushall">> => Effect(was.data, d, e) = Empty
    BY DEF Effect
  <2> HIDE DEF was, mid
  <2> QED BY <2>2, <2>3, <2>4, <2>5 DEF was
<1> QED BY <1>5, <1>6

-----------------------------------------------------------------------------
(* The inductive invariant *)

Children == [data : Dataset, is : {"running", "ok", "error", "killed", "flushed"}]
Slaves == [st : {"none", "start", "end", "bulk", "online"}, buf : Seq(Cmd), seldb : Db, has : Image]

PersistTypes ==
  /\ conf \in BOOLEAN /\ appendonly \in BOOLEAN /\ whole \in BOOLEAN
  /\ data \in Dataset /\ dump \in Dataset /\ dirty \in Nat /\ dirty_before_bgsave \in Nat
  /\ bgsave \in Children \cup {NoChild} /\ bgrewrite \in Children \cup {NoChild}
  /\ aof \in Image /\ aofbuf \in Seq(Cmd) /\ bgrewritebuf \in Seq(Cmd) /\ appendseldb \in Db \cup {-1}
  /\ slaves \in [Slave -> Slaves]
  /\ phase \in {"files", "cron", "down"}
  /\ met \subseteq {"flushall", "negative", "forgotten", "mixed", "seldb", "killed", "twice", "unopened"}

\* Nothing runs, and nobody is connected, while the server is down.
DownInv == phase = "down" => /\ bgsave = NoChild /\ bgrewrite = NoChild /\ aofbuf = << >> /\ bgrewritebuf = << >>
                             /\ \A s \in Slave : slaves[s] = NoSlave

\* r, and the commands of buf, make the dataset, and select seldb if that is a database.
Makes(r, buf, seldb) == RunAll(r, buf).data = data /\ (seldb # -1 => RunAll(r, buf).db = seldb)

\* The file, with what waits to be written, makes the dataset; so does the file that the child
\* writes, with what is kept for it.
AofInv ==
  /\ bgrewrite = NoChild => bgrewritebuf = << >>
  /\ appendonly /\ whole /\ phase # "down" => Makes(aof, aofbuf, appendseldb)
  /\ appendonly /\ bgrewrite # NoChild /\ bgrewrite.is \in {"running", "ok"}
     => Makes(rewriteAppendOnlyFile(bgrewrite.data), bgrewritebuf, appendseldb)

\* What the next save, and the one under way, would leave unsaved is counted.
DirtyInv ==
  /\ ~conf /\ phase # "down" /\ dump # data => dirty > 0
  /\ bgsave # NoChild /\ bgsave.is = "running"
     => dirty >= dirty_before_bgsave /\ (bgsave.data # data => dirty > dirty_before_bgsave)
  /\ bgsave # NoChild /\ bgsave.is = "ok"
     => dirty >= dirty_before_bgsave /\ (dump # data => dirty > dirty_before_bgsave)

\* The dump of dataset x.
Loaded(x) == [data |-> x, db |-> 0]

\* A slave that waits for a save has a buffer that goes with what the save will give it: with
\* any dump at all, after a FLUSHALL that killed the child.
SlaveInv(s) ==
  /\ slaves[s].st \in {"none", "start"} => slaves[s].buf = << >> /\ slaves[s].seldb = 0
  /\ slaves[s].st \in {"start", "end"} => bgsave # NoChild
  /\ slaves[s].st \in {"bulk", "online"} => Makes(slaves[s].has, slaves[s].buf, slaves[s].seldb)
  /\ slaves[s].st = "end" =>
       /\ \A x \in Dataset : RunAll(Loaded(x), slaves[s].buf).db = slaves[s].seldb
       /\ bgsave.is \in {"running", "ok"} => RunAll(Loaded(bgsave.data), slaves[s].buf).data = data
       /\ bgsave.is = "ok" => RunAll(Loaded(dump), slaves[s].buf).data = data
       /\ bgsave.is = "flushed" => \A x \in Dataset : RunAll(Loaded(x), slaves[s].buf).data = data

Kept == DownInv /\ AofInv /\ DirtyInv /\ \A s \in Slave : SlaveInv(s)

PInv == PersistTypes /\ (met = {} => Kept)

-----------------------------------------------------------------------------
(* Constants *)

\* A set of some databases has a last one.
LEMMA LastDb == \A used \in SUBSET Db : used # {} => \E d \in used : \A e \in used : e <= d
<1> DEFINE Last(n) == \A u \in SUBSET Db : u # {} /\ Cardinality(u) = n => \E d \in u : \A e \in u : e <= d
           S == {n \in Nat : Last(n)}
<1>0. \A u \in SUBSET Db : IsFiniteSet(u) /\ u \subseteq Nat
  BY PersistDbAssumption, FS_Subset
<1>1. 0 \in S
  BY <1>0, FS_EmptySet
<1>2. ASSUME NEW n \in Nat, n \in S PROVE n + 1 \in S
  <2>1. SUFFICES ASSUME NEW u \in SUBSET Db, u # {}, Cardinality(u) = n + 1
                 PROVE  \E d \in u : \A e \in u : e <= d
    OBVIOUS
  <2>2. PICK x \in u : TRUE
    BY <2>1
  <2>3. IsFiniteSet(u) /\ u \subseteq Nat
    BY <1>0
  <2>4. Cardinality(u \ {x}) = n /\ u \ {x} \in SUBSET Db
    BY <2>1, <2>3, FS_RemoveElement
  <2>5. CASE u \ {x} = {}
    BY <2>3, <2>5
  <2>6. CASE u \ {x} # {}
    <3>1. PICK d \in u \ {x} : \A e \in u \ {x} : e <= d
      BY ONLY <1>2, <2>4, <2>6
    <3>2. CASE x <= d
      BY <3>1, <3>2
    <3>3. CASE ~(x <= d)
      BY <2>3, <3>1, <3>3
    <3> QED BY <3>2, <3>3
  <2> QED BY <2>5, <2>6
<1>3. Nat \subseteq S
  <2> HIDE DEF S
  <2> QED BY <1>1, <1>2, NumberInduction
<1> QED
  <2>1. \A u \in SUBSET Db : Cardinality(u) \in Nat
    BY <1>0, FS_CardinalityType
  <2> QED BY <1>3, <2>1

LEMMA Rewritten ==
  ASSUME NEW x \in Dataset
  PROVE  rewriteAppendOnlyFile(x) \in Image /\ rewriteAppendOnlyFile(x).data = x
<1> DEFINE used == {d \in Db : x[d] > 0}
<1>1. used # {} => (CHOOSE d \in used : \A e \in used : e <= d) \in used
  <2> used \in SUBSET Db
    OBVIOUS
  <2> HIDE DEF used
  <2> QED BY LastDb
<1>2. (IF used = {} THEN 0 ELSE CHOOSE d \in used : \A e \in used : e <= d) \in Db
  <2>1. used \subseteq Db
    OBVIOUS
  <2> HIDE DEF used
  <2> QED BY <1>1, <2>1, PersistDbAssumption
<1> QED BY <1>2 DEF rewriteAppendOnlyFile, Image

LEMMA Constants ==
  /\ 0 \in Db /\ -1 \notin Db /\ Db \subseteq Nat
  /\ Empty \in Dataset /\ Fresh \in Image /\ Fresh.data = Empty
  /\ \A x \in Dataset : Loaded(x) \in Image /\ Loaded(x).data = x /\ Loaded(x).db = 0
  /\ NoSlave \in Slaves /\ NoSlave.st = "none" /\ NoSlave.buf = << >> /\ NoSlave.seldb = 0
  /\ NoChild \notin Children
  /\ \A x \in Dataset : Child(x) \in Children /\ Child(x).data = x /\ Child(x).is = "running"
<1>1. 0 \in Db /\ -1 \notin Db /\ Db \subseteq Nat
  BY PersistDbAssumption
<1>2. Empty \in Dataset
  BY DEF Empty, Dataset
<1>3. Fresh \in Image /\ Fresh.data = Empty
  BY <1>1, <1>2 DEF Fresh, Image
<1>4. \A x \in Dataset : Loaded(x) \in Image /\ Loaded(x).data = x /\ Loaded(x).db = 0
  BY <1>1 DEF Loaded, Image
<1>5. << >> \in Seq(Cmd)
  OBVIOUS
<1>6. NoSlave \in Slaves /\ NoSlave.st = "none" /\ NoSlave.buf = << >> /\ NoSlave.seldb = 0
  BY <1>1, <1>3, <1>5 DEF NoSlave, Slaves
<1>7. NoChild \notin Children
  BY PersistNoChildAssumption DEF Children, Dataset
<1>8. \A x \in Dataset : Child(x) \in Children /\ Child(x).data = x /\ Child(x).is = "running"
  BY DEF Child, Children
<1> QED BY <1>1, <1>2, <1>3, <1>4, <1>6, <1>7, <1>8

-----------------------------------------------------------------------------
(* Propagation *)

\* Buffer c is b, in which seldb was selected, fed with e of a client in database d.
FedTo(b, seldb, c, d, e) ==
  /\ c \in Seq(Cmd)
  /\ \A r \in Image :
       /\ (seldb # -1 => RunAll(r, b).db = seldb) => RunAll(r, c) = [data |-> Effect(RunAll(r, b).data, d, e), db |-> d]
       /\ e = <<"flushall">> => RunAll(r, c).data = Empty

LEMMA Feeding ==
  ASSUME NEW b \in Seq(Cmd), NEW seldb \in Db \cup {-1}, NEW d \in Db, NEW e \in Change
  PROVE  FedTo(b, seldb, b \o InDb(seldb, d, e), d, e)
<1> DEFINE c == b \o InDb(seldb, d, e)
<1>1. Fresh \in Image
  BY Constants
<1>2. c \in Seq(Cmd)
  BY <1>1, FedBuffer
<1>3. ASSUME NEW r \in Image
      PROVE  /\ (seldb # -1 => RunAll(r, b).db = seldb) => RunAll(r, c) = [data |-> Effect(RunAll(r, b).data, d, e), db |-> d]
             /\ e = <<"flushall">> => RunAll(r, c).data = Empty
  BY FedBuffer
<1> HIDE DEF c
<1>4. FedTo(b, seldb, c, d, e)
  BY ONLY <1>2, <1>3 DEF FedTo
<1> QED BY <1>4 DEF c

\* The same for slave x that becomes y.
FedSlave(x, y, d, e) ==
  /\ y \in Slaves /\ y.st = x.st /\ y.has = x.has
  /\ x.st \in {"none", "start"} => y = x
  /\ x.st \in {"end", "bulk", "online"} => y.seldb = d /\ FedTo(x.buf, x.seldb, y.buf, d, e)

\* The files and the slaves receive what has changed the dataset.
LEMMA FileFed ==
  ASSUME PersistTypes, AofInv, phase = "files", NEW d \in Db, NEW e \in Change, Propagate(d, e), dirty' # dirty,
         data' = Effect(data, d, e), phase' = phase
  PROVE  /\ aofbuf' \in Seq(Cmd) /\ bgrewritebuf' \in Seq(Cmd) /\ appendseldb' \in Db \cup {-1}
         /\ AofInv'
<1>1. /\ aof \in Image /\ aofbuf \in Seq(Cmd) /\ bgrewritebuf \in Seq(Cmd) /\ appendseldb \in Db \cup {-1}
      /\ bgrewrite \in Children \cup {NoChild}
  BY DEF PersistTypes
<1>2. appendonly' = appendonly /\ bgrewrite' = bgrewrite /\ aof' = aof /\ whole' = whole
  BY DEF Propagate
<1>3. CASE ~appendonly
  <2>1. aofbuf' = aofbuf /\ bgrewritebuf' = bgrewritebuf /\ appendseldb' = appendseldb
    BY <1>3 DEF Propagate
  <2> QED BY ONLY <1>1, <1>2, <1>3, <2>1, AofInv DEF AofInv
<1>4. CASE appendonly
  <2>1. /\ aofbuf' = aofbuf \o InDb(appendseldb, d, e)
        /\ bgrewritebuf' = IF bgrewrite # NoChild THEN bgrewritebuf \o InDb(appendseldb, d, e) ELSE bgrewritebuf
        /\ appendseldb' = d
    BY <1>4 DEF Propagate, feedAppendOnlyFile
  <2>2. FedTo(aofbuf, appendseldb, aofbuf', d, e)
    BY <1>1, <2>1, Feeding
  <2>3. bgrewrite # NoChild => FedTo(bgrewritebuf, appendseldb, bgrewritebuf', d, e)
    BY <1>1, <2>1, Feeding
  <2>4. aofbuf' \in Seq(Cmd) /\ bgrewritebuf' \in Seq(Cmd) /\ appendseldb' \in Db \cup {-1}
    BY ONLY <1>1, <2>1, <2>2, <2>3 DEF FedTo
  <2>5. ASSUME NEW r \in Image, NEW b, NEW c, FedTo(b, appendseldb, c, d, e), Makes(r, b, appendseldb)
        PROVE  RunAll(r, c).data = data' /\ RunAll(r, c).db = d
    BY ONLY <2>5, data' = Effect(data, d, e) DEF FedTo, Makes
  <2>6. whole => RunAll(aof, aofbuf').data = data' /\ RunAll(aof, aofbuf').db = d
    <3>1. whole => Makes(aof, aofbuf, appendseldb)
      BY <1>4, PersistTypes DEF AofInv
    <3> QED BY ONLY <1>1, <2>2, <2>5, <3>1
  <2>7. bgrewrite # NoChild /\ bgrewrite.is \in {"running", "ok"} =>
          /\ RunAll(rewriteAppendOnlyFile(bgrewrite.data), bgrewritebuf').data = data'
          /\ RunAll(rewriteAppendOnlyFile(bgrewrite.data), bgrewritebuf').db = d
    <3> SUFFICES ASSUME bgrewrite # NoChild, bgrewrite.is \in {"running", "ok"}
                 PROVE  /\ RunAll(rewriteAppendOnlyFile(bgrewrite.data), bgrewritebuf').data = data'
                        /\ RunAll(rewriteAppendOnlyFile(bgrewrite.data), bgrewritebuf').db = d
      OBVIOUS
    <3>1. Makes(rewriteAppendOnlyFile(bgrewrite.data), bgrewritebuf, appendseldb)
      BY <1>4 DEF AofInv
    <3>2. rewriteAppendOnlyFile(bgrewrite.data) \in Image
      BY <1>1, Rewritten DEF Children
    <3> QED BY ONLY <2>3, <2>5, <3>1, <3>2, bgrewrite # NoChild
  <2>8. bgrewrite = NoChild => bgrewritebuf' = << >>
    BY <2>1 DEF AofInv
  <2>9. AofInv'
    BY ONLY <1>2, <2>1, <2>6, <2>7, <2>8 DEF AofInv, Makes
  <2> QED BY ONLY <2>4, <2>9
<1> QED BY ONLY <1>3, <1>4

LEMMA SlavesFed ==
  ASSUME PersistTypes, NEW d \in Db, NEW e \in Change, Propagate(d, e), dirty' # dirty
  PROVE  slaves' \in [Slave -> Slaves] /\ \A s \in Slave : FedSlave(slaves[s], slaves'[s], d, e)
<1>1. /\ slaves \in [Slave -> Slaves]
      /\ slaves' = [s \in Slave |-> IF Fed(slaves[s])
                                    THEN [slaves[s] EXCEPT !.buf = @ \o InDb(slaves[s].seldb, d, e), !.seldb = d]
                                    ELSE slaves[s]]
  BY DEF PersistTypes, Propagate, replicationFeedSlaves
<1>2. ASSUME NEW s \in Slave PROVE FedSlave(slaves[s], slaves'[s], d, e)
  <2> DEFINE x == slaves[s]
             y == slaves'[s]
  <2>1. /\ x \in Slaves
        /\ y = IF Fed(x) THEN [x EXCEPT !.buf = @ \o InDb(x.seldb, d, e), !.seldb = d] ELSE x
    BY <1>1
  <2> SUFFICES FedSlave(x, y, d, e)
    OBVIOUS
  <2> HIDE DEF x, y
  <2>2. /\ x.st \in {"none", "start", "end", "bulk", "online"} /\ x.buf \in Seq(Cmd)
        /\ x.seldb \in Db /\ x.seldb \in Db \cup {-1} /\ x.has \in Image
        /\ x = [st |-> x.st, buf |-> x.buf, seldb |-> x.seldb, has |-> x.has]
    BY ONLY <2>1 DEF Slaves
  <2>3. CASE Fed(x)
    <3> DEFINE b == x.buf \o InDb(x.seldb, d, e)
    <3>1. FedTo(x.buf, x.seldb, b, d, e)
      BY <2>2, Feeding
    <3>2. b \in Seq(Cmd)
      BY ONLY <3>1 DEF FedTo
    <3>3. y = [x EXCEPT !.buf = b, !.seldb = d]
      BY ONLY <2>1, <2>3
    <3> HIDE DEF b
    <3>4. y = [st |-> x.st, buf |-> b, seldb |-> d, has |-> x.has]
      BY ONLY <2>2, <3>3
    <3>5. y \in Slaves
      BY <2>2, <3>2, <3>4 DEF Slaves
    <3>6. y.st = x.st /\ y.buf = b /\ y.seldb = d /\ y.has = x.has
      BY ONLY <3>4
    <3>7. x.st \in {"end", "bulk", "online"} /\ x.st \notin {"none", "start"}
      BY ONLY <2>3 DEF Fed
    <3> QED BY ONLY <3>1, <3>5, <3>6, <3>7 DEF FedSlave
  <2>4. CASE ~Fed(x)
    <3>1. y = x
      BY ONLY <2>1, <2>4
    <3>2. x.st \notin {"end", "bulk", "online"}
      BY ONLY <2>4 DEF Fed
    <3> QED BY ONLY <2>1, <3>1, <3>2 DEF FedSlave
  <2> QED BY ONLY <2>3, <2>4
<1>3. slaves' \in [Slave -> Slaves]
  <2>1. \A s \in Slave : slaves'[s] \in Slaves
    BY ONLY <1>2 DEF FedSlave
  <2> QED BY ONLY <1>1, <2>1
<1> QED BY <1>2, <1>3

\* A slave that is fed like the dataset has changed will have it, whatever was saved by a
\* FLUSHALL meanwhile.
LEMMA FedSlaveInv ==
  ASSUME PersistTypes, NEW s \in Slave, SlaveInv(s), NEW d \in Db, NEW e \in Change,
         FedSlave(slaves[s], slaves'[s], d, e), data' = Effect(data, d, e),
         (bgsave' = bgsave /\ (dump' = dump \/ bgsave = NoChild))
           \/ (e = <<"flushall">> /\ bgsave # NoChild /\ bgsave' # NoChild),
         bgsave' \in Children \cup {NoChild}, dump' \in Dataset
  PROVE  SlaveInv(s)'
<1> DEFINE x == slaves[s]
           y == slaves'[s]
<1>1. /\ x \in Slaves /\ y \in Slaves /\ FedSlave(x, y, d, e)
      /\ x.st \in {"none", "start", "end", "bulk", "online"} /\ x.seldb \in Db /\ x.has \in Image /\ x.seldb # -1
      /\ dump \in Dataset /\ bgsave \in Children \cup {NoChild}
  BY Constants DEF PersistTypes, FedSlave, Slaves
<1>2. SlaveInv(s) <=>
       /\ x.st \in {"none", "start"} => x.buf = << >> /\ x.seldb = 0
       /\ x.st \in {"start", "end"} => bgsave # NoChild
       /\ x.st \in {"bulk", "online"} => RunAll(x.has, x.buf).data = data /\ RunAll(x.has, x.buf).db = x.seldb
       /\ x.st = "end" =>
            /\ \A z \in Dataset : RunAll(Loaded(z), x.buf).db = x.seldb
            /\ bgsave.is \in {"running", "ok"} => RunAll(Loaded(bgsave.data), x.buf).data = data
            /\ bgsave.is = "ok" => RunAll(Loaded(dump), x.buf).data = data
            /\ bgsave.is = "flushed" => \A z \in Dataset : RunAll(Loaded(z), x.buf).data = data
  BY <1>1 DEF SlaveInv, Makes
<1>3. SlaveInv(s)' <=>
       /\ y.st \in {"none", "start"} => y.buf = << >> /\ y.seldb = 0
       /\ y.st \in {"start", "end"} => bgsave' # NoChild
       /\ y.st \in {"bulk", "online"} => RunAll(y.has, y.buf).data = data' /\ (y.seldb # -1 => RunAll(y.has, y.buf).db = y.seldb)
       /\ y.st = "end" =>
            /\ \A z \in Dataset : RunAll(Loaded(z), y.buf).db = y.seldb
            /\ bgsave'.is \in {"running", "ok"} => RunAll(Loaded(bgsave'.data), y.buf).data = data'
            /\ bgsave'.is = "ok" => RunAll(Loaded(dump'), y.buf).data = data'
            /\ bgsave'.is = "flushed" => \A z \in Dataset : RunAll(Loaded(z), y.buf).data = data'
  BY DEF SlaveInv, Makes
<1> HIDE DEF x, y
<1>4. CASE x.st \in {"none", "start"}
  BY <1>1, <1>2, <1>3, <1>4 DEF FedSlave
<1>5. CASE x.st \in {"bulk", "online"}
  <2>1. RunAll(x.has, y.buf) = [data |-> Effect(data, d, e), db |-> d] /\ y.seldb = d /\ y.has = x.has /\ y.st = x.st
    BY ONLY <1>1, <1>2, <1>5, SlaveInv(s) DEF FedSlave, FedTo
  <2> QED BY <1>3, <1>5, <2>1
<1>6. CASE x.st = "end"
  <2>1. y.st = "end" /\ y.seldb = d /\ bgsave # NoChild /\ bgsave' # NoChild
    BY <1>1, <1>2, <1>6 DEF FedSlave
  <2>2. ASSUME NEW z \in Dataset
        PROVE  /\ RunAll(Loaded(z), y.buf).data = Effect(RunAll(Loaded(z), x.buf).data, d, e)
               /\ RunAll(Loaded(z), y.buf).db = d
               /\ e = <<"flushall">> => RunAll(Loaded(z), y.buf).data = Empty
    <3>1. Loaded(z) \in Image
      BY Constants
    <3>2. /\ RunAll(Loaded(z), y.buf) = [data |-> Effect(RunAll(Loaded(z), x.buf).data, d, e), db |-> d]
          /\ e = <<"flushall">> => RunAll(Loaded(z), y.buf).data = Empty
      BY ONLY <1>1, <1>2, <1>6, <3>1, SlaveInv(s), z \in Dataset DEF FedSlave, FedTo
    <3> QED BY ONLY <3>2
  <2>3. bgsave.data \in Dataset /\ bgsave'.data \in Dataset
    BY <1>1, <2>1 DEF Children
  <2>4. CASE bgsave' = bgsave /\ dump' = dump
    <3>1. /\ \A z \in Dataset : RunAll(Loaded(z), x.buf).db = x.seldb
          /\ bgsave.is \in {"running", "ok"} => RunAll(Loaded(bgsave.data), x.buf).data = data
          /\ bgsave.is = "ok" => RunAll(Loaded(dump), x.buf).data = data
          /\ bgsave.is = "flushed" => \A z \in Dataset : RunAll(Loaded(z), x.buf).data = data
      BY ONLY <1>2, <1>6, SlaveInv(s)
    <3>2. \A z \in Dataset : /\ RunAll(Loaded(z), y.buf).db = d
                             /\ RunAll(Loaded(z), x.buf).data = data => RunAll(Loaded(z), y.buf).data = data'
      BY ONLY <2>2, data' = Effect(data, d, e)
    <3>3. /\ \A z \in Dataset : RunAll(Loaded(z), y.buf).db = y.seldb
          /\ bgsave'.is \in {"running", "ok"} => RunAll(Loaded(bgsave'.data), y.buf).data = data'
          /\ bgsave'.is = "ok" => RunAll(Loaded(dump'), y.buf).data = data'
          /\ bgsave'.is = "flushed" => \A z \in Dataset : RunAll(Loaded(z), y.buf).data = data'
      BY ONLY <1>1, <2>1, <2>3, <2>4, <3>1, <3>2
    <3> QED BY ONLY <1>3, <2>1, <3>3
  <2>5. CASE e = <<"flushall">>
    <3>1. data' = Empty
      BY <2>5 DEF Effect
    <3>2. \A z \in Dataset : RunAll(Loaded(z), y.buf).db = d /\ RunAll(Loaded(z), y.buf).data = data'
      BY ONLY <2>2, <2>5, <3>1
    <3>3. /\ \A z \in Dataset : RunAll(Loaded(z), y.buf).db = y.seldb
          /\ bgsave'.is \in {"running", "ok"} => RunAll(Loaded(bgsave'.data), y.buf).data = data'
          /\ bgsave'.is = "ok" => RunAll(Loaded(dump'), y.buf).data = data'
          /\ bgsave'.is = "flushed" => \A z \in Dataset : RunAll(Loaded(z), y.buf).data = data'
      BY ONLY <2>1, <2>3, <3>2, dump' \in Dataset
    <3> QED BY ONLY <1>3, <2>1, <3>3
  <2> QED BY <2>1, <2>4, <2>5
<1> QED BY <1>1, <1>4, <1>5, <1>6

-----------------------------------------------------------------------------
(* Commands *)

Situations == {"flushall", "negative", "forgotten", "mixed", "seldb", "killed", "twice", "unopened"}

LEMMA EffectType == \A x \in Dataset, d \in Db, e \in Change : Effect(x, d, e) \in Dataset
<1> SUFFICES ASSUME NEW x \in Dataset, NEW d \in Db, NEW e \in Change PROVE Effect(x, d, e) \in Dataset
  OBVIOUS
<1>1. Empty \in Dataset
  BY Constants
<1>2. [x EXCEPT ![d] = @ + 1] \in Dataset
  BY DEF Dataset
<1> QED BY <1>1, <1>2 DEF Effect

\* A command that is propagated keeps everything, when it counts what it leaves unsaved.
LEMMA CommandKept ==
  ASSUME PersistTypes, Kept, phase = "files", phase' = phase, conf' = conf, NEW d \in Db, NEW e \in Change,
         Propagate(d, e), dirty' # dirty, data' = Effect(data, d, e),
         (bgsave' = bgsave /\ (dump' = dump \/ bgsave = NoChild))
           \/ (e = <<"flushall">> /\ bgsave # NoChild /\ bgsave' # NoChild),
         bgsave' \in Children \cup {NoChild}, dump' \in Dataset, dirty' \in Nat,
         dirty_before_bgsave' = dirty_before_bgsave, met' \subseteq Situations
  PROVE  PersistTypes' /\ (DirtyInv' => Kept')
<1>1. /\ aofbuf' \in Seq(Cmd) /\ bgrewritebuf' \in Seq(Cmd) /\ appendseldb' \in Db \cup {-1}
      /\ AofInv'
  BY FileFed DEF Kept
<1>2. slaves' \in [Slave -> Slaves] /\ \A s \in Slave : FedSlave(slaves[s], slaves'[s], d, e)
  BY SlavesFed
<1>3. appendonly' = appendonly /\ bgrewrite' = bgrewrite /\ aof' = aof /\ whole' = whole
  BY DEF Propagate
<1>4. data' \in Dataset
  BY EffectType DEF PersistTypes
<1>5. PersistTypes'
  BY ONLY PersistTypes, phase' = phase, conf' = conf, bgsave' \in Children \cup {NoChild}, dump' \in Dataset, dirty' \in Nat,
          dirty_before_bgsave' = dirty_before_bgsave, met' \subseteq Situations, <1>1, <1>2, <1>3, <1>4
     DEF PersistTypes, Situations
<1>6. \A s \in Slave : SlaveInv(s)'
  BY <1>2, FedSlaveInv DEF Kept
<1>7. DownInv'
  BY DEF DownInv
<1> QED BY <1>1, <1>5, <1>6, <1>7 DEF Kept

LEMMA IncrKept ==
  ASSUME PersistTypes, Kept, NEW d \in Db, incrCommand(d)
  PROVE  PersistTypes' /\ Kept'
<1> DEFINE e == <<"incr">>
<1>1. /\ phase = "files" /\ phase' = phase /\ conf' = conf /\ Propagate(d, e) /\ dirty' = dirty + 1
      /\ data' = [data EXCEPT ![d] = @ + 1] /\ bgsave' = bgsave /\ dump' = dump
      /\ dirty_before_bgsave' = dirty_before_bgsave /\ met' = met
  BY DEF incrCommand, Request, Serving
<1>2. data' = Effect(data, d, e) /\ e \in Change
  BY <1>1 DEF Effect, Change
<1>3. /\ dirty \in Nat /\ dirty_before_bgsave \in Nat /\ bgsave \in Children \cup {NoChild} /\ dump \in Dataset
      /\ met \subseteq Situations
  BY DEF PersistTypes, Situations
<1>4. dirty' \in Nat /\ dirty' # dirty
  BY <1>1, <1>3
<1>5. DirtyInv'
  BY <1>1, <1>3 DEF Kept, DirtyInv
<1> HIDE DEF e
<1> QED BY <1>1, <1>2, <1>3, <1>4, <1>5, CommandKept

LEMMA SaveKept ==
  ASSUME PersistTypes, Kept, NEW d \in Db, NEW ok \in BOOLEAN, saveCommand(d, ok)
  PROVE  PersistTypes' /\ Kept'
<1> DEFINE e == <<"save">>
<1>1. /\ phase = "files" /\ phase' = phase /\ conf' = conf /\ Propagate(d, e) /\ bgsave = NoChild
      /\ dirty' = (IF ok THEN 0 ELSE dirty) /\ dump' = (IF ok THEN data ELSE dump)
      /\ data' = data /\ bgsave' = bgsave /\ dirty_before_bgsave' = dirty_before_bgsave /\ met' = met
  BY DEF saveCommand, Request, Serving
<1>2. data' = Effect(data, d, e) /\ e \in Change
  BY <1>1 DEF Effect, Change
<1>3. /\ dirty \in Nat /\ dirty_before_bgsave \in Nat /\ bgsave \in Children \cup {NoChild} /\ dump \in Dataset
      /\ data \in Dataset /\ met \subseteq Situations
  BY DEF PersistTypes, Situations
<1>4. dirty' \in Nat /\ dump' \in Dataset
  BY <1>1, <1>3
<1>5. DirtyInv'
  BY <1>1, <1>3 DEF Kept, DirtyInv
<1>6. CASE dirty' # dirty
  <2> HIDE DEF e
  <2> QED BY <1>1, <1>2, <1>3, <1>4, <1>5, <1>6, CommandKept
<1>7. CASE dirty' = dirty
  <2>1. /\ appendonly' = appendonly /\ bgrewrite' = bgrewrite /\ aof' = aof /\ whole' = whole
        /\ aofbuf' = aofbuf /\ bgrewritebuf' = bgrewritebuf /\ appendseldb' = appendseldb /\ slaves' = slaves
    BY <1>1, <1>7 DEF Propagate
  <2>2. PersistTypes'
    BY ONLY PersistTypes, <1>1, <1>3, <1>4, <2>1 DEF PersistTypes
  <2>3. AofInv'
    BY <1>1, <2>1 DEF Kept, AofInv, Makes
  <2>4. \A s \in Slave : SlaveInv(s)'
    BY <1>1, <2>1 DEF Kept, SlaveInv, Makes
  <2>5. DownInv'
    BY <1>1 DEF DownInv
  <2> QED BY <1>5, <2>2, <2>3, <2>4, <2>5 DEF Kept
<1> QED BY <1>6, <1>7

LEMMA FlushallKept ==
  ASSUME PersistTypes, Kept, NEW d \in Db, NEW ok \in BOOLEAN, flushallCommand(d, ok)
  PROVE  PersistTypes' /\ (met' = {} => Kept')
<1> DEFINE e == <<"flushall">>
           n == Cardinality({x \in Db : data[x] > 0})
<1>1. /\ phase = "files" /\ phase' = phase /\ conf' = conf /\ Propagate(d, e) /\ data' = Empty
      /\ dump' = (IF ok THEN Empty ELSE dump) /\ dirty' = (IF ok THEN 1 ELSE dirty + n + 1)
      /\ bgsave' = (IF bgsave # NoChild /\ bgsave.is = "running" THEN [bgsave EXCEPT !.is = "flushed"] ELSE bgsave)
      /\ dirty_before_bgsave' = dirty_before_bgsave
      /\ met' = met \cup (IF dirty' = dirty THEN {"flushall"} ELSE {})
                    \cup (IF ok /\ bgsave # NoChild /\ bgsave.is = "ok" /\ dirty_before_bgsave > 0 THEN {"negative"} ELSE {})
  BY DEF flushallCommand, Request, Serving
<1>2. data' = Effect(data, d, e) /\ e \in Change
  BY <1>1 DEF Effect, Change
<1>3. /\ dirty \in Nat /\ dirty_before_bgsave \in Nat /\ bgsave \in Children \cup {NoChild} /\ dump \in Dataset
      /\ data \in Dataset /\ met \subseteq Situations
  BY DEF PersistTypes, Situations
<1>4. n \in Nat
  <2>1. IsFiniteSet({x \in Db : data[x] > 0})
    BY PersistDbAssumption, FS_Subset
  <2> QED BY <2>1, FS_CardinalityType
<1> HIDE DEF n
<1>5. dirty' \in Nat /\ dump' \in Dataset /\ met' \subseteq Situations
  BY <1>1, <1>3, <1>4, Constants DEF Situations
<1>6. bgsave' \in Children \cup {NoChild} /\ (bgsave # NoChild => bgsave' # NoChild) /\ (bgsave = NoChild => bgsave' = bgsave)
  <2>1. CASE bgsave # NoChild /\ bgsave.is = "running"
    <3>1. bgsave' = [data |-> bgsave.data, is |-> "flushed"] /\ bgsave.data \in Dataset
      BY <1>1, <1>3, <2>1 DEF Children
    <3>2. bgsave' \in Children
      BY <3>1 DEF Children
    <3> QED BY <3>2, <2>1, Constants
  <2>2. CASE ~(bgsave # NoChild /\ bgsave.is = "running")
    BY <1>1, <1>3, <2>2
  <2> QED BY <2>1, <2>2
<1>7. CASE dirty' = dirty
  <2>1. "flushall" \in met'
    BY <1>1, <1>7
  <2>2. /\ appendonly' = appendonly /\ bgrewrite' = bgrewrite /\ aof' = aof /\ whole' = whole
        /\ aofbuf' = aofbuf /\ bgrewritebuf' = bgrewritebuf /\ appendseldb' = appendseldb /\ slaves' = slaves
    BY <1>1, <1>7 DEF Propagate
  <2>3. data' \in Dataset
    BY <1>1, Constants
  <2>4. PersistTypes'
    BY ONLY PersistTypes, <1>1, <1>5, <1>6, <2>2, <2>3 DEF PersistTypes, Situations
  <2> QED BY <2>1, <2>4
<1>8. CASE dirty' # dirty
  <2>1. PersistTypes' /\ (DirtyInv' => Kept')
    <3> HIDE DEF e
    <3>1. (bgsave' = bgsave /\ (dump' = dump \/ bgsave = NoChild)) \/ (e = <<"flushall">> /\ bgsave # NoChild /\ bgsave' # NoChild)
      BY <1>6 DEF e
    <3> QED BY <1>1, <1>2, <1>3, <1>5, <1>6, <1>8, <3>1, CommandKept
  <2>2. ASSUME met' = {} PROVE DirtyInv'
    <3>1. ok /\ bgsave # NoChild /\ bgsave.is = "ok" => ~(dirty_before_bgsave > 0)
      BY ONLY <1>1, <2>2
    <3>2. bgsave' # NoChild => bgsave'.is # "running" /\ (bgsave'.is = "ok" => bgsave # NoChild /\ bgsave.is = "ok")
      <4>1. CASE bgsave # NoChild /\ bgsave.is = "running"
        <5>1. bgsave'.is = "flushed"
          BY <1>1, <1>3, <4>1 DEF Children
        <5> QED BY <5>1
      <4>2. CASE ~(bgsave # NoChild /\ bgsave.is = "running")
        BY <1>1, <4>2
      <4> QED BY <4>1, <4>2
    <3>3. dirty' > 0
      BY <1>1, <1>3, <1>4
    <3>4. bgsave # NoChild /\ bgsave.is = "ok" => dirty' >= dirty_before_bgsave /\ (dump' # data' => dirty' > dirty_before_bgsave)
      <4> SUFFICES ASSUME bgsave # NoChild, bgsave.is = "ok"
                   PROVE  dirty' >= dirty_before_bgsave /\ (dump' # data' => dirty' > dirty_before_bgsave)
        OBVIOUS
      <4>1. dirty >= dirty_before_bgsave
        BY DEF Kept, DirtyInv
      <4>2. CASE ok
        BY <1>1, <1>3, <3>1, <4>2
      <4>3. CASE ~ok
        BY <1>1, <1>3, <1>4, <4>1, <4>3
      <4> QED BY <4>2, <4>3
    <3> QED BY ONLY <1>1, <3>2, <3>3, <3>4 DEF DirtyInv
  <2> QED BY <2>1, <2>2
<1> QED BY <1>7, <1>8

-----------------------------------------------------------------------------
(* Children *)

\* A child may be there that saves the dataset as it is; nobody waits for it yet.
LEMMA SaveBegun ==
  ASSUME PersistTypes, NEW n \in Nat, n = dirty', NEW forked \in BOOLEAN, rdbSaveBackground(n, data, forked),
         data' = data
  PROVE  /\ dirty_before_bgsave' \in Nat /\ bgsave' \in Children \cup {NoChild}
         /\ dirty_before_bgsave' = dirty'
         /\ forked => bgsave' # NoChild /\ bgsave'.is = "running" /\ bgsave'.data = data
         /\ ~forked => bgsave' = NoChild
BY Constants DEF rdbSaveBackground, PersistTypes

LEMMA BgsaveKept ==
  ASSUME PersistTypes, Kept, NEW forked \in BOOLEAN, bgsaveCommand(forked)
  PROVE  PersistTypes' /\ Kept'
<1>1. /\ phase = "files" /\ phase' = phase /\ bgsave = NoChild /\ rdbSaveBackground(dirty, data, forked)
      /\ UNCHANGED <<conf, data, dirty, dump, log, slaves, phase, met>>
  BY DEF bgsaveCommand, Request, Serving
<1>2. dirty \in Nat /\ dirty = dirty'
  BY <1>1 DEF PersistTypes
<1>3. /\ dirty_before_bgsave' \in Nat /\ bgsave' \in Children \cup {NoChild}
      /\ dirty_before_bgsave' = dirty'
      /\ forked => bgsave' # NoChild /\ bgsave'.is = "running" /\ bgsave'.data = data
      /\ ~forked => bgsave' = NoChild
  BY <1>1, <1>2, SaveBegun
<1>4. PersistTypes'
  BY ONLY PersistTypes, <1>1, <1>3 DEF PersistTypes, log
<1>5. AofInv' /\ DownInv'
  BY ONLY <1>1, Kept DEF Kept, AofInv, DownInv, Makes, log
<1>6. DirtyInv'
  BY ONLY <1>1, <1>2, <1>3, Kept DEF Kept, DirtyInv
<1>7. \A s \in Slave : SlaveInv(s)'
  BY <1>1 DEF Kept, SlaveInv, Makes
<1> QED BY ONLY <1>4, <1>5, <1>6, <1>7 DEF Kept

LEMMA BgrewriteKept ==
  ASSUME PersistTypes, Kept, NEW forked \in BOOLEAN, bgrewriteaofCommand(forked) \/ startAppendOnly(TRUE, forked)
  PROVE  PersistTypes' /\ Kept'
<1>1. /\ phase = "files" /\ phase' = phase /\ bgrewrite = NoChild
      /\ bgrewrite' = (IF forked THEN Child(data) ELSE NoChild)
      /\ appendseldb' = (IF forked THEN -1 ELSE appendseldb)
      /\ UNCHANGED <<conf, data, rdb, aof, aofbuf, bgrewritebuf, slaves, met>>
  BY DEF bgrewriteaofCommand, startAppendOnly, Request, Serving, rewriteAppendOnlyFileBackground
<1>2. (appendonly' = appendonly /\ whole' = whole) \/ (appendonly' = forked /\ whole' = FALSE)
  BY DEF bgrewriteaofCommand, startAppendOnly
<1>3. /\ data \in Dataset /\ aof \in Image /\ aofbuf \in Seq(Cmd)
  BY DEF PersistTypes
<1>4. /\ Child(data) \in Children /\ Child(data).data = data
  BY <1>3, Constants
<1>5. PersistTypes'
  <2>1. appendonly' \in BOOLEAN /\ whole' \in BOOLEAN
    BY ONLY PersistTypes, <1>2, forked \in BOOLEAN DEF PersistTypes
  <2>2. bgrewrite' \in Children \cup {NoChild} /\ appendseldb' \in Db \cup {-1}
    BY ONLY PersistTypes, <1>1, <1>4 DEF PersistTypes
  <2> QED BY ONLY PersistTypes, <1>1, <2>1, <2>2 DEF PersistTypes, rdb
<1>6. AofInv'
  <2>1. bgrewritebuf' = << >>
    BY <1>1 DEF Kept, AofInv
  <2>2. appendonly' /\ whole' /\ phase' # "down" => Makes(aof, aofbuf, appendseldb)'
    <3> SUFFICES ASSUME appendonly', whole' PROVE Makes(aof, aofbuf, appendseldb)'
      OBVIOUS
    <3>1. Makes(aof, aofbuf, appendseldb)
      BY <1>1, <1>2 DEF Kept, AofInv
    <3> QED BY ONLY <1>1, <3>1 DEF Makes
  <2>3. bgrewrite' # NoChild => Makes(rewriteAppendOnlyFile(bgrewrite.data), bgrewritebuf, appendseldb)'
    <3> SUFFICES ASSUME bgrewrite' # NoChild
                 PROVE  Makes(rewriteAppendOnlyFile(bgrewrite.data), bgrewritebuf, appendseldb)'
      OBVIOUS
    <3>1. bgrewrite'.data = data /\ appendseldb' = -1
      BY <1>1, <1>4
    <3>2. RunAll(rewriteAppendOnlyFile(data), << >>).data = data
      <4>1. << >> \in Seq(Cmd)
        OBVIOUS
      <4> QED BY <1>3, <4>1, Rewritten, RunAllType
    <3> QED BY ONLY <1>1, <2>1, <3>1, <3>2 DEF Makes
  <2> QED BY ONLY <2>1, <2>2, <2>3 DEF AofInv
<1>7. DirtyInv' /\ DownInv'
  BY <1>1 DEF Kept, DirtyInv, DownInv, rdb
<1>8. \A s \in Slave : SlaveInv(s)'
  BY ONLY <1>1, Kept DEF Kept, SlaveInv, Makes, rdb
<1> QED BY ONLY <1>5, <1>6, <1>7, <1>8 DEF Kept

LEMMA UnopenedKept ==
  ASSUME PersistTypes, startAppendOnly(FALSE, FALSE)
  PROVE  PersistTypes' /\ met' # {}
<1>1. /\ appendonly' = TRUE /\ whole' = FALSE /\ phase' = phase /\ met' = met \cup {"unopened"}
      /\ UNCHANGED <<conf, data, rdb, aof, aofbuf, bgrewrite, appendseldb, bgrewritebuf, slaves>>
  BY DEF startAppendOnly
<1> QED BY ONLY PersistTypes, <1>1 DEF PersistTypes, rdb

LEMMA StopKept ==
  ASSUME PersistTypes, Kept, stopAppendOnly
  PROVE  PersistTypes' /\ (met' = {} => Kept')
<1>1. /\ phase = "files" /\ phase' = phase /\ appendonly
      /\ aof' = RunAll(aof, aofbuf) /\ aofbuf' = << >> /\ appendseldb' = -1 /\ appendonly' = FALSE
      /\ bgrewritebuf' = (IF bgsave # NoChild THEN << >> ELSE bgrewritebuf) /\ bgsave' = NoChild
      /\ met' = met \cup (IF bgsave # NoChild /\ \E s \in Slave : slaves[s].st \in {"start", "end"} THEN {"forgotten"} ELSE {})
                \cup (IF bgsave # NoChild /\ bgrewrite # NoChild THEN {"mixed"} ELSE {})
      /\ UNCHANGED <<conf, data, dirty, dirty_before_bgsave, dump, bgrewrite, whole, slaves>>
  BY DEF stopAppendOnly, Request, Serving
<1>2. << >> \in Seq(Cmd) /\ aof \in Image /\ aofbuf \in Seq(Cmd)
  BY DEF PersistTypes
<1>3. aof' \in Image
  BY <1>1, <1>2, RunAllType
<1>4. met' \subseteq Situations
  BY <1>1 DEF PersistTypes, Situations
<1>5. PersistTypes'
  BY ONLY PersistTypes, <1>1, <1>2, <1>3, <1>4 DEF PersistTypes, Situations
<1>6. ASSUME met' = {} PROVE Kept'
  <2>1. bgsave # NoChild => \A s \in Slave : slaves[s].st \notin {"start", "end"}
    BY ONLY <1>1, <1>6
  <2>2. bgsave # NoChild => bgrewrite = NoChild
    BY ONLY <1>1, <1>6
  <2>3. \A s \in Slave : slaves[s].st \notin {"start", "end"}
    BY <2>1 DEF Kept, SlaveInv
  <2>4. \A s \in Slave : SlaveInv(s)'
    BY ONLY <1>1, <2>3, Kept DEF Kept, SlaveInv, Makes
  <2>5. AofInv'
    BY ONLY <1>1, Kept DEF Kept, AofInv
  <2>6. DirtyInv' /\ DownInv'
    BY ONLY <1>1, Kept DEF Kept, DirtyInv, DownInv
  <2> QED BY ONLY <2>4, <2>5, <2>6 DEF Kept
<1> QED BY ONLY <1>5, <1>6

\* The child that saves ends; the dump is replaced when it has ended well.
LEMMA ChildSavesKept ==
  ASSUME PersistTypes, Kept, NEW how \in {"ok", "error", "killed"}, childSaves(how)
  PROVE  PersistTypes' /\ Kept'
<1>1. /\ bgsave # NoChild /\ bgsave.is = "running" /\ bgsave' = [bgsave EXCEPT !.is = how]
      /\ dump' = (IF how = "ok" THEN bgsave.data ELSE dump)
      /\ UNCHANGED <<conf, data, dirty, dirty_before_bgsave, log, slaves, phase, met>>
  BY DEF childSaves
<1>2. bgsave \in Children /\ dirty \in Nat /\ dirty_before_bgsave \in Nat /\ dump \in Dataset
  BY <1>1 DEF PersistTypes
<1>3. bgsave' = [data |-> bgsave.data, is |-> how] /\ bgsave.data \in Dataset
  BY ONLY <1>1, <1>2 DEF Children
<1>4. bgsave' \in Children /\ bgsave'.data = bgsave.data /\ bgsave'.is = how /\ bgsave' # NoChild /\ dump' \in Dataset
  <2>1. bgsave' \in Children
    BY ONLY <1>3, how \in {"ok", "error", "killed"} DEF Children
  <2>2. NoChild \notin Children
    BY Constants
  <2> QED BY ONLY <1>1, <1>2, <1>3, <2>1, <2>2
<1>5. PersistTypes'
  BY ONLY PersistTypes, <1>1, <1>4 DEF PersistTypes, log
<1>6. phase # "down"
  BY <1>1 DEF Kept, DownInv
<1>7. AofInv' /\ DownInv'
  BY ONLY <1>1, <1>6, Kept DEF Kept, AofInv, DownInv, Makes, log
<1>8. DirtyInv'
  <2>1. dirty >= dirty_before_bgsave /\ (bgsave.data # data => dirty > dirty_before_bgsave)
    BY <1>1 DEF Kept, DirtyInv
  <2>2. ~conf /\ dump # data => dirty > 0
    BY <1>6 DEF Kept, DirtyInv
  <2> QED BY ONLY <1>1, <1>2, <1>4, <2>1, <2>2 DEF DirtyInv
<1>9. \A s \in Slave : SlaveInv(s)'
  BY ONLY <1>1, <1>4, Kept, how \in {"ok", "error", "killed"} DEF Kept, SlaveInv, Makes
<1> QED BY ONLY <1>5, <1>7, <1>8, <1>9 DEF Kept

LEMMA ChildRewritesKept ==
  ASSUME PersistTypes, Kept, NEW how \in {"ok", "error", "killed"}, childRewrites(how)
  PROVE  PersistTypes' /\ Kept'
<1>1. /\ bgrewrite # NoChild /\ bgrewrite.is = "running" /\ bgrewrite' = [bgrewrite EXCEPT !.is = how]
      /\ UNCHANGED <<conf, data, rdb, appendonly, aof, aofbuf, bgrewritebuf, appendseldb, whole, slaves, phase, met>>
  BY DEF childRewrites
<1>2. bgrewrite \in Children
  BY <1>1 DEF PersistTypes
<1>3. bgrewrite' = [data |-> bgrewrite.data, is |-> how] /\ bgrewrite.data \in Dataset
  BY ONLY <1>1, <1>2 DEF Children
<1>4. bgrewrite' \in Children /\ bgrewrite'.data = bgrewrite.data /\ bgrewrite' # NoChild
  <2>1. bgrewrite' \in Children
    BY ONLY <1>3, how \in {"ok", "error", "killed"} DEF Children
  <2>2. NoChild \notin Children
    BY Constants
  <2> QED BY ONLY <1>3, <2>1, <2>2
<1>5. PersistTypes'
  BY ONLY PersistTypes, <1>1, <1>4 DEF PersistTypes, rdb
<1>6. AofInv'
  BY ONLY <1>1, <1>4, Kept DEF Kept, AofInv, Makes
<1>7. DirtyInv' /\ DownInv'
  BY ONLY <1>1, Kept DEF Kept, DirtyInv, DownInv, rdb
<1>8. \A s \in Slave : SlaveInv(s)'
  BY ONLY <1>1, Kept DEF Kept, SlaveInv, Makes, rdb
<1> QED BY ONLY <1>5, <1>6, <1>7, <1>8 DEF Kept

-----------------------------------------------------------------------------
(* Slaves *)

\* Only the slaves change, and each that does is as it should be.
LEMMA SlavesKept ==
  ASSUME PersistTypes, Kept, phase = "files", phase' = phase, met' \subseteq Situations,
         UNCHANGED <<conf, data, dirty, dump, log>>,
         dirty_before_bgsave' \in Nat, bgsave' \in Children \cup {NoChild},
         slaves' \in [Slave -> Slaves]
  PROVE  /\ PersistTypes'
         /\ DirtyInv' /\ (\A s \in Slave : SlaveInv(s)') => Kept'
<1>1. PersistTypes'
  BY ONLY PersistTypes, phase' = phase, met' \subseteq Situations, UNCHANGED <<conf, data, dirty, dump, log>>,
         dirty_before_bgsave' \in Nat, bgsave' \in Children \cup {NoChild}, slaves' \in [Slave -> Slaves]
     DEF PersistTypes, log, Situations
<1>2. AofInv' /\ DownInv'
  BY ONLY phase = "files", phase' = phase, UNCHANGED <<conf, data, dirty, dump, log>>, Kept
     DEF Kept, AofInv, DownInv, Makes, log
<1> QED BY ONLY <1>1, <1>2 DEF Kept

\* Two fields of a slave change.
LEMMA TwoFields ==
  ASSUME NEW x, NEW st, NEW b, NEW h, x = [st |-> x.st, buf |-> x.buf, seldb |-> x.seldb, has |-> x.has]
  PROVE  /\ [x EXCEPT !.st = st, !.buf = b] = [st |-> st, buf |-> b, seldb |-> x.seldb, has |-> x.has]
         /\ [x EXCEPT !.buf = b, !.has = h] = [st |-> x.st, buf |-> b, seldb |-> x.seldb, has |-> h]
         /\ [x EXCEPT !.st = st, !.has = h] = [st |-> st, buf |-> x.buf, seldb |-> x.seldb, has |-> h]
<1> DEFINE y == [st |-> st, buf |-> x.buf, seldb |-> x.seldb, has |-> x.has]
           z == [st |-> x.st, buf |-> b, seldb |-> x.seldb, has |-> x.has]
<1>1. [x EXCEPT !.st = st] = y /\ [x EXCEPT !.buf = b] = z
  OBVIOUS
<1>2. /\ [x EXCEPT !.st = st, !.buf = b] = [[x EXCEPT !.st = st] EXCEPT !.buf = b]
      /\ [x EXCEPT !.buf = b, !.has = h] = [[x EXCEPT !.buf = b] EXCEPT !.has = h]
      /\ [x EXCEPT !.st = st, !.has = h] = [[x EXCEPT !.st = st] EXCEPT !.has = h]
  OBVIOUS
<1>3. /\ [y EXCEPT !.buf = b] = [st |-> st, buf |-> b, seldb |-> x.seldb, has |-> x.has]
      /\ [z EXCEPT !.has = h] = [st |-> x.st, buf |-> b, seldb |-> x.seldb, has |-> h]
      /\ [y EXCEPT !.has = h] = [st |-> st, buf |-> x.buf, seldb |-> x.seldb, has |-> h]
  OBVIOUS
<1> HIDE DEF y, z
<1> QED BY ONLY <1>1, <1>2, <1>3

LEMMA SyncKept ==
  ASSUME PersistTypes, Kept, NEW s \in Slave, NEW forked \in BOOLEAN, syncCommand(s, forked)
  PROVE  PersistTypes' /\ (met' = {} => Kept')
<1>1. /\ phase = "files" /\ phase' = phase /\ slaves[s].st = "none" /\ slaves \in [Slave -> Slaves]
      /\ UNCHANGED <<conf, data, log>> /\ met \subseteq Situations
      /\ dirty \in Nat /\ dirty_before_bgsave \in Nat /\ bgsave \in Children \cup {NoChild}
  BY DEF syncCommand, Request, Serving, PersistTypes, Situations
<1>2. << >> \in Seq(Cmd) /\ NoSlave \in Slaves
  BY Constants
<1>3. ASSUME bgsave # NoChild, NEW t \in Slave, slaves[t].st = "end",
             slaves' = [slaves EXCEPT ![s] = [NoSlave EXCEPT !.st = "end", !.buf = slaves[t].buf]],
             met' = met \cup (IF slaves[t].seldb # 0 THEN {"seldb"} ELSE {}), UNCHANGED rdb
      PROVE  PersistTypes' /\ (met' = {} => Kept')
  <2> DEFINE y == [st |-> "end", buf |-> slaves[t].buf, seldb |-> 0, has |-> Fresh]
  <2>1. [NoSlave EXCEPT !.st = "end", !.buf = slaves[t].buf] = y
    <3>1. /\ NoSlave = [st |-> NoSlave.st, buf |-> NoSlave.buf, seldb |-> NoSlave.seldb, has |-> NoSlave.has]
          /\ NoSlave.seldb = 0 /\ NoSlave.has = Fresh
      BY DEF NoSlave
    <3>2. [NoSlave EXCEPT !.st = "end", !.buf = slaves[t].buf]
            = [st |-> "end", buf |-> slaves[t].buf, seldb |-> NoSlave.seldb, has |-> NoSlave.has]
      BY ONLY <3>1, TwoFields
    <3> QED BY ONLY <3>1, <3>2
  <2>2. slaves[t].buf \in Seq(Cmd)
    BY <1>1 DEF Slaves
  <2>3. y \in Slaves
    BY <2>2, Constants DEF Slaves
  <2>4. slaves' = [slaves EXCEPT ![s] = y]
    BY ONLY <1>3, <2>1
  <2>5. y.st = "end" /\ y.buf = slaves[t].buf /\ y.seldb = 0
    OBVIOUS
  <2> HIDE DEF y
  <2>6. slaves' \in [Slave -> Slaves] /\ slaves'[s] = y /\ \A u \in Slave : u # s => slaves'[u] = slaves[u]
    BY ONLY <1>1, <2>3, <2>4, s \in Slave
  <2>7. met' \subseteq Situations
    BY ONLY <1>1, <1>3 DEF Situations
  <2>8. UNCHANGED <<conf, data, dirty, dump, log>> /\ dirty_before_bgsave' = dirty_before_bgsave /\ bgsave' = bgsave
    BY ONLY <1>1, <1>3 DEF rdb
  <2>9. PersistTypes' /\ (DirtyInv' /\ (\A u \in Slave : SlaveInv(u)') => Kept')
    BY <1>1, <2>6, <2>7, <2>8, SlavesKept
  <2>10. DirtyInv'
    BY ONLY <1>1, <2>8, Kept DEF Kept, DirtyInv
  <2>11. ASSUME met' = {} PROVE \A u \in Slave : SlaveInv(u)'
    <3>1. slaves[t].seldb = 0
      BY ONLY <1>3, <2>11
    <3>2. SlaveInv(t)
      BY DEF Kept
    <3>3. SlaveInv(s)'
      BY ONLY <1>3, <2>5, <2>6, <2>8, <3>1, <3>2 DEF SlaveInv, Makes
    <3>4. ASSUME NEW u \in Slave, u # s PROVE SlaveInv(u)'
      <4>1. SlaveInv(u)
        BY DEF Kept
      <4>2. slaves'[u] = slaves[u]
        BY <2>6, <3>4
      <4> QED BY ONLY <2>8, <4>1, <4>2 DEF SlaveInv, Makes
    <3> QED BY <3>3, <3>4
  <2> QED BY ONLY <2>9, <2>10, <2>11
<1>4. ASSUME bgsave # NoChild, slaves' = [slaves EXCEPT ![s] = [NoSlave EXCEPT !.st = "start"]], UNCHANGED <<rdb, met>>
      PROVE  PersistTypes' /\ (met' = {} => Kept')
  <2> DEFINE y == [st |-> "start", buf |-> << >>, seldb |-> 0, has |-> Fresh]
  <2>1. [NoSlave EXCEPT !.st = "start"] = y
    BY DEF NoSlave
  <2>3. y \in Slaves
    BY <1>2, Constants DEF Slaves
  <2>4. slaves' = [slaves EXCEPT ![s] = y]
    BY ONLY <1>4, <2>1
  <2>5. y.st = "start" /\ y.buf = << >> /\ y.seldb = 0
    OBVIOUS
  <2> HIDE DEF y
  <2>6. slaves' \in [Slave -> Slaves] /\ slaves'[s] = y /\ \A u \in Slave : u # s => slaves'[u] = slaves[u]
    BY ONLY <1>1, <2>3, <2>4, s \in Slave
  <2>8. UNCHANGED <<conf, data, dirty, dump, log>> /\ dirty_before_bgsave' = dirty_before_bgsave /\ bgsave' = bgsave /\ met' = met
    BY ONLY <1>1, <1>4 DEF rdb
  <2>9. PersistTypes' /\ (DirtyInv' /\ (\A u \in Slave : SlaveInv(u)') => Kept')
    BY <1>1, <2>6, <2>8, SlavesKept
  <2>10. DirtyInv'
    BY ONLY <1>1, <2>8, Kept DEF Kept, DirtyInv
  <2>11. \A u \in Slave : SlaveInv(u)'
    <3>3. SlaveInv(s)'
      BY ONLY <1>4, <2>5, <2>6, <2>8 DEF SlaveInv, Makes
    <3>4. ASSUME NEW u \in Slave, u # s PROVE SlaveInv(u)'
      <4>1. SlaveInv(u)
        BY DEF Kept
      <4>2. slaves'[u] = slaves[u]
        BY <2>6, <3>4
      <4> QED BY ONLY <2>8, <4>1, <4>2 DEF SlaveInv, Makes
    <3> QED BY <3>3, <3>4
  <2> QED BY ONLY <2>9, <2>10, <2>11
<1>5. ASSUME bgsave = NoChild, rdbSaveBackground(dirty, data, forked),
             slaves' = IF forked THEN [slaves EXCEPT ![s] = [NoSlave EXCEPT !.st = "end"]] ELSE slaves,
             UNCHANGED <<dirty, dump, met>>
      PROVE  PersistTypes' /\ (met' = {} => Kept')
  <2> DEFINE y == [st |-> "end", buf |-> << >>, seldb |-> 0, has |-> Fresh]
  <2>1. [NoSlave EXCEPT !.st = "end"] = y
    BY DEF NoSlave
  <2>2. /\ dirty_before_bgsave' \in Nat /\ bgsave' \in Children \cup {NoChild}
        /\ dirty_before_bgsave' = dirty'
        /\ forked => bgsave' # NoChild /\ bgsave'.is = "running" /\ bgsave'.data = data
        /\ ~forked => bgsave' = NoChild
    BY <1>1, <1>5, SaveBegun
  <2>3. y \in Slaves
    BY <1>2, Constants DEF Slaves
  <2>4. slaves' = IF forked THEN [slaves EXCEPT ![s] = y] ELSE slaves
    BY ONLY <1>5, <2>1
  <2>5. y.st = "end" /\ y.buf = << >> /\ y.seldb = 0
    OBVIOUS
  <2> HIDE DEF y
  <2>6. /\ slaves' \in [Slave -> Slaves] /\ slaves'[s] = (IF forked THEN y ELSE slaves[s])
        /\ \A u \in Slave : u # s => slaves'[u] = slaves[u]
    BY ONLY <1>1, <2>3, <2>4, s \in Slave
  <2>8. UNCHANGED <<conf, data, dirty, dump, log>> /\ met' = met
    BY ONLY <1>1, <1>5
  <2>9. PersistTypes' /\ (DirtyInv' /\ (\A u \in Slave : SlaveInv(u)') => Kept')
    BY <1>1, <2>2, <2>6, <2>8, SlavesKept
  <2>10. DirtyInv'
    BY ONLY <1>1, <2>2, <2>8, Kept DEF Kept, DirtyInv
  <2>11. ASSUME NEW u \in Slave PROVE SlaveInv(u)'
    <3>1. SlaveInv(u) /\ slaves[u].st \notin {"start", "end"}
      BY <1>5 DEF Kept, SlaveInv
    <3>2. CASE u = s /\ forked
      <4>1. \A x \in Dataset : RunAll(Loaded(x), << >>) = Loaded(x) /\ Loaded(x).data = x /\ Loaded(x).db = 0
        BY <1>2, Constants, RunAllType
      <4>2. data \in Dataset
        BY DEF PersistTypes
      <4> QED BY ONLY <2>2, <2>5, <2>6, <2>8, <3>2, <4>1, <4>2 DEF SlaveInv, Makes
    <3>3. CASE ~(u = s /\ forked)
      <4>1. slaves'[u] = slaves[u]
        BY <2>6, <3>3
      <4> QED BY ONLY <2>8, <3>1, <4>1 DEF SlaveInv, Makes
    <3> QED BY <3>2, <3>3
  <2> QED BY ONLY <2>9, <2>10, <2>11
<1> QED BY <1>3, <1>4, <1>5 DEF syncCommand

\* One slave goes on, or goes.
LEMMA SlaveStepKept ==
  ASSUME PersistTypes, Kept, NEW s \in Slave, sendBulkToSlave(s) \/ sendReplyToSlave(s) \/ slaveLost(s)
  PROVE  PersistTypes' /\ Kept'
<1>1. /\ phase = "files" /\ phase' = phase /\ slaves \in [Slave -> Slaves]
      /\ UNCHANGED <<conf, data, rdb, log, met>> /\ met \subseteq Situations
      /\ dirty \in Nat /\ dirty_before_bgsave \in Nat /\ bgsave \in Children \cup {NoChild}
  BY DEF sendBulkToSlave, sendReplyToSlave, slaveLost, Serving, PersistTypes, Situations
<1>2. UNCHANGED <<conf, data, dirty, dump, log>> /\ dirty_before_bgsave' = dirty_before_bgsave /\ bgsave' = bgsave /\ met' = met
  BY ONLY <1>1 DEF rdb
<1>3. << >> \in Seq(Cmd) /\ NoSlave \in Slaves
  BY Constants
<1>4. /\ slaves[s].st \in {"none", "start", "end", "bulk", "online"} /\ slaves[s].buf \in Seq(Cmd)
      /\ slaves[s].seldb \in Db /\ slaves[s].has \in Image
      /\ slaves[s] = [st |-> slaves[s].st, buf |-> slaves[s].buf, seldb |-> slaves[s].seldb, has |-> slaves[s].has]
  BY <1>1 DEF Slaves
<1>5. SlaveInv(s)
  BY DEF Kept
<1>6. \E y \in Slaves : /\ slaves' = [slaves EXCEPT ![s] = y]
                        /\ \/ y = NoSlave
                           \/ /\ y.st = "online" /\ y.seldb = slaves[s].seldb
                              /\ Makes(y.has, y.buf, y.seldb)
  <2>1. CASE sendBulkToSlave(s)
    <3> DEFINE y == [st |-> "online", buf |-> slaves[s].buf, seldb |-> slaves[s].seldb, has |-> slaves[s].has]
    <3>1. slaves[s].st = "bulk" /\ slaves' = [slaves EXCEPT ![s].st = "online"]
      BY <2>1 DEF sendBulkToSlave
    <3>2. slaves' = [slaves EXCEPT ![s] = y]
      <4>1. slaves' = [slaves EXCEPT ![s] = [slaves[s] EXCEPT !.st = "online"]]
        BY ONLY <1>1, <3>1
      <4>2. [slaves[s] EXCEPT !.st = "online"] = y
        BY ONLY <1>4
      <4> QED BY ONLY <4>1, <4>2
    <3>3. y \in Slaves
      BY ONLY <1>4 DEF Slaves
    <3>4. Makes(y.has, y.buf, y.seldb)
      BY ONLY <1>5, <3>1 DEF SlaveInv
    <3>5. y.st = "online" /\ y.seldb = slaves[s].seldb
      OBVIOUS
    <3> QED BY ONLY <3>2, <3>3, <3>4, <3>5
  <2>2. CASE sendReplyToSlave(s)
    <3> DEFINE r == RunAll(slaves[s].has, slaves[s].buf)
               y == [st |-> "online", buf |-> << >>, seldb |-> slaves[s].seldb, has |-> r]
    <3>1. slaves[s].st = "online" /\ slaves' = [slaves EXCEPT ![s].buf = << >>, ![s].has = RunAll(@, slaves[s].buf)]
      BY <2>2 DEF sendReplyToSlave
    <3>2. slaves' = [slaves EXCEPT ![s] = y]
      <4>1. slaves' = [slaves EXCEPT ![s] = [slaves[s] EXCEPT !.buf = << >>, !.has = r]]
        BY ONLY <1>1, <3>1
      <4>2. [slaves[s] EXCEPT !.buf = << >>, !.has = r]
              = [st |-> slaves[s].st, buf |-> << >>, seldb |-> slaves[s].seldb, has |-> r]
        <5> HIDE DEF r
        <5> QED BY ONLY <1>4, TwoFields
      <4>3. slaves[s].st = "online"
        BY ONLY <3>1
      <4>4. [slaves[s] EXCEPT !.buf = << >>, !.has = r] = y
        BY ONLY <4>2, <4>3
      <4> QED BY ONLY <4>1, <4>4
    <3>3. r \in Image /\ RunAll(r, << >>) = r
      BY <1>3, <1>4, RunAllType
    <3>4. y \in Slaves
      BY ONLY <1>3, <1>4, <3>3 DEF Slaves
    <3>5. Makes(r, << >>, slaves[s].seldb)
      BY ONLY <1>5, <3>1, <3>3 DEF SlaveInv, Makes
    <3>6. y.st = "online" /\ y.seldb = slaves[s].seldb /\ y.has = r /\ y.buf = << >>
      OBVIOUS
    <3> HIDE DEF y
    <3> QED BY ONLY <3>2, <3>4, <3>5, <3>6
  <2>3. CASE slaveLost(s)
    BY <1>3, <2>3 DEF slaveLost
  <2> QED BY <2>1, <2>2, <2>3
<1>7. PICK y \in Slaves : /\ slaves' = [slaves EXCEPT ![s] = y]
                          /\ \/ y = NoSlave
                             \/ /\ y.st = "online" /\ y.seldb = slaves[s].seldb
                                /\ Makes(y.has, y.buf, y.seldb)
  BY <1>6
<1>8. slaves' \in [Slave -> Slaves] /\ slaves'[s] = y /\ \A u \in Slave : u # s => slaves'[u] = slaves[u]
  BY ONLY <1>1, <1>7, s \in Slave
<1>9. PersistTypes' /\ (DirtyInv' /\ (\A u \in Slave : SlaveInv(u)') => Kept')
  BY <1>1, <1>2, <1>8, SlavesKept
<1>10. DirtyInv'
  BY ONLY <1>1, <1>2, Kept DEF Kept, DirtyInv
<1>11. ASSUME NEW u \in Slave PROVE SlaveInv(u)'
  <2>1. SlaveInv(u)
    BY DEF Kept
  <2>2. CASE u = s
    <3>1. NoSlave.st = "none" /\ NoSlave.buf = << >> /\ NoSlave.seldb = 0
      BY Constants
    <3> QED BY ONLY <1>2, <1>7, <1>8, <2>2, <3>1 DEF SlaveInv, Makes
  <2>3. CASE u # s
    <3>1. slaves'[u] = slaves[u]
      BY <1>8, <2>3
    <3> QED BY ONLY <1>2, <2>1, <3>1 DEF SlaveInv, Makes
  <2> QED BY <2>2, <2>3
<1> QED BY ONLY <1>9, <1>10, <1>11

-----------------------------------------------------------------------------
(* The event loop *)

LEMMA SaveDoneKept ==
  ASSUME PersistTypes, Kept, NEW forked \in BOOLEAN, Ended(bgsave), backgroundSaveDoneHandler(forked),
         phase = "files", phase' = "cron", UNCHANGED <<conf, data>>
  PROVE  PersistTypes' /\ (met' = {} => Kept')
<1> DEFINE how == bgsave.is
           next == \E s \in Slave : slaves[s].st = "start"
<1>1. /\ bgsave # NoChild /\ how # "running" /\ dirty' = DirtyAfter(how) /\ slaves' = Served(slaves, how # "error")
      /\ met' = met \cup (IF how = "killed" /\ WaitingFor(slaves) # {} THEN {"killed"} ELSE {})
                    \cup (IF next /\ ~forked THEN {"forgotten"} ELSE {})
      /\ UNCHANGED <<dump, log>>
  BY DEF backgroundSaveDoneHandler, Ended
<1>2. IF next THEN rdbSaveBackground(dirty', data, forked)
      ELSE bgsave' = NoChild /\ dirty_before_bgsave' = dirty_before_bgsave
  BY DEF backgroundSaveDoneHandler
<1>3. /\ bgsave \in Children /\ how \in {"ok", "error", "killed", "flushed"} /\ slaves \in [Slave -> Slaves]
      /\ dirty \in Nat /\ dirty_before_bgsave \in Nat /\ dump \in Dataset /\ data \in Dataset
  BY <1>1 DEF PersistTypes, Children
<1>4. /\ dirty' \in Nat
      /\ ~conf /\ dump # data => dirty' > 0
  <2>1. how = "ok" => dirty >= dirty_before_bgsave /\ (dump # data => dirty > dirty_before_bgsave)
    BY <1>1 DEF Kept, DirtyInv
  <2>2. ~conf /\ dump # data => dirty > 0
    BY phase = "files" DEF Kept, DirtyInv
  <2> HIDE DEF how
  <2>3. dirty' = IF how = "ok" THEN dirty - dirty_before_bgsave ELSE dirty
    BY ONLY <1>1 DEF DirtyAfter
  <2> QED BY ONLY <1>3, <2>1, <2>2, <2>3
<1> HIDE DEF next
<1>5. /\ dirty_before_bgsave' \in Nat /\ bgsave' \in Children \cup {NoChild}
      /\ next => dirty_before_bgsave' = dirty'
      /\ next /\ forked => bgsave' # NoChild /\ bgsave'.is = "running" /\ bgsave'.data = data
      /\ ~(next /\ forked) => bgsave' = NoChild
  <2>1. CASE next
    <3>1. rdbSaveBackground(dirty', data, forked)
      BY <1>2, <2>1
    <3> QED
      <4>1. \A n \in Nat : n = dirty' /\ rdbSaveBackground(n, data, forked) =>
              /\ dirty_before_bgsave' \in Nat /\ bgsave' \in Children \cup {NoChild}
              /\ dirty_before_bgsave' = dirty'
              /\ forked => bgsave' # NoChild /\ bgsave'.is = "running" /\ bgsave'.data = data
              /\ ~forked => bgsave' = NoChild
        BY SaveBegun
      <4> QED BY ONLY <1>4, <2>1, <3>1, <4>1
  <2>2. CASE ~next
    BY <1>2, <1>3, <2>2
  <2> QED BY <2>1, <2>2
<1>6. ASSUME NEW s \in Slave
      PROVE  LET x == slaves[s] IN
               slaves'[s] = IF x.st = "end"
                            THEN IF how # "error" THEN [x EXCEPT !.st = "bulk", !.has = [data |-> dump, db |-> 0]] ELSE NoSlave
                            ELSE IF x.st = "start" THEN [x EXCEPT !.st = "end"]
                            ELSE x
  BY <1>1 DEF Served, WaitingFor
<1>7. ASSUME NEW s \in Slave
      PROVE  LET x == slaves[s] IN
               slaves'[s] = IF x.st = "end"
                            THEN IF how # "error" THEN [st |-> "bulk", buf |-> x.buf, seldb |-> x.seldb, has |-> Loaded(dump)]
                                 ELSE NoSlave
                            ELSE IF x.st = "start" THEN [st |-> "end", buf |-> x.buf, seldb |-> x.seldb, has |-> x.has]
                            ELSE x
  <2> DEFINE x == slaves[s]
  <2>1. x = [st |-> x.st, buf |-> x.buf, seldb |-> x.seldb, has |-> x.has]
    BY <1>3 DEF Slaves
  <2>2. slaves'[s] = IF x.st = "end"
                     THEN IF how # "error" THEN [x EXCEPT !.st = "bulk", !.has = [data |-> dump, db |-> 0]] ELSE NoSlave
                     ELSE IF x.st = "start" THEN [x EXCEPT !.st = "end"]
                     ELSE x
    BY <1>6
  <2> HIDE DEF x, how
  <2>3. [x EXCEPT !.st = "bulk", !.has = Loaded(dump)] = [st |-> "bulk", buf |-> x.buf, seldb |-> x.seldb, has |-> Loaded(dump)]
    BY ONLY <2>1, TwoFields
  <2>4. [x EXCEPT !.st = "end"] = [st |-> "end", buf |-> x.buf, seldb |-> x.seldb, has |-> x.has]
    BY ONLY <2>1
  <2>5. slaves'[s] = IF x.st = "end"
                     THEN IF how # "error" THEN [st |-> "bulk", buf |-> x.buf, seldb |-> x.seldb, has |-> Loaded(dump)]
                          ELSE NoSlave
                     ELSE IF x.st = "start" THEN [st |-> "end", buf |-> x.buf, seldb |-> x.seldb, has |-> x.has]
                     ELSE x
    BY ONLY <2>2, <2>3, <2>4 DEF Loaded
  <2> QED BY <2>5 DEF x, how
<1>8. slaves' \in [Slave -> Slaves]
  <2>1. ASSUME NEW s \in Slave PROVE slaves'[s] \in Slaves
    <3> DEFINE x == slaves[s]
    <3>1. x \in Slaves /\ Loaded(dump) \in Image /\ NoSlave \in Slaves
      BY <1>3, Constants
    <3>2. slaves'[s] = IF x.st = "end"
                       THEN IF how # "error" THEN [st |-> "bulk", buf |-> x.buf, seldb |-> x.seldb, has |-> Loaded(dump)]
                            ELSE NoSlave
                       ELSE IF x.st = "start" THEN [st |-> "end", buf |-> x.buf, seldb |-> x.seldb, has |-> x.has]
                       ELSE x
      BY <1>7
    <3> HIDE DEF how, x
    <3>3. x.buf \in Seq(Cmd) /\ x.seldb \in Db /\ x.has \in Image
      BY ONLY <3>1 DEF Slaves
    <3>4. /\ [st |-> "bulk", buf |-> x.buf, seldb |-> x.seldb, has |-> Loaded(dump)] \in Slaves
          /\ [st |-> "end", buf |-> x.buf, seldb |-> x.seldb, has |-> x.has] \in Slaves
      BY ONLY <3>1, <3>3 DEF Slaves
    <3> QED BY ONLY <3>1, <3>2, <3>4
  <2>2. slaves' = [s \in Slave |-> slaves'[s]]
    BY <1>1 DEF Served
  <2> QED BY <2>1, <2>2
<1>9. met' \subseteq Situations
  <2>1. met \subseteq Situations
    BY DEF PersistTypes, Situations
  <2> QED BY <1>1, <2>1 DEF Situations
<1>10. PersistTypes'
  BY ONLY PersistTypes, <1>1, <1>4, <1>5, <1>8, <1>9, phase' = "cron", UNCHANGED <<conf, data>>
     DEF PersistTypes, log, Situations
<1>11. AofInv' /\ DownInv'
  BY ONLY <1>1, phase = "files", phase' = "cron", UNCHANGED <<conf, data>>, Kept
     DEF Kept, AofInv, DownInv, Makes, log
<1>12. DirtyInv'
  <2>1. bgsave' # NoChild => next /\ bgsave'.is = "running" /\ bgsave'.data = data /\ dirty_before_bgsave' = dirty'
    BY ONLY <1>5
  <2> QED BY ONLY <1>1, <1>4, <2>1, UNCHANGED <<conf, data>> DEF DirtyInv
<1>13. ASSUME met' = {}, NEW s \in Slave PROVE SlaveInv(s)'
  <2> DEFINE x == slaves[s]
             y == slaves'[s]
  <2>1. y = IF x.st = "end"
            THEN IF how # "error" THEN [st |-> "bulk", buf |-> x.buf, seldb |-> x.seldb, has |-> Loaded(dump)]
                 ELSE NoSlave
            ELSE IF x.st = "start" THEN [st |-> "end", buf |-> x.buf, seldb |-> x.seldb, has |-> x.has]
            ELSE x
    BY <1>7
  <2>2. ~(how = "killed" /\ x.st = "end") /\ ~(next /\ ~forked)
    <3>1. how = "killed" => WaitingFor(slaves) = {}
      BY ONLY <1>1, <1>13
    <3>2. ~(next /\ ~forked)
      BY ONLY <1>1, <1>13
    <3> QED BY <3>1, <3>2 DEF WaitingFor
  <2>3. x.st = "start" => next
    BY DEF next
  <2>4. SlaveInv(s)
    BY DEF Kept
  <2>5. x.st \in {"none", "start", "end", "bulk", "online"}
    BY <1>3 DEF Slaves
  <2>6. SlaveInv(s) =>
       /\ x.st \in {"none", "start"} => x.buf = << >> /\ x.seldb = 0
       /\ x.st \in {"bulk", "online"} => RunAll(x.has, x.buf).data = data /\ (x.seldb # -1 => RunAll(x.has, x.buf).db = x.seldb)
       /\ x.st = "end" =>
            /\ \A z \in Dataset : RunAll(Loaded(z), x.buf).db = x.seldb
            /\ how = "ok" => RunAll(Loaded(dump), x.buf).data = data
            /\ how = "flushed" => \A z \in Dataset : RunAll(Loaded(z), x.buf).data = data
    BY DEF SlaveInv, Makes
  <2>7. SlaveInv(s)' <=>
       /\ y.st \in {"none", "start"} => y.buf = << >> /\ y.seldb = 0
       /\ y.st \in {"start", "end"} => bgsave' # NoChild
       /\ y.st \in {"bulk", "online"} => RunAll(y.has, y.buf).data = data' /\ (y.seldb # -1 => RunAll(y.has, y.buf).db = y.seldb)
       /\ y.st = "end" =>
            /\ \A z \in Dataset : RunAll(Loaded(z), y.buf).db = y.seldb
            /\ bgsave'.is \in {"running", "ok"} => RunAll(Loaded(bgsave'.data), y.buf).data = data'
            /\ bgsave'.is = "ok" => RunAll(Loaded(dump'), y.buf).data = data'
            /\ bgsave'.is = "flushed" => \A z \in Dataset : RunAll(Loaded(z), y.buf).data = data'
    BY DEF SlaveInv, Makes
  <2> HIDE DEF x, y, how
  <2>8. CASE x.st = "end"
    <3>1. CASE how = "error"
      <4>1. y.st = "none" /\ y.buf = << >> /\ y.seldb = 0
        BY <2>1, <2>8, <3>1, Constants
      <4> QED BY ONLY <2>7, <4>1
    <3>2. CASE how # "error"
      <4>1. y.st = "bulk" /\ y.buf = x.buf /\ y.seldb = x.seldb /\ y.has = Loaded(dump)
        BY ONLY <2>1, <2>8, <3>2
      <4>2. how \in {"ok", "flushed"}
        BY ONLY <1>3, <2>2, <2>8, <3>2
      <4>3. RunAll(Loaded(dump), x.buf).data = data /\ RunAll(Loaded(dump), x.buf).db = x.seldb
        BY ONLY <1>3, <2>4, <2>6, <2>8, <4>2
      <4> QED BY ONLY <2>7, <4>1, <4>3, UNCHANGED <<conf, data>>
    <3> QED BY <3>1, <3>2
  <2>9. CASE x.st = "start"
    <3>1. y.st = "end" /\ y.buf = << >> /\ y.seldb = 0
      BY ONLY <2>1, <2>4, <2>6, <2>9
    <3>2. \A z \in Dataset : RunAll(Loaded(z), << >>) = Loaded(z) /\ Loaded(z).data = z /\ Loaded(z).db = 0
      <4>1. << >> \in Seq(Cmd)
        OBVIOUS
      <4> QED BY <4>1, Constants, RunAllType
    <3>3. bgsave' # NoChild /\ bgsave'.is = "running" /\ bgsave'.data = data
      BY ONLY <1>5, <2>2, <2>3, <2>9
    <3> QED BY ONLY <1>3, <2>7, <3>1, <3>2, <3>3, UNCHANGED <<conf, data>>
  <2>10. CASE x.st \in {"none", "bulk", "online"}
    <3>1. y = x
      BY ONLY <2>1, <2>10
    <3> QED BY ONLY <2>4, <2>6, <2>7, <2>10, <3>1, UNCHANGED <<conf, data>>
  <2> QED BY ONLY <2>5, <2>8, <2>9, <2>10
<1> QED BY <1>10, <1>11, <1>12, <1>13 DEF Kept

LEMMA RewriteDoneKept ==
  ASSUME PersistTypes, Kept, NEW moved \in BOOLEAN, Ended(bgrewrite), backgroundRewriteDoneHandler(moved),
         phase = "files", phase' = "cron", UNCHANGED <<conf, data>>
  PROVE  PersistTypes' /\ (met' = {} => Kept')
<1> DEFINE done == bgrewrite.is = "ok" /\ moved
           file == rewriteAppendOnlyFile(bgrewrite.data)
<1>1. /\ bgrewrite # NoChild /\ bgrewrite' = NoChild /\ bgrewritebuf' = << >>
      /\ aof' = (IF done THEN RunAll(file, bgrewritebuf) ELSE aof)
      /\ appendseldb' = (IF done /\ appendonly THEN -1 ELSE appendseldb)
      /\ whole' = (whole \/ done)
      /\ met' = met \cup (IF done /\ aofbuf # << >> THEN {"twice"} ELSE {})
      /\ UNCHANGED <<rdb, appendonly, aofbuf, slaves>>
  BY DEF backgroundRewriteDoneHandler, Ended
<1>2. /\ bgrewrite \in Children /\ aof \in Image /\ bgrewritebuf \in Seq(Cmd) /\ aofbuf \in Seq(Cmd)
      /\ appendseldb \in Db \cup {-1} /\ whole \in BOOLEAN /\ met \subseteq Situations
  BY <1>1 DEF PersistTypes, Situations
<1>3. file \in Image
  BY <1>2, Rewritten DEF Children
<1>4. RunAll(file, bgrewritebuf) \in Image
  BY <1>2, <1>3, RunAllType
<1>5. RunAll(RunAll(file, bgrewritebuf), << >>) = RunAll(file, bgrewritebuf)
  BY <1>2, <1>4, RunAllType
<1>6. done => bgrewrite.is \in {"running", "ok"}
  OBVIOUS
<1>7. AofInv => /\ appendonly /\ whole /\ phase # "down" => Makes(aof, aofbuf, appendseldb)
                /\ appendonly /\ done => Makes(file, bgrewritebuf, appendseldb)
  BY <1>1, <1>6 DEF AofInv
<1> HIDE DEF done, file
<1>8. AofInv
  BY DEF Kept
<1>9. /\ aof' \in Image /\ appendseldb' \in Db \cup {-1} /\ whole' \in BOOLEAN /\ met' \subseteq Situations
      /\ << >> \in Seq(Cmd)
  BY ONLY <1>1, <1>2, <1>4 DEF Situations
<1>10. UNCHANGED <<dirty, dirty_before_bgsave, dump, bgsave, appendonly, aofbuf, slaves>>
  BY ONLY <1>1 DEF rdb
<1>11. PersistTypes'
  BY ONLY PersistTypes, <1>1, <1>9, <1>10, phase' = "cron", UNCHANGED <<conf, data>> DEF PersistTypes, Situations
<1>12. ASSUME met' = {} PROVE AofInv'
  <2>1. done => aofbuf = << >>
    BY ONLY <1>1, <1>12
  <2>2. ASSUME appendonly', whole' PROVE Makes(aof, aofbuf, appendseldb)'
    <3>1. CASE done
      <4>1. RunAll(aof', aofbuf') = RunAll(file, bgrewritebuf) /\ appendseldb' = -1
        BY ONLY <1>1, <1>5, <1>10, <2>1, <2>2, <3>1
      <4>2. RunAll(file, bgrewritebuf).data = data
        BY ONLY <1>7, <1>8, <1>10, <2>2, <3>1 DEF Makes
      <4> QED BY ONLY <4>1, <4>2, UNCHANGED <<conf, data>> DEF Makes
    <3>2. CASE ~done
      <4>1. aof' = aof /\ appendseldb' = appendseldb /\ whole' = whole /\ aofbuf' = aofbuf /\ appendonly' = appendonly
        BY ONLY <1>1, <1>2, <1>10, <3>2
      <4>2. Makes(aof, aofbuf, appendseldb)
        BY ONLY <1>7, <1>8, <2>2, <4>1, phase = "files"
      <4> QED BY ONLY <4>1, <4>2, UNCHANGED <<conf, data>> DEF Makes
    <3> QED BY <3>1, <3>2
  <2> QED BY <1>1, <2>2 DEF AofInv
<1>13. DirtyInv' /\ DownInv' /\ \A s \in Slave : SlaveInv(s)'
  BY ONLY <1>10, phase = "files", phase' = "cron", UNCHANGED <<conf, data>>, Kept
     DEF Kept, DirtyInv, DownInv, SlaveInv, Makes
<1> QED BY <1>11, <1>12, <1>13 DEF Kept

\* A save point.
LEMMA SavePointKept ==
  ASSUME PersistTypes, Kept, NEW b \in BOOLEAN, bgsave = NoChild, rdbSaveBackground(dirty, data, b),
         phase = "files", phase' = "cron", UNCHANGED <<conf, data, dirty, dump, log, slaves, met>>
  PROVE  PersistTypes' /\ Kept'
<1>1. dirty \in Nat /\ met \subseteq Situations /\ data \in Dataset
  BY DEF PersistTypes, Situations
<1>2. /\ dirty_before_bgsave' \in Nat /\ bgsave' \in Children \cup {NoChild}
      /\ dirty_before_bgsave' = dirty'
      /\ b => bgsave' # NoChild /\ bgsave'.is = "running" /\ bgsave'.data = data
      /\ ~b => bgsave' = NoChild
  BY <1>1, SaveBegun
<1>3. PersistTypes'
  BY ONLY PersistTypes, <1>1, <1>2, phase' = "cron", UNCHANGED <<conf, data, dirty, dump, log, slaves, met>>
     DEF PersistTypes, log
<1>4. AofInv' /\ DownInv'
  BY ONLY phase = "files", phase' = "cron", UNCHANGED <<conf, data, dirty, dump, log, slaves, met>>, Kept
     DEF Kept, AofInv, DownInv, Makes, log
<1>5. DirtyInv'
  BY ONLY <1>1, <1>2, phase = "files", UNCHANGED <<conf, data, dirty, dump, log, slaves, met>>, Kept
     DEF Kept, DirtyInv
<1>6. ASSUME NEW s \in Slave PROVE SlaveInv(s)'
  <2>1. SlaveInv(s) /\ slaves[s].st \notin {"start", "end"}
    BY DEF Kept, SlaveInv
  <2> QED BY ONLY <2>1, UNCHANGED <<conf, data, dirty, dump, log, slaves, met>> DEF SlaveInv, Makes
<1> QED BY <1>3, <1>4, <1>5, <1>6 DEF Kept

LEMMA CronKept ==
  ASSUME PersistTypes, Kept, NEW b \in BOOLEAN, serverCron(b)
  PROVE  PersistTypes' /\ (met' = {} => Kept')
<1>1. phase = "files" /\ phase' = "cron" /\ UNCHANGED <<conf, data>>
  BY DEF serverCron, Serving
<1>2. CASE UNCHANGED <<rdb, log, slaves, met>>
  <2>1. PersistTypes'
    BY ONLY PersistTypes, <1>1, <1>2 DEF PersistTypes, rdb, log
  <2>2. Kept'
    BY ONLY Kept, <1>1, <1>2 DEF Kept, DirtyInv, AofInv, DownInv, SlaveInv, Makes, rdb, log
  <2> QED BY <2>1, <2>2
<1>3. CASE Ended(bgsave) /\ backgroundSaveDoneHandler(b)
  BY <1>1, <1>3, SaveDoneKept
<1>4. CASE Ended(bgrewrite) /\ backgroundRewriteDoneHandler(b)
  BY <1>1, <1>4, RewriteDoneKept
<1>5. CASE bgsave = NoChild /\ rdbSaveBackground(dirty, data, b) /\ UNCHANGED <<dirty, dump, log, slaves, met>>
  BY <1>1, <1>5, SavePointKept
<1> QED BY <1>2, <1>3, <1>4, <1>5 DEF serverCron

LEMMA FlushKept ==
  ASSUME PersistTypes, Kept, beforeSleep
  PROVE  PersistTypes' /\ Kept'
<1>1. /\ phase \in {"files", "cron"} /\ phase' = "files" /\ aof' = RunAll(aof, aofbuf) /\ aofbuf' = << >>
      /\ UNCHANGED <<conf, data, rdb, appendonly, bgrewrite, bgrewritebuf, appendseldb, whole, slaves, met>>
  BY DEF beforeSleep, flushAppendOnlyFile, Serving
<1>2. aof \in Image /\ aofbuf \in Seq(Cmd) /\ << >> \in Seq(Cmd)
  BY DEF PersistTypes
<1>3. aof' \in Image /\ RunAll(aof', aofbuf') = RunAll(aof, aofbuf)
  <2>1. RunAll(aof, aofbuf) \in Image
    BY <1>2, RunAllType
  <2>2. RunAll(RunAll(aof, aofbuf), << >>) = RunAll(aof, aofbuf)
    BY <1>2, <2>1, RunAllType
  <2> QED BY ONLY <1>1, <2>1, <2>2
<1>4. PersistTypes'
  BY ONLY PersistTypes, <1>1, <1>2, <1>3 DEF PersistTypes, rdb
<1>5. AofInv'
  BY ONLY Kept, <1>1, <1>3 DEF Kept, AofInv, Makes
<1>6. DirtyInv' /\ DownInv' /\ \A s \in Slave : SlaveInv(s)'
  BY ONLY Kept, <1>1 DEF Kept, DirtyInv, DownInv, SlaveInv, Makes, rdb
<1> QED BY <1>4, <1>5, <1>6 DEF Kept

LEMMA CrashKept ==
  ASSUME PersistTypes, crash
  PROVE  PersistTypes' /\ Kept'
<1>1. /\ phase' = "down" /\ slaves' = [s \in Slave |-> NoSlave] /\ bgsave' = NoChild /\ bgrewrite' = NoChild
      /\ aofbuf' = << >> /\ bgrewritebuf' = << >>
      /\ UNCHANGED <<conf, data, dirty, dirty_before_bgsave, dump, appendonly, aof, appendseldb, whole, met>>
  BY DEF crash
<1>2. NoSlave \in Slaves /\ NoSlave.st = "none" /\ NoSlave.buf = << >> /\ NoSlave.seldb = 0 /\ << >> \in Seq(Cmd)
  BY Constants
<1>3. slaves' \in [Slave -> Slaves] /\ \A s \in Slave : slaves'[s] = NoSlave
  BY ONLY <1>1, <1>2
<1>4. PersistTypes'
  BY ONLY PersistTypes, <1>1, <1>2, <1>3 DEF PersistTypes
<1>5. AofInv' /\ DirtyInv' /\ DownInv' /\ \A s \in Slave : SlaveInv(s)'
  BY ONLY <1>1, <1>2, <1>3 DEF AofInv, DirtyInv, DownInv, SlaveInv
<1> QED BY <1>4, <1>5 DEF Kept

LEMMA StartKept ==
  ASSUME PersistTypes, Kept, start
  PROVE  PersistTypes' /\ Kept'
<1>1. /\ phase = "down" /\ phase' = "files" /\ data' = (IF conf THEN aof.data ELSE dump)
      /\ dirty' = (IF conf /\ aof.data # Empty THEN 1 ELSE 0) /\ dirty_before_bgsave' = 0
      /\ appendonly' = conf /\ whole' = conf /\ appendseldb' = -1 /\ aof' = aof
      /\ UNCHANGED <<conf, dump, bgsave, bgrewrite, aofbuf, bgrewritebuf, slaves, met>>
  BY DEF start
<1>2. /\ bgsave = NoChild /\ bgrewrite = NoChild /\ aofbuf = << >> /\ bgrewritebuf = << >>
      /\ \A s \in Slave : slaves[s] = NoSlave
  BY <1>1 DEF Kept, DownInv
<1>3. NoSlave.st = "none" /\ NoSlave.buf = << >> /\ NoSlave.seldb = 0
  BY Constants
<1>4. conf \in BOOLEAN /\ aof \in Image /\ aof.data \in Dataset /\ dump \in Dataset
  BY DEF PersistTypes, Image
<1>5. RunAll(aof, << >>) = aof
  <2>1. << >> \in Seq(Cmd)
    OBVIOUS
  <2> QED BY <1>4, <2>1, RunAllType
<1>6. PersistTypes'
  BY ONLY PersistTypes, <1>1, <1>4 DEF PersistTypes
<1>7. AofInv'
  BY ONLY <1>1, <1>2, <1>5 DEF AofInv, Makes
<1>8. DirtyInv' /\ DownInv'
  BY ONLY <1>1, <1>2 DEF DirtyInv, DownInv
<1>9. \A s \in Slave : SlaveInv(s)'
  BY ONLY <1>1, <1>2, <1>3 DEF SlaveInv
<1> QED BY <1>6, <1>7, <1>8, <1>9 DEF Kept

-----------------------------------------------------------------------------
(* The theorems *)

LEMMA PInvInit == PInit => PInv
<1> SUFFICES ASSUME PInit PROVE PInv
  OBVIOUS
<1>1. /\ NoSlave \in Slaves /\ NoSlave.st = "none" /\ NoSlave.buf = << >> /\ NoSlave.seldb = 0
      /\ Empty \in Dataset /\ Fresh \in Image /\ Fresh.data = Empty /\ << >> \in Seq(Cmd)
  BY Constants
<1>2. slaves \in [Slave -> Slaves] /\ \A s \in Slave : slaves[s] = NoSlave
  BY <1>1 DEF PInit
<1>3. PersistTypes
  BY ONLY PInit, <1>1, <1>2 DEF PInit, PersistTypes
<1>4. RunAll(Fresh, << >>) = Fresh
  BY <1>1, RunAllType
<1>5. AofInv /\ DirtyInv /\ DownInv
  BY ONLY PInit, <1>1, <1>4 DEF PInit, AofInv, DirtyInv, DownInv, Makes
<1>6. \A s \in Slave : SlaveInv(s)
  BY ONLY <1>1, <1>2 DEF SlaveInv
<1> QED BY <1>3, <1>5, <1>6 DEF PInv, Kept

LEMMA PInvStep == PInv /\ [PNext]_pvars => PInv'
<1> SUFFICES ASSUME PInv, [PNext]_pvars PROVE PInv'
  OBVIOUS
<1>1. CASE UNCHANGED pvars
  <2>1. PersistTypes'
    BY ONLY PInv, <1>1 DEF PInv, PersistTypes, pvars, rdb, log
  <2>2. met' = {} => Kept'
    BY ONLY PInv, <1>1 DEF PInv, Kept, DirtyInv, AofInv, DownInv, SlaveInv, Makes, pvars, rdb, log
  <2> QED BY <2>1, <2>2 DEF PInv
<1>2. CASE met = {} /\ Step
  <2>1. PersistTypes /\ Kept
    BY <1>2 DEF PInv
  <2> SUFFICES PersistTypes' /\ (met' = {} => Kept')
    BY DEF PInv
  <2>2. ASSUME NEW d \in Db, incrCommand(d) PROVE PersistTypes' /\ (met' = {} => Kept')
    BY <2>1, <2>2, IncrKept
  <2>3. ASSUME NEW d \in Db, NEW b \in BOOLEAN, saveCommand(d, b) PROVE PersistTypes' /\ (met' = {} => Kept')
    BY <2>1, <2>3, SaveKept
  <2>4. ASSUME NEW d \in Db, NEW b \in BOOLEAN, flushallCommand(d, b) PROVE PersistTypes' /\ (met' = {} => Kept')
    BY <2>1, <2>4, FlushallKept
  <2>5. ASSUME NEW b \in BOOLEAN, bgsaveCommand(b) PROVE PersistTypes' /\ (met' = {} => Kept')
    BY <2>1, <2>5, BgsaveKept
  <2>6. ASSUME NEW b \in BOOLEAN, bgrewriteaofCommand(b) \/ startAppendOnly(TRUE, b) PROVE PersistTypes' /\ (met' = {} => Kept')
    BY <2>1, <2>6, BgrewriteKept
  <2>u. CASE startAppendOnly(FALSE, FALSE)
    BY <2>1, <2>u, UnopenedKept
  <2>7. CASE stopAppendOnly
    BY <2>1, <2>7, StopKept
  <2>8. ASSUME NEW s \in Slave, NEW b \in BOOLEAN, syncCommand(s, b) PROVE PersistTypes' /\ (met' = {} => Kept')
    BY <2>1, <2>8, SyncKept
  <2>9. ASSUME NEW s \in Slave, sendBulkToSlave(s) \/ sendReplyToSlave(s) \/ slaveLost(s)
        PROVE  PersistTypes' /\ (met' = {} => Kept')
    BY <2>1, <2>9, SlaveStepKept
  <2>10. ASSUME NEW how \in {"ok", "error", "killed"}, childSaves(how) PROVE PersistTypes' /\ (met' = {} => Kept')
    BY <2>1, <2>10, ChildSavesKept
  <2>11. ASSUME NEW how \in {"ok", "error", "killed"}, childRewrites(how) PROVE PersistTypes' /\ (met' = {} => Kept')
    BY <2>1, <2>11, ChildRewritesKept
  <2>12. ASSUME NEW b \in BOOLEAN, serverCron(b) PROVE PersistTypes' /\ (met' = {} => Kept')
    BY <2>1, <2>12, CronKept
  <2>13. CASE beforeSleep
    BY <2>1, <2>13, FlushKept
  <2>14. CASE crash
    BY <2>1, <2>14, CrashKept
  <2>15. CASE start
    BY <2>1, <2>15, StartKept
  <2> QED
    BY ONLY <1>2, <2>2, <2>3, <2>4, <2>5, <2>6, <2>u, <2>7, <2>8, <2>9, <2>10, <2>11, <2>12, <2>13, <2>14, <2>15
       DEF Step
<1> QED BY <1>1, <1>2 DEF PNext

LEMMA PInvAlways == PSpec => []PInv
<1> QED BY PInvInit, PInvStep, PTL DEF PSpec

\* "When you restart Redis it will re-play the AOF to rebuild the state": the append only file,
\* with what waits to be written, rebuilds the dataset (feedAppendOnlyFile,
\* backgroundRewriteDoneHandler, flushAppendOnlyFile), and changes that the dump lacks are
\* counted (dirty, rdbSaveBackground, backgroundSaveDoneHandler), in every behaviour that has
\* met none of the situations of met.
THEOREM FilesRebuild == PSpec => []FilesSound
<1>1. PInv => FilesSound
  <2> SUFFICES ASSUME PInv PROVE FilesSound
    OBVIOUS
  <2>1. PersistTypeOK
    <3>1. \A s \in Slave : slaves[s].st \in {"none", "start", "end", "bulk", "online"} /\ slaves[s].seldb \in Db
      BY DEF PInv, PersistTypes, Slaves
    <3>2. aof.db \in Db
      BY DEF PInv, PersistTypes, Image
    <3> QED BY <3>1, <3>2 DEF PInv, PersistTypes, PersistTypeOK, Dataset
  <2>2. AofRebuildsUnlessMet
    BY DEF PInv, Kept, AofInv, Makes, AofRebuildsUnlessMet, AofRebuilds
  <2>3. UnsavedIsDirty
    BY DEF PInv, Kept, DirtyInv, UnsavedIsDirty
  <2> QED BY <2>1, <2>2, <2>3 DEF FilesSound
<1> QED BY <1>1, PInvAlways, PTL

\* A slave has the dataset once it has received what is in its buffer, whenever it came and
\* whoever else was being served, and none waits for a child that does not exist (syncCommand,
\* replicationFeedSlaves, updateSlavesWaitingBgsave), in every behaviour that has met none of
\* the situations of met.
THEOREM SlavesEndWithDataset == PSpec => []SlavesSound
<1>1. PInv => SlavesSound
  <2> SUFFICES ASSUME PInv, met = {} PROVE SlaveWillMatch /\ WaitersHaveChild
    BY DEF SlavesSound, SlaveWillMatch, WaitersHaveChild
  <2>1. \A s \in Slave : SlaveInv(s)
    BY DEF PInv, Kept
  <2>2. SlaveWillMatch
    BY <2>1 DEF SlaveWillMatch, SlaveInv, Makes, Loaded
  <2>3. WaitersHaveChild
    BY <2>1 DEF WaitersHaveChild, SlaveInv
  <2> QED BY <2>2, <2>3
<1> QED BY <1>1, PInvAlways, PTL
=============================================================================
