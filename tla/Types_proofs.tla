----------------------------- MODULE Types_proofs -----------------------------
(***************************************************************************)
(* The type table and the hash table that it is kept in.                   *)
(*                                                                         *)
(* The generated types stay in their rows and are found, for every set of  *)
(* types, hash function and number of threads, whatever is constructed and *)
(* however additions to one row undo each other.                           *)
(*                                                                         *)
(* A type that a constructor has returned stays in the table, once, and    *)
(* is the one that was asked for, unless two calls were given one hash: in *)
(* every program that constructs types in one thread, or pointer types     *)
(* only, and no type from arguments to a generic.  Calls that are to change*)
(* one row then lock one row, which the others do not (MCTypeTable has the *)
(* race).                                                                  *)
(*                                                                         *)
(* The hash table keeps its entries, its locks and its bound on the number *)
(* of rows however often it grows under its users: for any number of       *)
(* threads, any keys and hash function and any of the macro's sizes.       *)
(***************************************************************************)
EXTENDS TypeTable, UtHash, WellFoundedInduction, FiniteSetTheorems, SequenceTheorems, TLAPS

CONSTANT Typ   \* types: the generated ones and what can be hashed from types

Closed ==
  /\ BaseTyp \subseteq Typ /\ NoTyp \notin Typ
  /\ \A c \in CallOn(Typ), p \in Pad : Hash(c, p) \in Typ

TypOrNone == Typ \cup {NoTyp}

Entry == [type : TypOrNone, arrlen : ArrayLen \cup {0}, arrbase : TypOrNone,
          target : TypOrNone, args : GenArgs \cup {0}, maintype : TypOrNone]

CallFrame == [call : CallOn(Typ), key : Typ, pc : Label, new : Entry, next : Seq(Entry)]

\* Calls that are to change the same row of the table lock the same row.
RowsApart ==
  \A f, g \in Frames : RowOf(f.key) = RowOf(g.key) => LockRow(f) = LockRow(g)

\* A call within a call locks a row of its own.
NestedApart ==
  \A t \in Thread : \A m, n \in DOMAIN stack[t] :
    LockRow(stack[t][m]) = LockRow(stack[t][n]) => m = n

-----------------------------------------------------------------------------
(* The inductive invariant *)

TyInv ==
  /\ table \in [DOMAIN table -> Seq(Entry)]
  /\ stack \in [Thread -> Seq(CallFrame)]
  /\ calls \in [Thread -> 0 .. MaxCalls]
  /\ result \in [Thread -> TypOrNone]
  /\ got \subseteq [call : CallOn(Typ), type : Typ]

\* The row of a type has an entry for it.
Has(k) == \E n \in DOMAIN Chain(RowOf(k)) : Chain(RowOf(k))[n].type = k

\* An entry is that of a generated type, or what a call made of its arguments.
Made(e) == e.type \in BaseTyp \/ \E a \in Known : a[1] = e.type /\ Describes(e, a[2])

TableInv ==
  \A r \in DOMAIN table : \A n \in DOMAIN table[r] :
    /\ table[r][n].type # NoTyp /\ RowOf(table[r][n].type) = r
    /\ Made(table[r][n])
    /\ \A m \in DOMAIN table[r] : table[r][m].type = table[r][n].type => m = n

\* What the state of a call says of the table: between the look-up that found nothing and the
\* write of hh_head nobody else adds the type, or anything to the row.
FrameInv(f) ==
  /\ f.pc = "target" => f.call.fn = "mktypfromgenargs"
  /\ f.pc \in {"target", "link", "publish"} => f.new.type = f.key /\ Describes(f.new, f.call)
  /\ f.pc = "publish" => f.next = Chain(RowOf(f.key))
  /\ f.pc \in {"make", "target", "link", "publish"} => ~Has(f.key)
  /\ f.pc = "unlock" => Has(f.key)

\* The calls under the innermost one are those of mktypfromgenargs that wait for the target.
StackInv ==
  \A t \in Thread : \A n \in DOMAIN stack[t] :
    /\ stack[t][n].pc = "target" <=> n # Len(stack[t])
    /\ FrameInv(stack[t][n])

\* Past the lock: the call has its row.
Holds(f) == f.pc # "wrlock"

LockInv ==
  /\ \A h \in lock : \E t \in Thread : \E n \in DOMAIN stack[t] :
       Holds(stack[t][n]) /\ h = <<LockRow(stack[t][n]), t>>
  /\ \A t \in Thread : \A n \in DOMAIN stack[t] :
       Holds(stack[t][n]) => <<LockRow(stack[t][n]), t>> \in lock
  /\ \A h, g \in lock : h[1] = g[1] => h[2] = g[2]
  /\ misuse = FALSE

GotInv == \A g \in got : Has(g.type)

IInv == TyInv /\ TableInv /\ StackInv /\ LockInv /\ GotInv

-----------------------------------------------------------------------------
(* Stacks of calls *)

\* The innermost call changes its state.
LEMMA TopReplaced ==
  \A s \in Seq(CallFrame) : \A f \in CallFrame : s # << >> =>
    LET w == [s EXCEPT ![Len(s)] = f]
    IN  /\ w \in Seq(CallFrame) /\ Len(w) = Len(s) /\ DOMAIN w = DOMAIN s
        /\ w[Len(s)] = f
        /\ \A n \in DOMAIN s : n # Len(s) => w[n] = s[n]
<1> SUFFICES ASSUME NEW s \in Seq(CallFrame), NEW f \in CallFrame, s # << >>
             PROVE  LET w == [s EXCEPT ![Len(s)] = f]
                    IN  /\ w \in Seq(CallFrame) /\ Len(w) = Len(s) /\ DOMAIN w = DOMAIN s
                        /\ w[Len(s)] = f
                        /\ \A n \in DOMAIN s : n # Len(s) => w[n] = s[n]
  OBVIOUS
<1>1. Len(s) \in DOMAIN s /\ DOMAIN s = 1 .. Len(s)
  BY ONLY s \in Seq(CallFrame), s # << >>, EmptySeq, LenProperties
<1> QED BY ONLY <1>1, s \in Seq(CallFrame), f \in CallFrame, ExceptSeq

\* It calls itself.
LEMMA FrameAppended ==
  \A s \in Seq(CallFrame) : \A f \in CallFrame :
    LET w == Append(s, f)
    IN  /\ w \in Seq(CallFrame) /\ Len(w) = Len(s) + 1 /\ DOMAIN w = 1 .. Len(s) + 1
        /\ w[Len(s) + 1] = f
        /\ \A n \in 1 .. Len(s) : w[n] = s[n]
BY AppendProperties

\* It returns.
LEMMA FrontOf ==
  \A s \in Seq(CallFrame) : s # << >> =>
    LET w == Front(s)
    IN  /\ w \in Seq(CallFrame) /\ Len(w) = Len(s) - 1 /\ DOMAIN w = 1 .. Len(s) - 1
        /\ \A n \in 1 .. Len(s) - 1 : w[n] = s[n]
<1> SUFFICES ASSUME NEW s \in Seq(CallFrame), s # << >>
             PROVE  LET w == Front(s)
                    IN  /\ w \in Seq(CallFrame) /\ Len(w) = Len(s) - 1 /\ DOMAIN w = 1 .. Len(s) - 1
                        /\ \A n \in 1 .. Len(s) - 1 : w[n] = s[n]
  OBVIOUS
<1>1. Len(s) \in Nat /\ Len(s) > 0
  BY ONLY s \in Seq(CallFrame), s # << >>, EmptySeq, LenProperties
<1>2. \A i \in 1 .. Len(s) - 1 : s[i] \in CallFrame
  BY ONLY <1>1, s \in Seq(CallFrame)
<1> DEFINE l == Len(s) - 1
           w == SubSeq(s, 1, l)
<1>3. l \in Nat
  BY ONLY <1>1
<1> HIDE DEF l
<1>4. /\ w \in Seq(CallFrame) /\ Len(w) = IF 1 <= l THEN l - 1 + 1 ELSE 0
      /\ \A i \in 1 .. l - 1 + 1 : w[i] = s[1 + i - 1]
  BY <1>2, <1>3, SubSeqProperties, Z3 DEF l
<1> HIDE DEF w
<1>5. Len(w) = l /\ DOMAIN w = 1 .. Len(w)
  BY ONLY <1>3, <1>4
<1>6. \A i \in 1 .. l : w[i] = s[i]
  <2> TAKE i \in 1 .. l
  <2>1. i \in 1 .. l - 1 + 1 /\ 1 + i - 1 = i
    BY ONLY <1>3
  <2> QED BY ONLY <2>1, <1>4
<1> QED BY <1>4, <1>5, <1>6 DEF Front, l, w

-----------------------------------------------------------------------------
(* Look-ups *)

LEMMA ChainType ==
  ASSUME TyInv, NEW r
  PROVE  /\ Chain(r) \in Seq(Entry)
         /\ DOMAIN Chain(r) = 1 .. Len(Chain(r)) /\ Len(Chain(r)) \in Nat
<1>1. Chain(r) \in Seq(Entry)
  BY DEF TyInv, Chain
<1> QED BY <1>1

\* The first of some places.
LEMMA FirstOf ==
  ASSUME NEW S, S \subseteq Nat, S # {}
  PROVE  (CHOOSE n \in S : \A m \in S : n <= m) \in S
<1> DEFINE Less == {p \in Nat \X Nat : p[1] < p[2]}
<1>1. IsWellFoundedOn(Less, Nat)
  BY NatLessThanWellFounded DEF OpToRel
<1>2. \E x \in S : \A y \in S : <<y, x>> \notin Less
  <2> HIDE DEF Less
  <2> QED BY <1>1, WFMin
<1>3. PICK x \in S : \A y \in S : ~(y < x)
  BY <1>2
<1>4. \A y \in S : x <= y
  BY <1>3
<1> QED BY <1>4

\* A look-up finds an entry with the key, of its row.
LEMMA FoundType ==
  ASSUME TyInv, NEW k \in Typ
  PROVE  /\ Find(k) \in Entry
         /\ Has(k) => \E n \in DOMAIN Chain(RowOf(k)) : Find(k) = Chain(RowOf(k))[n] /\ Find(k).type = k
<1> DEFINE chain == Chain(RowOf(k))
           hits == {n \in DOMAIN chain : chain[n].type = k}
           first == CHOOSE n \in hits : \A m \in hits : n <= m
<1>1. chain \in Seq(Entry) /\ DOMAIN chain = 1 .. Len(chain)
  BY ChainType
<1>2. CASE hits = {}
  <2>1. None \in Entry
    BY DEF None, Entry, TypOrNone
  <2> QED BY <1>2, <2>1 DEF Find, Has
<1>3. CASE hits # {}
  <2>1. hits \subseteq Nat
    BY <1>1
  <2> HIDE DEF hits
  <2>2. first \in hits
    BY <1>3, <2>1, FirstOf
  <2>3. Find(k) = chain[first]
    BY <1>3 DEF Find, hits
  <2> HIDE DEF first
  <2>4. first \in DOMAIN chain /\ chain[first].type = k /\ chain[first] \in Entry
    BY <1>1, <2>2 DEF hits
  <2> QED BY <2>3, <2>4
<1> QED BY <1>2, <1>3

LEMMA FoundEntry ==
  ASSUME TyInv, TableInv, NEW k \in Typ, Closed
  PROVE  /\ Find(k) = None <=> ~Has(k)
         /\ Find(k) \in Entry
         /\ Has(k) => Find(k).type = k /\ Made(Find(k))
<1> DEFINE chain == Chain(RowOf(k))
           hits == {n \in DOMAIN chain : chain[n].type = k}
<1>1. k # NoTyp /\ None.type = NoTyp /\ None \in Entry
  BY DEF Closed, None, Entry, TypOrNone
<1>2. chain \in Seq(Entry) /\ DOMAIN chain = 1 .. Len(chain)
  BY ChainType
<1>3. CASE hits = {}
  <2>1. Find(k) = None
    BY <1>3 DEF Find
  <2>2. ~Has(k)
    BY <1>3 DEF Has
  <2> QED BY <2>1, <2>2, <1>1
<1>4. CASE hits # {}
  <2>1. PICK n \in DOMAIN chain : chain[n].type = k
    BY <1>4
  <2>2. RowOf(k) \in DOMAIN table /\ chain = table[RowOf(k)]
    BY <2>1, <1>2 DEF Chain
  <2>3. \A m \in hits : m = n
    BY <2>1, <2>2 DEF TableInv
  <2>4. n \in hits /\ n \in Nat
    BY <2>1, <1>2
  <2>5. (CHOOSE m \in hits : \A i \in hits : m <= i) = n
    BY <2>3, <2>4
  <2>6. Find(k) = chain[n]
    BY <1>4, <2>5 DEF Find
  <2>7. Made(chain[n])
    BY <2>1, <2>2 DEF TableInv
  <2>8. Has(k)
    BY <2>1 DEF Has
  <2>9. chain[n] \in Entry
    BY <1>2, <2>1
  <2> QED BY ONLY <2>1, <2>6, <2>7, <2>8, <2>9, <1>1
<1> QED BY <1>3, <1>4

\* Where calls do not collide, the entry under the type of a call is the call's.
LEMMA OwnEntry ==
  ASSUME ~Collided, NEW e, Made(e), NEW a \in Known, a[1] = e.type
  PROVE  Describes(e, a[2])
BY DEF Collided, Made

\* An entry that describes a call passes the test of "check for exisiting".
LEMMA DescribedExists ==
  ASSUME NEW e, NEW c \in CallOn(Typ), Describes(e, c)
  PROVE  Existing(e, c)
BY DEF Describes, Existing, CallOn

LEMMA NewEntry ==
  ASSUME Closed, NEW f \in CallFrame, NEW te \in Entry
  PROVE  New(f, te) \in Entry /\ New(f, te).type = f.key /\ Describes(New(f, te), f.call)
<1>0. f.key \in Typ /\ f.call \in CallOn(Typ) /\ f.call.type \in Typ
  BY DEF CallFrame, CallOn
<1>1. CASE f.call.fn = "mktyparr"
  <2>1. f.call.x \in ArrayLen
    BY <1>0, <1>1 DEF CallOn
  <2> QED BY <1>0, <1>1, <2>1 DEF New, Describes, Entry, TypOrNone
<1>2. CASE f.call.fn = "mktypptr"
  BY <1>0, <1>2 DEF New, Describes, Entry, TypOrNone, None
<1>3. CASE f.call.fn = "mktypfromgenargs"
  <2>1. f.call.x \in GenArgs
    BY <1>0, <1>3 DEF CallOn
  <2> QED BY <1>0, <1>3, <2>1 DEF New, Describes, Entry, TypOrNone
<1> QED BY <1>0, <1>1, <1>2, <1>3 DEF CallOn

-----------------------------------------------------------------------------
(* Frames *)

LEMMA TopOf ==
  ASSUME TyInv, NEW t \in Thread, stack[t] # << >>
  PROVE  /\ Len(stack[t]) \in DOMAIN stack[t] /\ DOMAIN stack[t] = 1 .. Len(stack[t])
         /\ Len(stack[t]) \in Nat /\ Len(stack[t]) >= 1
         /\ Top(t) = stack[t][Len(stack[t])] /\ Top(t) \in CallFrame
<1>1. stack[t] \in Seq(CallFrame)
  BY DEF TyInv
<1> QED BY <1>1, EmptySeq, LenProperties DEF Top

LEMMA FrameType ==
  ASSUME TyInv, NEW t \in Thread, NEW n \in DOMAIN stack[t]
  PROVE  /\ stack[t][n] \in CallFrame /\ n \in Nat /\ 1 <= n /\ n <= Len(stack[t])
         /\ stack[t] # << >> /\ Len(stack[t]) \in Nat
         /\ stack[t][n] \in Frames
<1>1. stack[t] \in Seq(CallFrame)
  BY DEF TyInv
<1>2. DOMAIN stack[t] = 1 .. Len(stack[t])
  BY <1>1
<1>3. stack[t][n] \in Frames
  BY DEF Frames, ToSet
<1> QED BY <1>1, <1>2, <1>3

\* Two calls that are past their locks do not change the same row.
LEMMA Exclusive ==
  ASSUME TyInv, LockInv, RowsApart, NestedApart,
         NEW t \in Thread, NEW m \in DOMAIN stack[t], Holds(stack[t][m]),
         NEW u \in Thread, NEW n \in DOMAIN stack[u], Holds(stack[u][n]),
         RowOf(stack[t][m].key) = RowOf(stack[u][n].key)
  PROVE  t = u /\ m = n
<1>1. stack[t][m] \in Frames /\ stack[u][n] \in Frames
  BY FrameType
<1>2. LockRow(stack[t][m]) = LockRow(stack[u][n])
  BY <1>1 DEF RowsApart
<1>3. <<LockRow(stack[t][m]), t>> \in lock /\ <<LockRow(stack[u][n]), u>> \in lock
  BY DEF LockInv
<1>4. t = u
  <2> DEFINE h == <<LockRow(stack[t][m]), t>>
             g == <<LockRow(stack[u][n]), u>>
  <2>1. h[1] = g[1] => h[2] = g[2]
    BY ONLY <1>3, LockInv DEF LockInv
  <2> QED BY <2>1, <1>2
<1> QED BY <1>2, <1>4 DEF NestedApart

-----------------------------------------------------------------------------
(* Steps of a stack *)

Moved(t, f) == stack' = [stack EXCEPT ![t] = Replaced(t, f)]
Entered(t, f, g) == stack' = [stack EXCEPT ![t] = Append(Replaced(t, f), g)]

LEMMA StackMoved ==
  ASSUME TyInv, NEW t \in Thread, stack[t] # << >>, NEW f \in CallFrame, Moved(t, f)
  PROVE  /\ stack' \in [Thread -> Seq(CallFrame)]
         /\ \A u \in Thread : u # t => stack'[u] = stack[u]
         /\ Len(stack'[t]) = Len(stack[t]) /\ DOMAIN stack'[t] = DOMAIN stack[t]
         /\ stack'[t][Len(stack[t])] = f
         /\ \A n \in DOMAIN stack[t] : n # Len(stack[t]) => stack'[t][n] = stack[t][n]
<1>1. stack \in [Thread -> Seq(CallFrame)] /\ stack[t] \in Seq(CallFrame)
  BY DEF TyInv
<1> DEFINE w == [stack[t] EXCEPT ![Len(stack[t])] = f]
<1>2. /\ w \in Seq(CallFrame) /\ Len(w) = Len(stack[t]) /\ DOMAIN w = DOMAIN stack[t]
      /\ w[Len(stack[t])] = f
      /\ \A n \in DOMAIN stack[t] : n # Len(stack[t]) => w[n] = stack[t][n]
  BY <1>1, TopReplaced
<1>3. stack' = [stack EXCEPT ![t] = w]
  BY DEF Moved, Replaced
<1> HIDE DEF w
<1>4. stack'[t] = w /\ (\A u \in Thread : u # t => stack'[u] = stack[u])
  BY <1>1, <1>3
<1>5. stack' \in [Thread -> Seq(CallFrame)]
  BY <1>1, <1>2, <1>3
<1> QED BY <1>2, <1>4, <1>5

LEMMA StackEntered ==
  ASSUME TyInv, NEW t \in Thread, stack[t] # << >>, NEW f \in CallFrame, NEW g \in CallFrame, Entered(t, f, g)
  PROVE  /\ stack' \in [Thread -> Seq(CallFrame)]
         /\ \A u \in Thread : u # t => stack'[u] = stack[u]
         /\ Len(stack'[t]) = Len(stack[t]) + 1 /\ DOMAIN stack'[t] = 1 .. Len(stack[t]) + 1
         /\ stack'[t][Len(stack[t]) + 1] = g
         /\ stack'[t][Len(stack[t])] = f
         /\ \A n \in DOMAIN stack[t] : n # Len(stack[t]) => stack'[t][n] = stack[t][n]
<1>1. /\ stack \in [Thread -> Seq(CallFrame)] /\ stack[t] \in Seq(CallFrame)
      /\ DOMAIN stack[t] = 1 .. Len(stack[t]) /\ Len(stack[t]) \in DOMAIN stack[t]
  BY TopOf DEF TyInv
<1> DEFINE v == [stack[t] EXCEPT ![Len(stack[t])] = f]
           w == Append(v, g)
<1>2. /\ v \in Seq(CallFrame) /\ Len(v) = Len(stack[t]) /\ DOMAIN v = DOMAIN stack[t]
      /\ v[Len(stack[t])] = f
      /\ \A n \in DOMAIN stack[t] : n # Len(stack[t]) => v[n] = stack[t][n]
  BY <1>1, TopReplaced
<1>3. stack' = [stack EXCEPT ![t] = w]
  BY DEF Entered, Replaced
<1> HIDE DEF v
<1>4. /\ w \in Seq(CallFrame) /\ Len(w) = Len(v) + 1 /\ DOMAIN w = 1 .. Len(v) + 1
      /\ w[Len(v) + 1] = g
      /\ \A n \in 1 .. Len(v) : w[n] = v[n]
  BY ONLY <1>2, FrameAppended, g \in CallFrame
<1> HIDE DEF w
<1>5. stack'[t] = w /\ (\A u \in Thread : u # t => stack'[u] = stack[u])
  BY <1>1, <1>3
<1>6. stack' \in [Thread -> Seq(CallFrame)]
  BY <1>1, <1>3, <1>4
<1> QED BY <1>1, <1>2, <1>4, <1>5, <1>6

\* What is left of the stack when the innermost call returns; the call below has its target.
LEMMA StackReturned ==
  ASSUME TyInv, NEW t \in Thread, stack[t] # << >>, NEW k \in Typ, Return(t, k)
  PROVE  /\ stack' \in [Thread -> Seq(CallFrame)]
         /\ \A u \in Thread : u # t => stack'[u] = stack[u]
         /\ Len(stack'[t]) = Len(stack[t]) - 1 /\ DOMAIN stack'[t] = 1 .. Len(stack[t]) - 1
         /\ \A n \in DOMAIN stack'[t] :
              /\ n \in DOMAIN stack[t]
              /\ stack'[t][n] = IF n = Len(stack[t]) - 1 THEN [stack[t][n] EXCEPT !.new.target = k, !.pc = "link"]
                                                         ELSE stack[t][n]
<1> DEFINE l == Len(stack[t])
<1>1. /\ stack \in [Thread -> Seq(CallFrame)] /\ stack[t] \in Seq(CallFrame)
      /\ DOMAIN stack[t] = 1 .. l /\ l \in DOMAIN stack[t] /\ l \in Nat /\ l >= 1
  BY TopOf DEF TyInv
<1>2. CASE l > 1
  <2> DEFINE v == Front(stack[t])
             f == [stack[t][l - 1] EXCEPT !.new.target = k, !.pc = "link"]
             w == [v EXCEPT ![l - 1] = f]
  <2>1. /\ v \in Seq(CallFrame) /\ Len(v) = l - 1 /\ DOMAIN v = 1 .. l - 1
        /\ \A n \in 1 .. l - 1 : v[n] = stack[t][n]
    BY <1>1, FrontOf
  <2>2. stack' = [stack EXCEPT ![t] = [v EXCEPT ![l - 1].new.target = k, ![l - 1].pc = "link"]]
    BY ONLY <1>2, Return(t, k) DEF Return
  <2>3. v[l - 1] = stack[t][l - 1] /\ l - 1 \in DOMAIN v
    BY ONLY <1>1, <1>2, <2>1
  <2>4. stack' = [stack EXCEPT ![t] = w]
    BY <2>2, <2>3
  <2>5. f \in CallFrame
    <3>1. stack[t][l - 1] \in CallFrame
      BY ONLY <1>1, <1>2
    <3> QED BY ONLY <3>1, k \in Typ DEF CallFrame, Entry, TypOrNone, Label
  <2> HIDE DEF v, f
  <2>6. /\ w \in Seq(CallFrame) /\ Len(w) = l - 1 /\ DOMAIN w = 1 .. l - 1
        /\ w[l - 1] = f
        /\ \A n \in 1 .. l - 1 : n # l - 1 => w[n] = v[n]
    <3>1. v # << >> /\ Len(v) = l - 1
      BY ONLY <2>1, <2>3, EmptySeq
    <3>2. w = [v EXCEPT ![Len(v)] = f]
      BY ONLY <3>1
    <3> HIDE DEF w, l
    <3> QED BY ONLY <3>1, <3>2, <2>1, <2>5, TopReplaced
  <2> HIDE DEF w
  <2>7. stack'[t] = w /\ (\A u \in Thread : u # t => stack'[u] = stack[u])
    BY <1>1, <2>4
  <2>8. stack' \in [Thread -> Seq(CallFrame)]
    BY <1>1, <2>4, <2>6
  <2>9. \A n \in 1 .. l - 1 : n \in DOMAIN stack[t] /\ w[n] = IF n = l - 1 THEN f ELSE stack[t][n]
    <3> TAKE n \in 1 .. l - 1
    <3>1. n \in DOMAIN stack[t]
      BY ONLY <1>1
    <3>2. v[n] = stack[t][n]
      BY ONLY <2>1
    <3>3. w[n] = IF n = l - 1 THEN f ELSE v[n]
      BY ONLY <2>6
    <3> QED BY ONLY <3>1, <3>2, <3>3
  <2>10. \A n \in 1 .. l - 1 : n = l - 1 => f = [stack[t][n] EXCEPT !.new.target = k, !.pc = "link"]
    BY DEF f
  <2> QED BY ONLY <2>6, <2>7, <2>8, <2>9, <2>10
<1>3. CASE ~(l > 1)
  <2>1. stack' = [stack EXCEPT ![t] = << >>]
    BY <1>3 DEF Return
  <2>2. stack'[t] = << >> /\ (\A u \in Thread : u # t => stack'[u] = stack[u])
    BY <1>1, <2>1
  <2>3. stack' \in [Thread -> Seq(CallFrame)]
    BY <1>1, <2>1
  <2>4. l - 1 = 0
    BY ONLY <1>1, <1>3
  <2>5. Len(<< >>) = 0 /\ DOMAIN << >> = 1 .. 0 /\ 1 .. 0 = {}
    OBVIOUS
  <2> HIDE DEF l
  <2>6. Len(stack'[t]) = l - 1 /\ DOMAIN stack'[t] = 1 .. l - 1
    BY ONLY <2>2, <2>4, <2>5
  <2>7. DOMAIN stack'[t] = {}
    BY ONLY <2>2, <2>5
  <2> QED BY ONLY <2>2, <2>3, <2>6, <2>7 DEF l
<1> QED BY <1>2, <1>3

-----------------------------------------------------------------------------
(* What each action does to the stack *)

\* Where calls do not collide, an entry found under a call's hash is the call's: the branch of
\* find_existing that goes on with the row unlocked is not taken.
LEMMA ExistingReturns ==
  ASSUME IInv, Closed, ~Collided, NEW t \in Thread, find_existing(t)
  PROVE  /\ stack[t] # << >> /\ Holds(Top(t))
         /\ Unlock(t) /\ Return(t, Top(t).key) /\ Has(Top(t).key)
         /\ UNCHANGED <<table, calls>>
<1>1. stack[t] # << >> /\ Top(t).pc = "find"
  BY DEF find_existing, At
<1>2. Top(t) \in CallFrame /\ Top(t) \in Frames
  BY <1>1, TopOf, FrameType DEF IInv
<1>3. Top(t).key \in Typ /\ Top(t).call \in CallOn(Typ)
  BY <1>2 DEF CallFrame
<1>4. /\ Has(Top(t).key)
      /\ Find(Top(t).key).type = Top(t).key /\ Made(Find(Top(t).key))
  BY <1>3, FoundEntry DEF IInv, find_existing
<1>5. Describes(Find(Top(t).key), Top(t).call)
  <2> DEFINE e == Find(Top(t).key)
             a == <<Top(t).key, Top(t).call>>
  <2>1. a \in Known /\ a[1] = Top(t).key /\ a[2] = Top(t).call
    BY <1>2 DEF Known
  <2>2. Made(e) /\ e.type = a[1]
    BY <1>4, <2>1
  <2> HIDE DEF e, a
  <2>3. Describes(e, a[2])
    BY <2>1, <2>2, OwnEntry
  <2> QED BY <2>1, <2>3 DEF e
<1>6. Existing(Find(Top(t).key), Top(t).call)
  BY <1>3, <1>5, DescribedExists
<1> QED BY <1>1, <1>4, <1>6 DEF find_existing, Holds

LEMMA StackCalled ==
  ASSUME TyInv, Closed, NEW t \in Thread, call(t)
  PROVE  \E c \in CallOn(Typ), p \in Pad :
           /\ Frame(c, p) \in CallFrame
           /\ stack[t] = << >> /\ stack' = [stack EXCEPT ![t] = <<Frame(c, p)>>]
           /\ stack' \in [Thread -> Seq(CallFrame)]
           /\ \A u \in Thread : u # t => stack'[u] = stack[u]
           /\ Len(stack'[t]) = 1 /\ DOMAIN stack'[t] = {1} /\ stack'[t][1] = Frame(c, p)
<1>1. PICK c \in CallOn(BaseTyp \cup ({result[t]} \ {NoTyp})), p \in Pad :
        stack' = [stack EXCEPT ![t] = <<Frame(c, p)>>]
  BY DEF call
<1>2. BaseTyp \cup ({result[t]} \ {NoTyp}) \subseteq Typ
  BY DEF TyInv, Closed, TypOrNone
<1>3. c \in CallOn(Typ)
  BY <1>1, <1>2 DEF CallOn
<1>4. Frame(c, p) \in CallFrame
  BY <1>3 DEF Closed, Frame, CallFrame, Label, Entry, TypOrNone, None
<1>5. <<Frame(c, p)>> \in Seq(CallFrame) /\ Len(<<Frame(c, p)>>) = 1
  BY <1>4
<1>6. stack \in [Thread -> Seq(CallFrame)]
  BY DEF TyInv
<1> DEFINE w == <<Frame(c, p)>>
<1>7. DOMAIN w = {1} /\ w[1] = Frame(c, p)
  OBVIOUS
<1> HIDE DEF w
<1>8. stack'[t] = w /\ (\A u \in Thread : u # t => stack'[u] = stack[u]) /\ stack' \in [Thread -> Seq(CallFrame)]
  BY ONLY <1>1, <1>5, <1>6, t \in Thread DEF w
<1>9. stack[t] = << >>
  BY DEF call
<1> QED BY ONLY <1>1, <1>3, <1>4, <1>5, <1>7, <1>8, <1>9 DEF w

\* The innermost call of t, in another state.
Topped(t, l) == [Top(t) EXCEPT !.pc = l]

LEMMA GotoMoves ==
  ASSUME TyInv, NEW t \in Thread, stack[t] # << >>, NEW l \in Label, Goto(t, l)
  PROVE  Moved(t, Topped(t, l)) /\ Topped(t, l) \in CallFrame
<1>1. Top(t) \in CallFrame
  BY TopOf
<1> QED BY <1>1 DEF Goto, Moved, Topped, CallFrame

Linked(t) == [Top(t) EXCEPT !.next = Chain(RowOf(Top(t).key)), !.pc = "publish"]

LEMMA LinkMoves ==
  ASSUME TyInv, NEW t \in Thread, add_link(t)
  PROVE  stack[t] # << >> /\ Top(t).pc = "link" /\ Moved(t, Linked(t)) /\ Linked(t) \in CallFrame
<1>1. stack[t] # << >> /\ Top(t).pc = "link"
  BY DEF add_link, At
<1>2. Top(t) \in CallFrame
  BY <1>1, TopOf
<1>3. Chain(RowOf(Top(t).key)) \in Seq(Entry)
  BY ChainType
<1>4. Linked(t) \in CallFrame
  BY <1>2, <1>3 DEF Linked, CallFrame, Label
<1>5. Moved(t, Linked(t))
  BY DEF add_link, Moved, Linked
<1> QED BY <1>1, <1>4, <1>5

\* make fills in the entry, or calls for the target first.
LEMMA MakeMoves ==
  ASSUME TyInv, Closed, NEW t \in Thread, make(t)
  PROVE  /\ stack[t] # << >> /\ Top(t).pc = "make"
         /\ \/ \E f \in CallFrame :
                /\ Moved(t, f)
                /\ f.key = Top(t).key /\ f.call = Top(t).call /\ f.pc = "link"
                /\ f.new.type = f.key /\ Describes(f.new, f.call)
            \/ \E f \in CallFrame, c \in CallOn(Typ), p \in Pad :
                /\ Entered(t, f, Frame(c, p)) /\ Frame(c, p) \in CallFrame
                /\ f.key = Top(t).key /\ f.call = Top(t).call /\ f.pc = "target"
                /\ f.call.fn = "mktypfromgenargs"
                /\ f.new.type = f.key /\ Describes(f.new, f.call)
<1> DEFINE te == Find(Top(t).call.type)
           new == New(Top(t), te)
<1>1. stack[t] # << >> /\ Top(t).pc = "make"
  BY DEF make, At
<1>2. Top(t) \in CallFrame /\ Top(t).call \in CallOn(Typ) /\ Top(t).call.type \in Typ
  BY <1>1, TopOf DEF CallFrame, CallOn
<1>3. te \in Entry
  BY <1>2, FoundType
<1>4. new \in Entry /\ new.type = Top(t).key /\ Describes(new, Top(t).call)
  BY <1>2, <1>3, NewEntry
<1>5. CASE Top(t).call.fn = "mktypfromgenargs" /\ te.target # NoTyp
  <2> DEFINE f == [[Top(t) EXCEPT !.new = new, !.pc = "link"] EXCEPT !.pc = "target"]
             c == [Top(t).call EXCEPT !.type = te.target]
  <2>1. PICK p \in Pad : Entered(t, f, Frame(c, p))
    BY <1>5 DEF make, Entered
  <2>2. te.target \in Typ
    BY <1>3, <1>5 DEF Entry, TypOrNone
  <2>3. c \in CallOn(Typ)
    BY <1>2, <1>5, <2>2 DEF CallOn
  <2> HIDE DEF c
  <2>4. Frame(c, p) \in CallFrame
    BY <2>3 DEF Closed, Frame, CallFrame, Label, Entry, TypOrNone, None
  <2> HIDE DEF te, new
  <2>5. /\ f \in CallFrame
        /\ f.key = Top(t).key /\ f.call = Top(t).call /\ f.pc = "target" /\ f.new = new
    BY ONLY <1>2, <1>4 DEF CallFrame, Label
  <2> HIDE DEF f
  <2> QED BY <1>1, <1>4, <1>5, <2>1, <2>3, <2>4, <2>5
<1>6. CASE ~(Top(t).call.fn = "mktypfromgenargs" /\ te.target # NoTyp)
  <2> DEFINE f == [Top(t) EXCEPT !.new = new, !.pc = "link"]
  <2>1. Moved(t, f)
    BY <1>6 DEF make, Moved
  <2> HIDE DEF te, new
  <2>2. /\ f \in CallFrame
        /\ f.key = Top(t).key /\ f.call = Top(t).call /\ f.pc = "link" /\ f.new = new
    BY ONLY <1>2, <1>4 DEF CallFrame, Label
  <2> HIDE DEF f
  <2> QED BY <1>1, <1>4, <2>1, <2>2
<1> QED BY <1>5, <1>6

-----------------------------------------------------------------------------
(* What a step keeps *)

\* A call that is known stays known.
LEMMA KnownKept ==
  ASSUME got \subseteq got',
         \A u \in Thread : \A n \in DOMAIN stack[u] :
           \/ \E m \in DOMAIN stack'[u] : /\ stack'[u][m].key = stack[u][n].key
                                         /\ stack'[u][m].call = stack[u][n].call
           \/ \E g \in got' : g.type = stack[u][n].key /\ g.call = stack[u][n].call
  PROVE  Known \subseteq Known'
<1> SUFFICES ASSUME NEW a \in Known
             PROVE  a \in Known'
  OBVIOUS
<1>1. CASE \E g \in got : a = <<g.type, g.call>>
  BY <1>1 DEF Known
<1>2. CASE \E u \in Thread : \E n \in DOMAIN stack[u] : a = <<stack[u][n].key, stack[u][n].call>>
  <2>0. PICK u \in Thread : \E n \in DOMAIN stack[u] : a = <<stack[u][n].key, stack[u][n].call>>
    BY <1>2
  <2>1. PICK n \in DOMAIN stack[u] : a = <<stack[u][n].key, stack[u][n].call>>
    BY <2>0
  <2>2. CASE \E m \in DOMAIN stack'[u] : /\ stack'[u][m].key = stack[u][n].key
                                         /\ stack'[u][m].call = stack[u][n].call
    <3>1. PICK m \in DOMAIN stack'[u] : /\ stack'[u][m].key = stack[u][n].key
                                       /\ stack'[u][m].call = stack[u][n].call
      BY <2>2
    <3>2. stack'[u][m] \in Frames'
      BY <3>1 DEF Frames, ToSet
    <3> QED BY <2>1, <3>1, <3>2 DEF Known
  <2>3. CASE \E g \in got' : g.type = stack[u][n].key /\ g.call = stack[u][n].call
    BY <2>1, <2>3 DEF Known
  <2> QED BY <2>1, <2>2, <2>3
<1> QED BY <1>1, <1>2 DEF Known, Frames, ToSet

LEMMA MadeKept ==
  ASSUME Known \subseteq Known', NEW e, Made(e)
  PROVE  Made(e)'
BY DEF Made

LEMMA TableKept ==
  ASSUME TableInv, table' = table, Known \subseteq Known'
  PROVE  TableInv'
<1>1. \A e : Made(e) => Made(e)'
  BY MadeKept
<1> QED BY <1>1 DEF TableInv, Made

LEMMA FrameKept ==
  ASSUME table' = table, NEW f, FrameInv(f)
  PROVE  FrameInv(f)'
BY DEF FrameInv, Has, Chain

\* To show what the next state says of its calls.
LEMMA StackNext ==
  ASSUME \A u \in Thread : \A n \in DOMAIN stack'[u] : \E f \in CallFrame :
           f = stack'[u][n] /\ (f.pc = "target" <=> n # Len(stack'[u])) /\ FrameInv(f)'
  PROVE  StackInv'
<1> SUFFICES ASSUME NEW u \in Thread, NEW n \in DOMAIN stack'[u]
             PROVE  /\ stack'[u][n].pc = "target" <=> n # Len(stack'[u])
                    /\ FrameInv(stack[u][n])'
  BY DEF StackInv
<1>1. PICK f \in CallFrame : f = stack'[u][n] /\ (f.pc = "target" <=> n # Len(stack'[u])) /\ FrameInv(f)'
  OBVIOUS
<1> QED BY <1>1 DEF FrameInv, Has, Chain

LEMMA SameLockRow ==
  ASSUME NEW f, NEW g, f.key = g.key, f.call = g.call
  PROVE  LockRow(f) = LockRow(g)
BY DEF LockRow, LockKey

\* Locks and their holders, when no call takes or gives back its lock.
LEMMA SameHolders ==
  ASSUME LockInv, UNCHANGED <<lock, misuse>>,
         \A u \in Thread : \A n \in DOMAIN stack[u] : Holds(stack[u][n]) =>
           \E m \in DOMAIN stack'[u] : Holds(stack'[u][m]) /\ LockRow(stack'[u][m]) = LockRow(stack[u][n]),
         \A u \in Thread : \A n \in DOMAIN stack'[u] : Holds(stack'[u][n]) =>
           \E m \in DOMAIN stack[u] : Holds(stack[u][m]) /\ LockRow(stack[u][m]) = LockRow(stack'[u][n])
  PROVE  LockInv'
<1>1. \A h \in lock' : \E u \in Thread : \E n \in DOMAIN stack'[u] :
        Holds(stack'[u][n]) /\ h = <<LockRow(stack'[u][n]), u>>
  <2> TAKE h \in lock'
  <2>1. PICK u \in Thread : \E n \in DOMAIN stack[u] : Holds(stack[u][n]) /\ h = <<LockRow(stack[u][n]), u>>
    BY DEF LockInv
  <2> QED BY <2>1
<1>2. \A u \in Thread : \A n \in DOMAIN stack'[u] :
        Holds(stack'[u][n]) => <<LockRow(stack'[u][n]), u>> \in lock'
  <2> TAKE u \in Thread
  <2> TAKE n \in DOMAIN stack'[u]
  <2> HAVE Holds(stack'[u][n])
  <2>1. PICK m \in DOMAIN stack[u] : Holds(stack[u][m]) /\ LockRow(stack[u][m]) = LockRow(stack'[u][n])
    OBVIOUS
  <2> QED BY <2>1 DEF LockInv
<1>3. /\ \A h, g \in lock' : h[1] = g[1] => h[2] = g[2]
      /\ misuse' = FALSE
  BY DEF LockInv
<1> QED BY ONLY <1>1, <1>2, <1>3 DEF LockInv, Holds, LockRow, LockKey

\* A step of the innermost call that changes nothing but its state, and perhaps the locks.
LEMMA MoveKeepsCalls ==
  ASSUME IInv, NEW t \in Thread, stack[t] # << >>, NEW f \in CallFrame, Moved(t, f),
         f.key = Top(t).key, f.call = Top(t).call, f.pc # "target", FrameInv(f),
         UNCHANGED <<table, calls, result, got>>
  PROVE  /\ TyInv' /\ TableInv' /\ StackInv' /\ GotInv'
         /\ \A u \in Thread : \A n \in DOMAIN stack[u] : LockRow(stack'[u][n]) = LockRow(stack[u][n])
<1> DEFINE l == Len(stack[t])
<1>1. /\ stack' \in [Thread -> Seq(CallFrame)]
      /\ \A u \in Thread : u # t => stack'[u] = stack[u]
      /\ Len(stack'[t]) = l /\ DOMAIN stack'[t] = DOMAIN stack[t]
      /\ stack'[t][l] = f
      /\ \A n \in DOMAIN stack[t] : n # l => stack'[t][n] = stack[t][n]
  BY StackMoved DEF IInv
<1>2. l \in DOMAIN stack[t] /\ Top(t) = stack[t][l]
  BY TopOf DEF IInv
<1>3. \A u \in Thread : Len(stack'[u]) = Len(stack[u]) /\ DOMAIN stack'[u] = DOMAIN stack[u]
  BY ONLY <1>1
<1>4. \A u \in Thread : \A n \in DOMAIN stack[u] :
        stack'[u][n].key = stack[u][n].key /\ stack'[u][n].call = stack[u][n].call
  BY <1>1, <1>2
<1> HIDE DEF l
<1>5. TyInv'
  BY <1>1 DEF IInv, TyInv
<1>6. Known \subseteq Known'
  BY <1>3, <1>4, KnownKept
<1>7. TableInv'
  BY <1>6, TableKept DEF IInv
<1>8. StackInv'
  <2> SUFFICES ASSUME NEW u \in Thread, NEW n \in DOMAIN stack'[u]
               PROVE  \E h \in CallFrame :
                        h = stack'[u][n] /\ (h.pc = "target" <=> n # Len(stack'[u])) /\ FrameInv(h)'
    BY StackNext
  <2>1. n \in DOMAIN stack[u] /\ stack[u][n] \in CallFrame
    BY <1>3, FrameType DEF IInv
  <2>2. CASE u = t /\ n = l
    <3>1. FrameInv(f)'
      BY FrameKept
    <3> QED BY ONLY <1>1, <2>2, <3>1, f.pc # "target"
  <2>3. CASE ~(u = t /\ n = l)
    <3>1. stack'[u][n] = stack[u][n]
      BY ONLY <1>1, <2>1, <2>3
    <3>2. (stack[u][n].pc = "target" <=> n # Len(stack[u])) /\ FrameInv(stack[u][n])
      BY <2>1 DEF IInv, StackInv
    <3> DEFINE h == stack[u][n]
    <3>3. \A k : FrameInv(k) => FrameInv(k)'
      BY FrameKept
    <3>4. PICK k \in CallFrame : k = stack[u][n]
      BY <2>1
    <3>5. FrameInv(k)'
      BY <3>2, <3>3, <3>4
    <3> QED BY <1>3, <3>1, <3>2, <3>4, <3>5
  <2> QED BY <2>2, <2>3
<1>9. \A u \in Thread : \A n \in DOMAIN stack[u] : LockRow(stack'[u][n]) = LockRow(stack[u][n])
  BY <1>4, SameLockRow
<1>10. GotInv'
  BY DEF IInv, GotInv, Has, Chain
<1> QED BY <1>5, <1>7, <1>8, <1>9, <1>10

\* ... not the locks.
LEMMA MoveKeeps ==
  ASSUME IInv, NEW t \in Thread, stack[t] # << >>, NEW f \in CallFrame, Moved(t, f),
         f.key = Top(t).key, f.call = Top(t).call, Holds(f), Holds(Top(t)), f.pc # "target", FrameInv(f),
         UNCHANGED <<table, lock, calls, result, got, misuse>>
  PROVE  IInv'
<1>1. TyInv' /\ TableInv' /\ StackInv' /\ GotInv'
  BY MoveKeepsCalls
<1>2. LockInv'
  <2>1. \A u \in Thread : \A n \in DOMAIN stack[u] : LockRow(stack'[u][n]) = LockRow(stack[u][n])
    BY MoveKeepsCalls
  <2>2. \A u \in Thread : DOMAIN stack'[u] = DOMAIN stack[u]
    BY StackMoved DEF IInv
  <2>3. \A u \in Thread : \A n \in DOMAIN stack[u] : Holds(stack'[u][n]) <=> Holds(stack[u][n])
    BY StackMoved, TopOf DEF IInv
  <2> QED BY ONLY <2>1, <2>2, <2>3, SameHolders, IInv, UNCHANGED <<lock, misuse>> DEF IInv
<1> QED BY <1>1, <1>2 DEF IInv

LEMMA WrlockKeeps ==
  ASSUME IInv, NEW t \in Thread, XHASH_WRLOCK_RESV(t)
  PROVE  IInv'
<1> DEFINE l == Len(stack[t])
           f == Topped(t, "find")
           r == LockRow(Top(t))
<1>1. stack[t] # << >> /\ Top(t).pc = "wrlock"
  BY DEF XHASH_WRLOCK_RESV, At
<1>2. Moved(t, f) /\ f \in CallFrame
  BY <1>1, GotoMoves DEF IInv, XHASH_WRLOCK_RESV, Label
<1>3. l \in DOMAIN stack[t] /\ Top(t) = stack[t][l] /\ Top(t) \in CallFrame
  BY <1>1, TopOf DEF IInv
<1>4. f.key = Top(t).key /\ f.call = Top(t).call /\ f.pc = "find"
  BY <1>3 DEF Topped, CallFrame
<1>5. FrameInv(f)
  BY <1>4 DEF FrameInv
<1>6. /\ lock' = lock \cup {<<r, t>>} /\ \A h \in lock : h[1] = r => h[2] = t
      /\ UNCHANGED <<table, calls, result, got, misuse>>
  BY DEF XHASH_WRLOCK_RESV
<1> HIDE DEF f
<1>7. /\ TyInv' /\ TableInv' /\ StackInv' /\ GotInv'
      /\ \A u \in Thread : \A n \in DOMAIN stack[u] : LockRow(stack'[u][n]) = LockRow(stack[u][n])
  BY <1>1, <1>2, <1>4, <1>5, <1>6, MoveKeepsCalls
<1>8. LockInv'
  <2>1. /\ \A u \in Thread : DOMAIN stack'[u] = DOMAIN stack[u]
        /\ stack'[t][l] = f
        /\ \A u \in Thread : \A n \in DOMAIN stack[u] : ~(u = t /\ n = l) => stack'[u][n] = stack[u][n]
    BY <1>1, <1>2, StackMoved DEF IInv
  <2> HIDE DEF l, r
  <2>2. r = LockRow(stack[t][l])
    BY <1>3 DEF r
  <2>3. \A h \in lock' : \E u \in Thread : \E n \in DOMAIN stack'[u] :
          Holds(stack'[u][n]) /\ h = <<LockRow(stack'[u][n]), u>>
    <3> TAKE h \in lock'
    <3>1. CASE h = <<r, t>>
      BY <1>3, <1>4, <1>7, <2>1, <2>2, <3>1 DEF Holds
    <3>2. CASE h \in lock
      <4>1. PICK u \in Thread : \E n \in DOMAIN stack[u] : Holds(stack[u][n]) /\ h = <<LockRow(stack[u][n]), u>>
        BY <3>2 DEF IInv, LockInv
      <4>2. PICK n \in DOMAIN stack[u] : Holds(stack[u][n]) /\ h = <<LockRow(stack[u][n]), u>>
        BY <4>1
      <4>3. ~(u = t /\ n = l)
        BY <1>1, <1>3, <4>2 DEF Holds
      <4> QED BY <1>7, <2>1, <4>2, <4>3
    <3> QED BY <1>6, <3>1, <3>2
  <2>4. \A u \in Thread : \A n \in DOMAIN stack'[u] :
          Holds(stack'[u][n]) => <<LockRow(stack'[u][n]), u>> \in lock'
    <3> TAKE u \in Thread
    <3> TAKE n \in DOMAIN stack'[u]
    <3> HAVE Holds(stack'[u][n])
    <3>1. CASE u = t /\ n = l
      BY <1>3, <1>6, <1>7, <2>2, <3>1
    <3>2. CASE ~(u = t /\ n = l)
      <4>1. stack'[u][n] = stack[u][n] /\ n \in DOMAIN stack[u]
        BY <2>1, <3>2
      <4> QED BY <1>6, <1>7, <4>1 DEF IInv, LockInv
    <3> QED BY <3>1, <3>2
  <2>5. \A h, g \in lock' : h[1] = g[1] => h[2] = g[2]
    <3> DEFINE e == <<r, t>>
    <3>1. e[1] = r /\ e[2] = t /\ lock' = lock \cup {e}
      BY <1>6
    <3> HIDE DEF e
    <3> QED BY <1>6, <3>1 DEF IInv, LockInv
  <2>6. misuse' = FALSE
    BY <1>6 DEF IInv, LockInv
  <2> QED BY ONLY <2>3, <2>4, <2>5, <2>6 DEF LockInv, Holds, LockRow, LockKey
<1> QED BY <1>7, <1>8 DEF IInv

\* The innermost call gives its lock back and returns.
LEMMA ReturnKeeps ==
  ASSUME IInv, NestedApart, NEW t \in Thread, stack[t] # << >>, Holds(Top(t)),
         Unlock(t), Return(t, Top(t).key), Has(Top(t).key), UNCHANGED <<table, calls>>
  PROVE  IInv'
<1> DEFINE l == Len(stack[t])
           k == Top(t).key
           r == LockRow(Top(t))
<1>1. /\ l \in DOMAIN stack[t] /\ DOMAIN stack[t] = 1 .. l /\ l \in Nat /\ l >= 1
      /\ Top(t) = stack[t][l] /\ Top(t) \in CallFrame /\ k \in Typ
  BY TopOf DEF IInv, CallFrame
<1>2. /\ stack' \in [Thread -> Seq(CallFrame)]
      /\ \A u \in Thread : u # t => stack'[u] = stack[u]
      /\ Len(stack'[t]) = l - 1 /\ DOMAIN stack'[t] = 1 .. l - 1
      /\ \A n \in DOMAIN stack'[t] :
           /\ n \in DOMAIN stack[t]
           /\ stack'[t][n] = IF n = l - 1 THEN [stack[t][n] EXCEPT !.new.target = k, !.pc = "link"]
                                         ELSE stack[t][n]
  BY <1>1, StackReturned DEF IInv
<1>3. got' = got \cup {[call |-> Top(t).call, type |-> k]}
  BY DEF Return
<1>4. \A n : n \in DOMAIN stack'[t] <=> n \in DOMAIN stack[t] /\ n # l
  <2> HIDE DEF l
  <2>1. \A n : n \in 1 .. l - 1 <=> n \in 1 .. l /\ n # l
    BY ONLY <1>1
  <2> QED BY ONLY <1>1, <1>2, <2>1
<1>5. \A u \in Thread : \A n \in DOMAIN stack[u] : stack[u][n] \in CallFrame
  BY FrameType DEF IInv
<1>6. result' \in [Thread -> TypOrNone]
  <2>1. result' = result \/ result' = [result EXCEPT ![t] = k]
    BY DEF Return
  <2>2. k \in TypOrNone /\ result \in [Thread -> TypOrNone]
    BY <1>1 DEF TypOrNone, IInv, TyInv
  <2> HIDE DEF k
  <2> QED BY <2>1, <2>2
<1>7. misuse' = (misuse \/ <<r, t>> \notin lock) /\ lock' = {h \in lock : h[1] # r}
  BY DEF Unlock
<1>8. \A n \in DOMAIN stack'[t] : n = l - 1 =>
        /\ stack[t][n].pc = "target" /\ stack'[t][n].pc = "link"
        /\ FrameInv(stack[t][n]) => FrameInv(stack'[t][n])
  <2> SUFFICES ASSUME NEW n \in DOMAIN stack'[t], n = l - 1
               PROVE  /\ stack[t][n].pc = "target" /\ stack'[t][n].pc = "link"
                      /\ FrameInv(stack[t][n]) => FrameInv(stack'[t][n])
    OBVIOUS
  <2>1. n \in DOMAIN stack[t] /\ n # l /\ stack[t][n] \in CallFrame
    <3> HIDE DEF l
    <3> QED BY ONLY <1>4, <1>5, n \in DOMAIN stack'[t], t \in Thread
  <2>2. stack[t][n].pc = "target"
    BY <2>1 DEF IInv, StackInv
  <2>3. PICK g \in CallFrame : g = stack[t][n]
    BY <2>1
  <2> DEFINE f == [g EXCEPT !.new.target = k, !.pc = "link"]
  <2>4. stack'[t][n] = f
    BY <1>2, <2>3
  <2>5. FrameInv(g) => FrameInv(f)
    <3>1. /\ f.pc = "link" /\ f.key = g.key /\ f.call = g.call
          /\ f.new.type = g.new.type /\ f.new.args = g.new.args /\ f.new.maintype = g.new.maintype
      BY DEF CallFrame, Entry
    <3> HIDE DEF f
    <3>2. g.pc = "target"
      BY <2>2, <2>3
    <3> QED BY <3>1, <3>2 DEF FrameInv, Describes
  <2>6. f.pc = "link"
    BY DEF CallFrame
  <2> HIDE DEF f
  <2> QED BY ONLY <2>2, <2>3, <2>4, <2>5, <2>6
<1>9. \A u \in Thread : \A n \in DOMAIN stack'[u] :
        /\ n \in DOMAIN stack[u] /\ ~(u = t /\ n = l)
        /\ stack'[u][n].key = stack[u][n].key /\ stack'[u][n].call = stack[u][n].call
        /\ Holds(stack'[u][n]) <=> Holds(stack[u][n])
  <2> TAKE u \in Thread
  <2> TAKE n \in DOMAIN stack'[u]
  <2>1. CASE u # t
    BY <1>2, <2>1
  <2>2. CASE u = t
    <3>1. n \in DOMAIN stack[t] /\ n # l /\ stack[t][n] \in CallFrame
      <4> HIDE DEF l
      <4> QED BY ONLY <1>4, <1>5, n \in DOMAIN stack'[u], <2>2, t \in Thread
    <3> HIDE DEF l, k
    <3>2. CASE n = l - 1
      <4>1. /\ stack'[t][n].key = stack[t][n].key /\ stack'[t][n].call = stack[t][n].call
        BY <1>2, <2>2, <3>1, <3>2 DEF CallFrame
      <4> QED BY <1>8, <2>2, <3>1, <3>2, <4>1 DEF Holds
    <3>3. CASE n # l - 1
      BY <1>2, <2>2, <3>1, <3>3
    <3> QED BY <3>2, <3>3
  <2> QED BY <2>1, <2>2
<1>10. TyInv'
  <2>1. [call |-> Top(t).call, type |-> k] \in [call : CallOn(Typ), type : Typ]
    BY <1>1 DEF CallFrame
  <2> HIDE DEF k
  <2> QED BY <1>2, <1>3, <1>6, <2>1 DEF IInv, TyInv
<1>11. Known \subseteq Known'
  <2>1. \A u \in Thread : \A n \in DOMAIN stack[u] : ~(u = t /\ n = l) => n \in DOMAIN stack'[u]
    <3> HIDE DEF l
    <3> QED BY ONLY <1>2, <1>4
  <2>2. \E g \in got' : g.type = stack[t][l].key /\ g.call = stack[t][l].call
    <3> DEFINE g == [call |-> Top(t).call, type |-> k]
    <3>1. g \in got' /\ g.call = Top(t).call /\ g.type = k
      BY <1>3
    <3> HIDE DEF g
    <3> QED BY <1>1, <3>1
  <2> HIDE DEF l
  <2>3. got \subseteq got'
    BY <1>3
  <2> QED BY <1>9, <2>1, <2>2, <2>3, KnownKept
<1>12. TableInv'
  BY <1>11, TableKept DEF IInv
<1>13. StackInv'
  <2> SUFFICES ASSUME NEW u \in Thread, NEW n \in DOMAIN stack'[u]
               PROVE  \E h \in CallFrame :
                        h = stack'[u][n] /\ (h.pc = "target" <=> n # Len(stack'[u])) /\ FrameInv(h)'
    BY StackNext
  <2>1. n \in DOMAIN stack[u] /\ stack[u][n] \in CallFrame /\ ~(u = t /\ n = l)
    BY <1>9, FrameType DEF IInv
  <2>2. (stack[u][n].pc = "target" <=> n # Len(stack[u])) /\ FrameInv(stack[u][n])
    BY <2>1 DEF IInv, StackInv
  <2>3. stack'[u][n] \in CallFrame
    <3>1. stack'[u] \in Seq(CallFrame)
      BY <1>2
    <3>2. \A w \in Seq(CallFrame) : \A m \in DOMAIN w : w[m] \in CallFrame
      OBVIOUS
    <3> QED BY ONLY <3>1, <3>2, n \in DOMAIN stack'[u]
  <2>4. (stack'[u][n].pc = "target" <=> n # Len(stack'[u])) /\ FrameInv(stack'[u][n])
    <3>1. CASE u # t
      BY <1>2, <2>2, <3>1
    <3>2. CASE u = t /\ n = l - 1
      BY <1>2, <1>8, <2>2, <3>2
    <3>3. CASE u = t /\ n # l - 1
      BY <1>1, <1>2, <2>1, <2>2, <3>3
    <3> QED BY <3>1, <3>2, <3>3
  <2>5. PICK h \in CallFrame : h = stack'[u][n]
    BY <2>3
  <2>6. FrameInv(h)
    BY ONLY <2>4, <2>5
  <2>7. FrameInv(h)'
    BY <2>6, FrameKept
  <2> QED BY <2>4, <2>5, <2>7
<1>14. LockInv'
  <2>1. \A u \in Thread : \A n \in DOMAIN stack'[u] : LockRow(stack'[u][n]) = LockRow(stack[u][n])
    BY <1>9, SameLockRow
  <2>2. <<r, t>> \in lock /\ r = LockRow(stack[t][l])
    BY <1>1 DEF IInv, LockInv
  <2>3. \A n \in DOMAIN stack[t] : n # l => LockRow(stack[t][n]) # r
    BY <1>1 DEF NestedApart
  <2> HIDE DEF l, r, k
  <2>4. \A h \in lock' : \E u \in Thread : \E n \in DOMAIN stack'[u] :
          Holds(stack'[u][n]) /\ h = <<LockRow(stack'[u][n]), u>>
    <3> TAKE h \in lock'
    <3>1. PICK u \in Thread : \E n \in DOMAIN stack[u] : Holds(stack[u][n]) /\ h = <<LockRow(stack[u][n]), u>>
      BY <1>7 DEF IInv, LockInv
    <3>2. PICK n \in DOMAIN stack[u] : Holds(stack[u][n]) /\ h = <<LockRow(stack[u][n]), u>>
      BY <3>1
    <3>3. ~(u = t /\ n = l)
      BY <1>7, <2>2, <3>2
    <3>4. n \in DOMAIN stack'[u]
      <4>1. CASE u # t
        BY <1>2, <3>2, <4>1
      <4>2. CASE u = t
        BY ONLY <1>4, <3>2, <3>3, <4>2
      <4> QED BY <4>1, <4>2
    <3> QED BY <1>9, <2>1, <3>2, <3>4
  <2>5. \A u \in Thread : \A n \in DOMAIN stack'[u] :
          Holds(stack'[u][n]) => <<LockRow(stack'[u][n]), u>> \in lock'
    <3> TAKE u \in Thread
    <3> TAKE n \in DOMAIN stack'[u]
    <3> HAVE Holds(stack'[u][n])
    <3> DEFINE e == <<LockRow(stack[u][n]), u>>
    <3>1. n \in DOMAIN stack[u] /\ e \in lock /\ ~(u = t /\ n = l)
      BY <1>9 DEF IInv, LockInv
    <3>2. e[1] = LockRow(stack[u][n]) /\ e[2] = u
      OBVIOUS
    <3>3. e = <<LockRow(stack'[u][n]), u>>
      BY <2>1
    <3> DEFINE own == <<r, t>>
    <3>4. own[1] = r /\ own[2] = t /\ own \in lock
      BY <2>2
    <3> HIDE DEF e, own
    <3>5. e[1] # r
      <4>1. CASE u = t
        BY <2>3, <3>1, <3>2, <4>1
      <4>2. CASE u # t
        BY <3>1, <3>2, <3>4, <4>2 DEF IInv, LockInv
      <4> QED BY <4>1, <4>2
    <3> QED BY <1>7, <3>1, <3>3, <3>5
  <2>6. \A h, g \in lock' : h[1] = g[1] => h[2] = g[2]
    BY <1>7 DEF IInv, LockInv
  <2>7. misuse' = FALSE
    BY <1>7, <2>2 DEF IInv, LockInv
  <2> QED BY ONLY <2>4, <2>5, <2>6, <2>7 DEF LockInv, Holds, LockRow, LockKey
<1>15. GotInv'
  <2>1. \A g \in got' : g \in got \/ g.type = k
    BY <1>3
  <2> HIDE DEF k
  <2>2. \A g \in got' : Has(g.type)
    BY <2>1 DEF IInv, GotInv, k
  <2> QED BY <2>2 DEF GotInv, Has, Chain
<1> QED BY <1>10, <1>12, <1>13, <1>14, <1>15 DEF IInv

\* A new innermost call, which has not taken its lock: nothing else changes.
LEMMA BegunKeeps ==
  ASSUME IInv, NEW t \in Thread, stack' \in [Thread -> Seq(CallFrame)],
         \A u \in Thread : u # t => stack'[u] = stack[u],
         NEW l \in Nat, DOMAIN stack[t] = 1 .. l, Len(stack[t]) = l,
         DOMAIN stack'[t] = 1 .. l + 1, Len(stack'[t]) = l + 1,
         \A n \in 1 .. l :
           /\ stack'[t][n].key = stack[t][n].key /\ stack'[t][n].call = stack[t][n].call
           /\ Holds(stack'[t][n]) <=> Holds(stack[t][n])
           /\ stack'[t][n].pc = "target" /\ FrameInv(stack'[t][n]),
         stack'[t][l + 1].pc = "wrlock",
         calls' \in [Thread -> 0 .. MaxCalls],
         UNCHANGED <<table, lock, result, got, misuse>>
  PROVE  IInv'
<1>1. \A n : n \in 1 .. l + 1 <=> n \in 1 .. l \/ n = l + 1
  OBVIOUS
<1>2. \A u \in Thread : \A n \in DOMAIN stack[u] :
        /\ n \in DOMAIN stack'[u]
        /\ stack'[u][n].key = stack[u][n].key /\ stack'[u][n].call = stack[u][n].call
        /\ Holds(stack'[u][n]) <=> Holds(stack[u][n])
  BY <1>1
<1>3. Known \subseteq Known'
  BY <1>2, KnownKept
<1>4. TyInv'
  BY DEF IInv, TyInv
<1>5. TableInv'
  BY <1>3, TableKept DEF IInv
<1>6. StackInv'
  <2> SUFFICES ASSUME NEW u \in Thread, NEW n \in DOMAIN stack'[u]
               PROVE  \E h \in CallFrame :
                        h = stack'[u][n] /\ (h.pc = "target" <=> n # Len(stack'[u])) /\ FrameInv(h)'
    BY StackNext
  <2>1. stack'[u][n] \in CallFrame
    <3>1. stack'[u] \in Seq(CallFrame)
      OBVIOUS
    <3>2. \A w \in Seq(CallFrame) : \A m \in DOMAIN w : w[m] \in CallFrame
      OBVIOUS
    <3> QED BY ONLY <3>1, <3>2, n \in DOMAIN stack'[u]
  <2>2. (stack'[u][n].pc = "target" <=> n # Len(stack'[u])) /\ FrameInv(stack'[u][n])
    <3>1. CASE u # t
      BY <3>1 DEF IInv, StackInv
    <3>2. CASE u = t /\ n \in 1 .. l
      <4>1. n # l + 1
        BY ONLY <3>2, l \in Nat
      <4> QED BY <3>2, <4>1
    <3>3. CASE u = t /\ n = l + 1
      <4>1. stack'[u][n].pc = "wrlock"
        BY <3>3
      <4>2. FrameInv(stack'[u][n])
        BY ONLY <4>1 DEF FrameInv
      <4> QED BY <3>3, <4>1, <4>2
    <3> QED BY <1>1, <3>1, <3>2, <3>3
  <2>3. PICK h \in CallFrame : h = stack'[u][n]
    BY <2>1
  <2>4. FrameInv(h)'
    <3>1. FrameInv(h)
      BY ONLY <2>2, <2>3
    <3> QED BY <3>1, FrameKept
  <2> QED BY <2>2, <2>3, <2>4
<1>7. LockInv'
  <2>1. \A u \in Thread : \A n \in DOMAIN stack[u] : LockRow(stack'[u][n]) = LockRow(stack[u][n])
    BY <1>2, SameLockRow
  <2>2. \A u \in Thread : \A n \in DOMAIN stack'[u] : Holds(stack'[u][n]) => n \in DOMAIN stack[u]
    <3> TAKE u \in Thread
    <3> TAKE n \in DOMAIN stack'[u]
    <3> HAVE Holds(stack'[u][n])
    <3>1. CASE u = t /\ n = l + 1
      BY <3>1 DEF Holds
    <3>2. CASE ~(u = t /\ n = l + 1)
      BY <1>1, <3>2
    <3> QED BY <3>1, <3>2
  <2> QED BY ONLY <1>2, <2>1, <2>2, SameHolders, IInv, UNCHANGED <<lock, misuse>> DEF IInv
<1>8. GotInv'
  BY DEF IInv, GotInv, Has, Chain
<1> QED BY <1>4, <1>5, <1>6, <1>7, <1>8 DEF IInv

LEMMA CallKeeps ==
  ASSUME IInv, Closed, NEW t \in Thread, call(t)
  PROVE  IInv'
<1>1. PICK c \in CallOn(Typ), p \in Pad :
           /\ Frame(c, p) \in CallFrame
           /\ stack[t] = << >> /\ stack' = [stack EXCEPT ![t] = <<Frame(c, p)>>]
           /\ stack' \in [Thread -> Seq(CallFrame)]
           /\ \A u \in Thread : u # t => stack'[u] = stack[u]
           /\ Len(stack'[t]) = 1 /\ DOMAIN stack'[t] = {1} /\ stack'[t][1] = Frame(c, p)
  BY StackCalled DEF IInv
<1>2. DOMAIN stack[t] = 1 .. 0 /\ Len(stack[t]) = 0
  BY <1>1
<1>3. DOMAIN stack'[t] = 1 .. 0 + 1 /\ Len(stack'[t]) = 0 + 1 /\ stack'[t][0 + 1].pc = "wrlock"
  BY <1>1 DEF Frame
<1>4. calls' \in [Thread -> 0 .. MaxCalls] /\ UNCHANGED <<table, lock, result, got, misuse>>
  BY MaxCallsAssumption DEF IInv, TyInv, call
<1>5. 0 \in Nat /\ 1 .. 0 = {}
  OBVIOUS
<1> QED BY ONLY <1>1, <1>2, <1>3, <1>4, <1>5, IInv, BegunKeeps, t \in Thread

LEMMA MakeKeeps ==
  ASSUME IInv, Closed, NEW t \in Thread, make(t)
  PROVE  IInv'
<1> DEFINE l == Len(stack[t])
<1>1. stack[t] # << >> /\ Top(t).pc = "make" /\ UNCHANGED <<table, lock, calls, result, got, misuse>>
  BY MakeMoves DEF make, IInv
<1>2. l \in DOMAIN stack[t] /\ DOMAIN stack[t] = 1 .. l /\ l \in Nat /\ Top(t) = stack[t][l]
  BY <1>1, TopOf DEF IInv
<1>3. ~Has(Top(t).key)
  BY <1>1, <1>2 DEF IInv, StackInv, FrameInv
<1>4. CASE \E f \in CallFrame :
             /\ Moved(t, f)
             /\ f.key = Top(t).key /\ f.call = Top(t).call /\ f.pc = "link"
             /\ f.new.type = f.key /\ Describes(f.new, f.call)
  <2>1. PICK f \in CallFrame :
             /\ Moved(t, f)
             /\ f.key = Top(t).key /\ f.call = Top(t).call /\ f.pc = "link"
             /\ f.new.type = f.key /\ Describes(f.new, f.call)
    BY <1>4
  <2>2. FrameInv(f)
    BY <1>3, <2>1 DEF FrameInv
  <2>3. Holds(f) /\ Holds(Top(t)) /\ f.pc # "target"
    BY <1>1, <2>1 DEF Holds
  <2> QED BY <1>1, <2>1, <2>2, <2>3, MoveKeeps
<1>5. CASE \E f \in CallFrame, c \in CallOn(Typ), p \in Pad :
             /\ Entered(t, f, Frame(c, p)) /\ Frame(c, p) \in CallFrame
             /\ f.key = Top(t).key /\ f.call = Top(t).call /\ f.pc = "target"
             /\ f.call.fn = "mktypfromgenargs"
             /\ f.new.type = f.key /\ Describes(f.new, f.call)
  <2>1. PICK f \in CallFrame, c \in CallOn(Typ), p \in Pad :
             /\ Entered(t, f, Frame(c, p)) /\ Frame(c, p) \in CallFrame
             /\ f.key = Top(t).key /\ f.call = Top(t).call /\ f.pc = "target"
             /\ f.call.fn = "mktypfromgenargs"
             /\ f.new.type = f.key /\ Describes(f.new, f.call)
    BY <1>5
  <2>2. FrameInv(f)
    BY <1>3, <2>1 DEF FrameInv
  <2>3. Holds(f) /\ Holds(Top(t))
    BY <1>1, <2>1 DEF Holds
  <2>4. /\ stack' \in [Thread -> Seq(CallFrame)]
        /\ \A u \in Thread : u # t => stack'[u] = stack[u]
        /\ Len(stack'[t]) = l + 1 /\ DOMAIN stack'[t] = 1 .. l + 1
        /\ stack'[t][l + 1] = Frame(c, p)
        /\ stack'[t][l] = f
        /\ \A n \in DOMAIN stack[t] : n # l => stack'[t][n] = stack[t][n]
    BY <1>1, <2>1, StackEntered DEF IInv
  <2>5. \A n \in DOMAIN stack[t] : n # l => stack[t][n].pc = "target" /\ FrameInv(stack[t][n])
    BY DEF IInv, StackInv
  <2> HIDE DEF l
  <2>6. \A n \in 1 .. l :
          /\ stack'[t][n].key = stack[t][n].key /\ stack'[t][n].call = stack[t][n].call
          /\ Holds(stack'[t][n]) <=> Holds(stack[t][n])
          /\ stack'[t][n].pc = "target" /\ FrameInv(stack'[t][n])
    <3> TAKE n \in 1 .. l
    <3>1. CASE n = l
      BY ONLY <1>2, <2>1, <2>2, <2>3, <2>4, <3>1
    <3>2. CASE n # l
      BY ONLY <1>2, <2>4, <2>5, <3>2, n \in 1 .. l
    <3> QED BY <3>1, <3>2
  <2>7. stack'[t][l + 1].pc = "wrlock" /\ Len(stack[t]) = l
    BY <2>4 DEF Frame, l
  <2>8. calls' \in [Thread -> 0 .. MaxCalls]
    BY <1>1 DEF IInv, TyInv
  <2> QED BY ONLY <1>1, <1>2, <2>4, <2>6, <2>7, <2>8, IInv, BegunKeeps, t \in Thread
<1> QED BY <1>4, <1>5, MakeMoves DEF IInv

LEMMA NoneKeeps ==
  ASSUME IInv, Closed, NEW t \in Thread, find_none(t)
  PROVE  IInv'
<1> DEFINE f == Topped(t, "make")
<1>1. stack[t] # << >> /\ Top(t).pc = "find" /\ UNCHANGED <<table, lock, calls, result, got, misuse>>
  BY DEF find_none, At
<1>2. Moved(t, f) /\ f \in CallFrame
  BY <1>1, GotoMoves DEF IInv, find_none, Label
<1>3. Top(t) \in CallFrame /\ Top(t).key \in Typ
  BY <1>1, TopOf DEF IInv, CallFrame
<1>4. f.key = Top(t).key /\ f.call = Top(t).call /\ f.pc = "make"
  BY <1>3 DEF Topped, CallFrame
<1>5. ~Has(Top(t).key)
  BY <1>3, FoundEntry DEF IInv, find_none
<1> HIDE DEF f
<1>6. FrameInv(f) /\ Holds(f) /\ Holds(Top(t))
  BY <1>1, <1>4, <1>5 DEF FrameInv, Holds
<1> QED BY <1>1, <1>2, <1>4, <1>6, MoveKeeps

LEMMA LinkKeeps ==
  ASSUME IInv, NEW t \in Thread, add_link(t)
  PROVE  IInv'
<1> DEFINE f == Linked(t)
<1>1. stack[t] # << >> /\ Top(t).pc = "link" /\ Moved(t, f) /\ f \in CallFrame
  BY LinkMoves DEF IInv
<1>2. Top(t) \in CallFrame /\ Len(stack[t]) \in DOMAIN stack[t] /\ Top(t) = stack[t][Len(stack[t])]
  BY <1>1, TopOf DEF IInv
<1>3. /\ f.key = Top(t).key /\ f.call = Top(t).call /\ f.new = Top(t).new
      /\ f.pc = "publish" /\ f.next = Chain(RowOf(Top(t).key))
  BY <1>2 DEF Linked, CallFrame
<1>4. FrameInv(Top(t))
  BY <1>2 DEF IInv, StackInv
<1>5. UNCHANGED <<table, lock, calls, result, got, misuse>>
  BY DEF add_link
<1> HIDE DEF f
<1>6. FrameInv(f) /\ Holds(f) /\ Holds(Top(t))
  BY <1>1, <1>3, <1>4 DEF FrameInv, Holds
<1> QED BY <1>1, <1>3, <1>5, <1>6, MoveKeeps

-----------------------------------------------------------------------------
(* Adding to a row *)

\* An element in front of a sequence.
LEMMA Prefixed ==
  \A e \in Entry : \A s \in Seq(Entry) :
    LET w == <<e>> \o s
    IN  /\ w \in Seq(Entry)
        /\ \A n : n \in DOMAIN w <=> n = 1 \/ (n - 1 \in DOMAIN s /\ n \in Nat)
        /\ w[1] = e
        /\ \A n \in DOMAIN s : w[n + 1] = s[n] /\ n + 1 \in DOMAIN w
        /\ \A n \in DOMAIN w : n # 1 => w[n] = s[n - 1] /\ n - 1 \in DOMAIN s /\ n \in Nat
<1> SUFFICES ASSUME NEW e \in Entry, NEW s \in Seq(Entry)
             PROVE  LET w == <<e>> \o s
                    IN  /\ w \in Seq(Entry)
                        /\ \A n : n \in DOMAIN w <=> n = 1 \/ (n - 1 \in DOMAIN s /\ n \in Nat)
                        /\ w[1] = e
                        /\ \A n \in DOMAIN s : w[n + 1] = s[n] /\ n + 1 \in DOMAIN w
                        /\ \A n \in DOMAIN w : n # 1 => w[n] = s[n - 1] /\ n - 1 \in DOMAIN s /\ n \in Nat
  OBVIOUS
<1> DEFINE w == <<e>> \o s
           l == Len(s)
<1>1. l \in Nat /\ DOMAIN s = 1 .. l
  OBVIOUS
<1>2. /\ w \in Seq(Entry) /\ DOMAIN w = 1 .. l + 1
      /\ \A n \in 1 .. l + 1 : w[n] = IF n <= 1 THEN e ELSE s[n - 1]
  <2>1. <<e>> \in Seq(Entry) /\ Len(<<e>>) = 1 /\ <<e>>[1] = e
    OBVIOUS
  <2>2. w \in Seq(Entry) /\ Len(w) = l + 1
    BY <2>1
  <2>3. DOMAIN w = 1 .. l + 1
    BY <2>2
  <2>4. \A n \in 1 .. l + 1 : w[n] = IF n <= 1 THEN <<e>>[n] ELSE s[n - 1]
    BY <2>1
  <2>5. \A n \in 1 .. l + 1 : n <= 1 => n = 1
    BY <1>1
  <2> HIDE DEF w, l
  <2> QED BY ONLY <2>1, <2>2, <2>3, <2>4, <2>5
<1> HIDE DEF w, l
<1>3. \A n : n \in 1 .. l + 1 <=> n = 1 \/ (n - 1 \in 1 .. l /\ n \in Nat)
  BY ONLY <1>1
<1>4. \A n \in 1 .. l : n + 1 \in 1 .. l + 1 /\ ~(n + 1 <= 1) /\ n + 1 - 1 = n
  BY ONLY <1>1
<1>5. \A n \in 1 .. l + 1 : n # 1 => ~(n <= 1) /\ n - 1 \in 1 .. l /\ n \in Nat
  BY ONLY <1>1
<1>6. \A n \in 1 .. l : w[n + 1] = s[n]
  BY ONLY <1>2, <1>4
<1>7. w[1] = e
  BY ONLY <1>1, <1>2
<1> QED BY ONLY <1>1, <1>2, <1>3, <1>4, <1>5, <1>6, <1>7 DEF w

LEMMA PublishKeeps ==
  ASSUME IInv, Closed, RowsApart, NestedApart, NEW t \in Thread, add_publish(t)
  PROVE  IInv'
<1> DEFINE l == Len(stack[t])
           k == Top(t).key
           r == RowOf(k)
           new == Top(t).new
           f == Topped(t, "unlock")
<1>1. stack[t] # << >> /\ Top(t).pc = "publish" /\ UNCHANGED <<lock, calls, result, got, misuse>>
  BY DEF add_publish, At
<1>2. /\ l \in DOMAIN stack[t] /\ Top(t) = stack[t][l] /\ Top(t) \in CallFrame
      /\ k \in Typ /\ new \in Entry
  BY <1>1, TopOf DEF IInv, CallFrame
<1>3. FrameInv(Top(t))
  BY <1>2 DEF IInv, StackInv
<1>4. new.type = k /\ Describes(new, Top(t).call) /\ Top(t).next = Chain(r) /\ ~Has(k)
  BY <1>1, <1>3 DEF FrameInv
<1>5. Moved(t, f) /\ f \in CallFrame
  BY <1>1, GotoMoves DEF IInv, add_publish, Label
<1>6. f.key = k /\ f.call = Top(t).call /\ f.pc = "unlock"
  BY <1>2 DEF Topped, CallFrame
<1>7. /\ stack' \in [Thread -> Seq(CallFrame)]
      /\ \A u \in Thread : u # t => stack'[u] = stack[u]
      /\ Len(stack'[t]) = Len(stack[t]) /\ DOMAIN stack'[t] = DOMAIN stack[t]
      /\ stack'[t][l] = f
      /\ \A n \in DOMAIN stack[t] : n # l => stack'[t][n] = stack[t][n]
  BY <1>1, <1>5, StackMoved DEF IInv
<1> DEFINE w == <<new>> \o Chain(r)
<1>8. table' = [s \in DOMAIN table \cup {r} |-> IF s = r THEN w ELSE table[s]]
  BY <1>4 DEF add_publish
<1>9. /\ w \in Seq(Entry)
      /\ \A n : n \in DOMAIN w <=> n = 1 \/ (n - 1 \in DOMAIN Chain(r) /\ n \in Nat)
      /\ w[1] = new
      /\ \A n \in DOMAIN Chain(r) : w[n + 1] = Chain(r)[n] /\ n + 1 \in DOMAIN w
      /\ \A n \in DOMAIN w : n # 1 => w[n] = Chain(r)[n - 1] /\ n - 1 \in DOMAIN Chain(r) /\ n \in Nat
  <2>1. Chain(r) \in Seq(Entry)
    BY ChainType DEF IInv
  <2> HIDE DEF new, r
  <2> QED BY ONLY <1>2, <2>1, Prefixed
<1> HIDE DEF w, f, l, k, r, new
<1>10. \A s : Chain(s)' = IF s = r THEN w ELSE Chain(s)
  BY <1>8 DEF Chain
<1>11. RowOf(k) = r
  BY DEF r
<1>12. \A j : Has(j)' <=> (Has(j) \/ j = k)
  <2> TAKE j
  <2>1. CASE RowOf(j) # r
    BY <1>10, <1>11, <2>1 DEF Has
  <2>2. CASE RowOf(j) = r
    <3>1. Has(j)' <=> \E n \in DOMAIN w : w[n].type = j
      BY <1>10, <2>2 DEF Has
    <3>2. Has(j) <=> \E n \in DOMAIN Chain(r) : Chain(r)[n].type = j
      BY <2>2 DEF Has
    <3>3. 1 \in DOMAIN w
      BY <1>9
    <3>4. (\E n \in DOMAIN w : w[n].type = j) <=> (j = k \/ \E n \in DOMAIN Chain(r) : Chain(r)[n].type = j)
      BY ONLY <1>4, <1>9, <3>3
    <3> QED BY <3>1, <3>2, <3>4
  <2> QED BY <2>1, <2>2
<1>13. TyInv'
  <2>1. table' \in [DOMAIN table' -> Seq(Entry)]
    BY <1>8, <1>9 DEF IInv, TyInv
  <2> QED BY <1>1, <1>7, <2>1 DEF IInv, TyInv
<1>14. \A u \in Thread : \A n \in DOMAIN stack[u] :
        /\ n \in DOMAIN stack'[u]
        /\ stack'[u][n].key = stack[u][n].key /\ stack'[u][n].call = stack[u][n].call
        /\ Holds(stack'[u][n]) <=> Holds(stack[u][n])
  <2>1. Holds(Top(t)) /\ Holds(f) /\ f.key = Top(t).key
    BY <1>1, <1>6 DEF Holds, k
  <2> QED BY <1>2, <1>6, <1>7, <2>1
<1>15. \A u \in Thread : DOMAIN stack'[u] = DOMAIN stack[u] /\ Len(stack'[u]) = Len(stack[u])
  BY <1>7
<1>16. Known \subseteq Known'
  BY <1>1, <1>14, KnownKept
<1>17. TableInv'
  <2>1. \A e : Made(e) => Made(e)'
    BY <1>16, MadeKept
  <2>2. \E e : e = new /\ Made(e)'
    <3> DEFINE a == <<k, Top(t).call>>
    <3>1. a \in Known /\ a[1] = k /\ a[2] = Top(t).call
      BY <1>2, FrameType DEF IInv, Known, k
    <3> HIDE DEF a
    <3>2. Made(new)
      BY <1>4, <3>1 DEF Made
    <3> QED BY ONLY <2>1, <3>2
  <2>3. \A n \in DOMAIN Chain(r) :
          /\ Chain(r)[n].type # NoTyp /\ RowOf(Chain(r)[n].type) = r /\ Made(Chain(r)[n])
          /\ Chain(r)[n].type # k
          /\ \A m \in DOMAIN Chain(r) : Chain(r)[m].type = Chain(r)[n].type => m = n
    <3>1. \A n \in DOMAIN Chain(r) : Chain(r)[n].type # k
      BY <1>4, <1>11 DEF Has
    <3>2. r \notin DOMAIN table => DOMAIN Chain(r) = {}
      BY DEF Chain
    <3>3. r \in DOMAIN table => Chain(r) = table[r]
      BY DEF Chain
    <3> QED BY ONLY <3>1, <3>2, <3>3, IInv DEF IInv, TableInv
  <2>4. k # NoTyp
    BY <1>2 DEF Closed
  <2>5. \A n \in DOMAIN w :
          /\ w[n].type # NoTyp /\ RowOf(w[n].type) = r
          /\ w[n] = new \/ Made(w[n])
          /\ \A m \in DOMAIN w : w[m].type = w[n].type => m = n
    <3> TAKE n \in DOMAIN w
    <3>1. /\ w[n].type # NoTyp /\ RowOf(w[n].type) = r /\ (w[n] = new \/ Made(w[n]))
      BY ONLY <1>4, <1>9, <1>11, <2>3, <2>4, n \in DOMAIN w
    <3>2. ASSUME NEW m \in DOMAIN w, w[m].type = w[n].type
          PROVE  m = n
      <4>1. CASE m = 1 \/ n = 1
        BY ONLY <1>4, <1>9, <2>3, <3>2, <4>1, n \in DOMAIN w
      <4>2. CASE m # 1 /\ n # 1
        <5>1. /\ m - 1 \in DOMAIN Chain(r) /\ n - 1 \in DOMAIN Chain(r) /\ m \in Nat /\ n \in Nat
              /\ Chain(r)[m - 1].type = Chain(r)[n - 1].type
          BY ONLY <1>9, <3>2, <4>2, n \in DOMAIN w
        <5>2. m - 1 = n - 1
          BY ONLY <2>3, <5>1
        <5> QED BY ONLY <5>1, <5>2
      <4> QED BY <4>1, <4>2
    <3> QED BY <3>1, <3>2
  <2>6. \A s \in DOMAIN table' : table'[s] = IF s = r THEN w ELSE table[s]
    BY <1>8
  <2>7. \A s \in DOMAIN table' : s # r => s \in DOMAIN table
    BY <1>8
  <2>8. \A s \in DOMAIN table' : \A n \in DOMAIN table'[s] :
          /\ table'[s][n].type # NoTyp /\ RowOf(table'[s][n].type) = s
          /\ table'[s][n] = new \/ Made(table'[s][n])
          /\ \A m \in DOMAIN table'[s] : table'[s][m].type = table'[s][n].type => m = n
    BY ONLY <2>5, <2>6, <2>7, IInv DEF IInv, TableInv
  <2>9. \A s \in DOMAIN table : \A n \in DOMAIN table[s] : Made(table[s][n])
    BY DEF IInv, TableInv
  <2>10. \A n \in DOMAIN w : \E e : e = w[n] /\ Made(e)'
    BY ONLY <2>1, <2>2, <2>5
  <2>11. \A s \in DOMAIN table' : \A n \in DOMAIN table'[s] : \E e : e = table'[s][n] /\ Made(e)'
    BY ONLY <2>1, <2>6, <2>7, <2>9, <2>10
  <2>12. \A s \in DOMAIN table' : \A n \in DOMAIN table'[s] : (Made(table[s][n]))'
    BY ONLY <2>11 DEF Made
  <2> QED BY ONLY <2>8, <2>12 DEF TableInv
<1>18. StackInv'
  <2> SUFFICES ASSUME NEW u \in Thread, NEW n \in DOMAIN stack'[u]
               PROVE  \E h \in CallFrame :
                        h = stack'[u][n] /\ (h.pc = "target" <=> n # Len(stack'[u])) /\ FrameInv(h)'
    BY StackNext
  <2>1. n \in DOMAIN stack[u] /\ stack[u][n] \in CallFrame
    BY <1>15, FrameType DEF IInv
  <2>2. CASE u = t /\ n = l
    <3>1. PICK h \in CallFrame : h = f
      BY <1>5
    <3>2. FrameInv(h)'
      BY <1>6, <1>12, <3>1 DEF FrameInv
    <3>3. n = Len(stack'[u]) /\ stack'[u][n] = h
      BY <1>7, <2>2, <3>1 DEF l
    <3> QED BY ONLY <1>6, <3>1, <3>2, <3>3
  <2>3. CASE ~(u = t /\ n = l)
    <3>1. stack'[u][n] = stack[u][n]
      BY ONLY <1>7, <2>1, <2>3
    <3>2. PICK h \in CallFrame : h = stack[u][n]
      BY <2>1
    <3>3. (h.pc = "target" <=> n # Len(stack[u])) /\ FrameInv(h)
      BY <2>1, <3>2 DEF IInv, StackInv
    <3>4. Holds(h) => RowOf(h.key) # r
      <4>1. Holds(stack[t][l]) /\ RowOf(stack[t][l].key) = r
        BY <1>1, <1>2 DEF Holds, r, k
      <4> QED BY <1>2, <2>1, <2>3, <3>2, <4>1, Exclusive DEF IInv
    <3>5. Holds(h) => h.key # k
      BY <1>11, <3>4
    <3>6. FrameInv(h)'
      <4>1. h.pc = "publish" => Holds(h)
        BY DEF Holds
      <4>2. h.pc \in {"make", "target", "link", "publish"} => Holds(h)
        BY DEF Holds
      <4>3. h.pc = "publish" => h.next = Chain(RowOf(h.key))'
        BY <1>10, <3>3, <3>4, <4>1 DEF FrameInv
      <4>4. h.pc \in {"make", "target", "link", "publish"} => ~Has(h.key)'
        BY <1>12, <3>3, <3>5, <4>2 DEF FrameInv
      <4>5. h.pc = "unlock" => Has(h.key)'
        BY <1>12, <3>3 DEF FrameInv
      <4>6. /\ h.pc = "target" => h.call.fn = "mktypfromgenargs"
            /\ h.pc \in {"target", "link", "publish"} => h.new.type = h.key /\ Describes(h.new, h.call)
        BY <3>3 DEF FrameInv
      <4> QED BY ONLY <4>3, <4>4, <4>5, <4>6 DEF FrameInv
    <3> QED BY <1>15, <3>1, <3>2, <3>3, <3>6
  <2> QED BY <2>2, <2>3
<1>19. LockInv'
  <2>1. \A u \in Thread : \A n \in DOMAIN stack[u] : LockRow(stack'[u][n]) = LockRow(stack[u][n])
    BY <1>14, SameLockRow
  <2> QED BY ONLY <1>1, <1>14, <1>15, <2>1, SameHolders, IInv DEF IInv
<1>20. GotInv'
  BY <1>1, <1>12 DEF IInv, GotInv
<1> QED BY <1>13, <1>17, <1>18, <1>19, <1>20 DEF IInv

-----------------------------------------------------------------------------
(* The theorem *)

LEMMA SetToSeqFinite ==
  ASSUME NEW S, IsFiniteSet(S)
  PROVE  /\ SetToSeq(S) \in [1 .. Cardinality(S) -> S] /\ Cardinality(S) \in Nat
         /\ \A m, n \in 1 .. Cardinality(S) : SetToSeq(S)[m] = SetToSeq(S)[n] => m = n
<1>1. Cardinality(S) \in Nat
  BY FS_CardinalityType
<1>2. ExistsBijection(1 .. Cardinality(S), S)
  BY FS_CardinalityType, FS_NatBijection
<1>3. PICK f \in [1 .. Cardinality(S) -> S] : \A m, n \in 1 .. Cardinality(S) : f[m] = f[n] => m = n
  BY <1>2 DEF ExistsBijection, Bijection, Injection, IsInjective
<1>4. IsInjective(f)
  BY <1>3 DEF IsInjective
<1>5. SetToSeq(S) \in [1 .. Cardinality(S) -> S] /\ IsInjective(SetToSeq(S))
  BY <1>4 DEF SetToSeq
<1> QED BY <1>1, <1>5 DEF IsInjective

\* The rows that cstrider_type_init fills.
LEMMA InitRows ==
  ASSUME Closed, TypesInit, NEW r \in DOMAIN table
  PROVE  /\ table[r] \in Seq(Entry)
         /\ \A n \in DOMAIN table[r] :
              /\ table[r][n].type \in BaseTyp /\ RowOf(table[r][n].type) = r
              /\ table[r][n] = Base(table[r][n].type)
              /\ \A m \in DOMAIN table[r] : table[r][m].type = table[r][n].type => m = n
         /\ \A b \in BaseTyp : RowOf(b) = r => \E n \in DOMAIN table[r] : table[r][n] = Base(b)
<1> DEFINE T == {c \in BaseTyp : RowOf(c) = r}
           S == {Base(b) : b \in T}
           N == 1 .. Cardinality(S)
<1>1. \A b \in BaseTyp : Base(b) \in Entry /\ Base(b).type = b
  BY TargetAssumption DEF Closed, Base, Entry, TypOrNone
<1>2. IsFiniteSet(S)
  <2>1. IsFiniteSet(T)
    BY BaseAssumption, FS_Subset
  <2> DEFINE f == [b \in T |-> Base(b)]
  <2>2. f \in Surjection(T, S)
    BY DEF Surjection
  <2> HIDE DEF S, f
  <2> QED BY <2>1, <2>2, FS_Surjection
<1>3. table[r] = SetToSeq(S)
  BY DEF TypesInit
<1>4. \A e \in S : e \in Entry /\ e.type \in BaseTyp /\ RowOf(e.type) = r /\ e = Base(e.type)
  BY <1>1
<1>5. \A b \in BaseTyp : RowOf(b) = r => Base(b) \in S
  OBVIOUS
<1> HIDE DEF S
<1>6. /\ table[r] \in [N -> S] /\ Cardinality(S) \in Nat
      /\ \A m, n \in N : table[r][m] = table[r][n] => m = n
  BY <1>2, <1>3, SetToSeqFinite
<1>7. table[r] \in Seq(Entry) /\ DOMAIN table[r] = N
  BY <1>4, <1>6
<1>8. \A m, n \in DOMAIN table[r] : table[r][m].type = table[r][n].type => table[r][m] = table[r][n]
  BY <1>4, <1>6, <1>7
<1>9. \A e \in S : \E n \in N : table[r][n] = e
  <2>1. Cardinality(N) = Cardinality(S)
    BY <1>6, FS_Interval
  <2> DEFINE f == table[r]
  <2>2. f \in Injection(N, S)
    BY <1>6 DEF Injection, IsInjective
  <2> HIDE DEF f, N
  <2>3. f \in Surjection(N, S)
    BY <1>2, <2>1, <2>2, FS_Injection
  <2> QED BY <2>3 DEF Surjection, f
<1> HIDE DEF N
<1> QED BY <1>4, <1>5, <1>6, <1>7, <1>8, <1>9

LEMMA InitIInv ==
  ASSUME Closed, TypesInit
  PROVE  IInv
<1>1. \A b \in BaseTyp : b # NoTyp
  BY DEF Closed
<1>2. ASSUME NEW r \in DOMAIN table
      PROVE  /\ table[r] \in Seq(Entry)
             /\ \A n \in DOMAIN table[r] :
                  /\ table[r][n].type \in BaseTyp /\ RowOf(table[r][n].type) = r
                  /\ \A m \in DOMAIN table[r] : table[r][m].type = table[r][n].type => m = n
  BY InitRows
<1>3. table = [r \in DOMAIN table |-> table[r]]
  BY DEF TypesInit
<1>4. TyInv
  <2>1. table \in [DOMAIN table -> Seq(Entry)]
    BY ONLY <1>2, <1>3
  <2>2. << >> \in Seq(CallFrame)
    OBVIOUS
  <2>3. stack \in [Thread -> Seq(CallFrame)]
    BY ONLY <2>2, TypesInit DEF TypesInit
  <2>4. calls \in [Thread -> 0 .. MaxCalls]
    BY ONLY MaxCallsAssumption, TypesInit DEF TypesInit
  <2>5. result \in [Thread -> TypOrNone] /\ got = {}
    BY ONLY TypesInit DEF TypesInit, TypOrNone
  <2> QED BY ONLY <2>1, <2>3, <2>4, <2>5 DEF TyInv
<1>5. TableInv
  BY ONLY <1>1, <1>2 DEF TableInv, Made
<1>6. StackInv /\ LockInv /\ GotInv
  BY DEF TypesInit, StackInv, LockInv, GotInv
<1> QED BY <1>4, <1>5, <1>6 DEF IInv

LEMMA NextIInv ==
  ASSUME IInv, Closed, ~Collided, RowsApart, NestedApart, [TypesNext]_typesvars
  PROVE  IInv'
<1>1. ASSUME NEW t \in Thread, call(t)
      PROVE  IInv'
  BY <1>1, CallKeeps
<1>2. ASSUME NEW t \in Thread, XHASH_WRLOCK_RESV(t)
      PROVE  IInv'
  BY <1>2, WrlockKeeps
<1>3. ASSUME NEW t \in Thread, find_existing(t)
      PROVE  IInv'
  BY <1>3, ExistingReturns, ReturnKeeps
<1>4. ASSUME NEW t \in Thread, find_none(t)
      PROVE  IInv'
  BY <1>4, NoneKeeps
<1>5. ASSUME NEW t \in Thread, make(t)
      PROVE  IInv'
  BY <1>5, MakeKeeps
<1>6. ASSUME NEW t \in Thread, add_link(t)
      PROVE  IInv'
  BY <1>6, LinkKeeps
<1>7. ASSUME NEW t \in Thread, add_publish(t)
      PROVE  IInv'
  BY <1>7, PublishKeeps
<1>8. ASSUME NEW t \in Thread, XHASH_UNLOCK_RESV(t)
      PROVE  IInv'
  <2>1. stack[t] # << >> /\ Top(t).pc = "unlock"
    BY <1>8 DEF XHASH_UNLOCK_RESV, At
  <2>2. Has(Top(t).key)
    BY <2>1, TopOf DEF IInv, StackInv, FrameInv
  <2>3. Holds(Top(t))
    BY <2>1 DEF Holds
  <2> QED BY <1>8, <2>1, <2>2, <2>3, ReturnKeeps DEF XHASH_UNLOCK_RESV
<1>9. ASSUME UNCHANGED typesvars
      PROVE  IInv'
  BY <1>9 DEF typesvars, IInv, TyInv, TableInv, StackInv, LockInv, GotInv, FrameInv, Has, Chain, Made, Known,
              Frames
<1> QED BY <1>1, <1>2, <1>3, <1>4, <1>5, <1>6, <1>7, <1>8, <1>9 DEF TypesNext, ThreadStep

LEMMA FoundThere ==
  ASSUME IInv, Closed, ~Collided
  PROVE  ReturnedTypeFound
<1> SUFFICES ASSUME NEW g \in got
             PROVE  Describes(Find(g.type), g.call)
  BY DEF ReturnedTypeFound
<1>1. g.type \in Typ /\ Has(g.type)
  BY DEF IInv, TyInv, GotInv
<1>2. Find(g.type).type = g.type /\ Made(Find(g.type))
  BY <1>1, FoundEntry DEF IInv
<1> DEFINE e == Find(g.type)
           a == <<g.type, g.call>>
<1>3. a \in Known /\ a[1] = e.type /\ a[2] = g.call
  BY <1>2 DEF Known
<1> HIDE DEF e, a
<1>4. Describes(e, a[2])
  BY <1>2, <1>3, OwnEntry DEF e
<1> QED BY <1>3, <1>4 DEF e

LEMMA OnceAndBalanced ==
  ASSUME IInv
  PROVE  KeysUnique /\ LocksBalanced
<1>1. KeysUnique
  BY DEF KeysUnique, IInv, TableInv
<1>2. LocksBalanced
  <2> SUFFICES ASSUME NEW t \in Thread, stack[t] = << >>, NEW h \in lock
               PROVE  h[2] # t
    BY DEF LocksBalanced, IInv, LockInv
  <2>1. PICK u \in Thread : \E n \in DOMAIN stack[u] : Holds(stack[u][n]) /\ h = <<LockRow(stack[u][n]), u>>
    BY DEF IInv, LockInv
  <2>2. h[2] = u
    BY <2>1
  <2>3. u # t
    BY <2>1
  <2> QED BY <2>2, <2>3
<1> QED BY <1>1, <1>2



-----------------------------------------------------------------------------
(* What holds whatever the threads do *)

\* An entry is a generated one, or has the key of a call.
Real(e, K) == (\E b \in BaseTyp : e = Base(b)) \/ \E a \in K : a[1] = e.type

\* A row has its generated types, and nothing that belongs in another row.
RowOK(r, s, K) ==
  /\ \A n \in DOMAIN s : Real(s[n], K) /\ RowOf(s[n].type) = r
  /\ \A b \in BaseTyp : RowOf(b) = r => \E n \in DOMAIN s : s[n] = Base(b)

\* A call adds its own entry, in front of what the row was at some time.
CallOK(f, K) ==
  /\ f.pc \in {"target", "link", "publish"} => f.new.type = f.key
  /\ f.pc = "publish" => RowOK(RowOf(f.key), f.next, K)

StackOK ==
  \A t \in Thread : \A n \in DOMAIN stack[t] :
    (stack[t][n].pc = "target" <=> n # Len(stack[t])) /\ CallOK(stack[t][n], Known)

RowsInv ==
  /\ TyInv
  /\ \A r \in DOMAIN table : RowOK(r, table[r], Known)
  /\ \A b \in BaseTyp : RowOf(b) \in DOMAIN table
  /\ StackOK
  /\ (\A h \in lock : h[2] \in Thread) /\ misuse \in BOOLEAN

\* What a step does to the calls.
StackStep ==
  /\ stack' \in [Thread -> Seq(CallFrame)]
  /\ Known \subseteq Known'
  /\ \A u \in Thread : \A n \in DOMAIN stack'[u] : \E h \in CallFrame :
       h = stack'[u][n] /\ (h.pc = "target" <=> n # Len(stack'[u])) /\ CallOK(h, Known)

LEMMA ChainOK ==
  ASSUME RowsInv, NEW r
  PROVE  RowOK(r, Chain(r), Known)
<1>1. CASE r \in DOMAIN table
  BY <1>1 DEF RowsInv, Chain
<1>2. CASE r \notin DOMAIN table
  <2>1. Chain(r) = << >> /\ DOMAIN << >> = {}
    BY <1>2 DEF Chain
  <2>2. \A b \in BaseTyp : RowOf(b) # r
    BY <1>2 DEF RowsInv
  <2> QED BY <2>1, <2>2 DEF RowOK
<1> QED BY <1>1, <1>2

\* The innermost call goes on.
LEMMA MovedOK ==
  ASSUME RowsInv, NEW t \in Thread, stack[t] # << >>, NEW f \in CallFrame, Moved(t, f),
         f.key = Top(t).key, f.call = Top(t).call, f.pc # "target", CallOK(f, Known), UNCHANGED got
  PROVE  StackStep
<1> DEFINE l == Len(stack[t])
<1>1. /\ stack' \in [Thread -> Seq(CallFrame)]
      /\ \A u \in Thread : u # t => stack'[u] = stack[u]
      /\ Len(stack'[t]) = l /\ DOMAIN stack'[t] = DOMAIN stack[t]
      /\ stack'[t][l] = f
      /\ \A n \in DOMAIN stack[t] : n # l => stack'[t][n] = stack[t][n]
  BY StackMoved DEF RowsInv
<1>2. l \in DOMAIN stack[t] /\ Top(t) = stack[t][l]
  BY TopOf DEF RowsInv
<1>3. \A u \in Thread : DOMAIN stack'[u] = DOMAIN stack[u] /\ Len(stack'[u]) = Len(stack[u])
  BY <1>1
<1>4. Known \subseteq Known'
  <2>1. \A u \in Thread : \A n \in DOMAIN stack[u] :
          stack'[u][n].key = stack[u][n].key /\ stack'[u][n].call = stack[u][n].call
    BY <1>1, <1>2
  <2> QED BY <1>3, <2>1, KnownKept
<1>5. ASSUME NEW u \in Thread, NEW n \in DOMAIN stack'[u]
      PROVE  \E h \in CallFrame : h = stack'[u][n] /\ (h.pc = "target" <=> n # Len(stack'[u])) /\ CallOK(h, Known)
  <2>1. CASE u = t /\ n = l
    BY <1>1, <2>1
  <2>2. CASE ~(u = t /\ n = l)
    <3>1. n \in DOMAIN stack[u] /\ stack'[u][n] = stack[u][n]
      BY <1>1, <1>3, <2>2
    <3>2. stack[u][n] \in CallFrame
      BY <3>1, FrameType DEF RowsInv
    <3> QED BY <1>3, <3>1, <3>2 DEF RowsInv, StackOK
  <2> QED BY <2>1, <2>2
<1> QED BY <1>1, <1>4, <1>5 DEF StackStep

\* A call begins, on an empty stack or within the innermost call of t.
LEMMA BegunOK ==
  ASSUME RowsInv, NEW t \in Thread, stack' \in [Thread -> Seq(CallFrame)],
         \A u \in Thread : u # t => stack'[u] = stack[u],
         NEW l \in Nat, DOMAIN stack[t] = 1 .. l, DOMAIN stack'[t] = 1 .. l + 1, Len(stack'[t]) = l + 1,
         \A n \in 1 .. l :
           /\ stack'[t][n].key = stack[t][n].key /\ stack'[t][n].call = stack[t][n].call
           /\ stack'[t][n].pc = "target" /\ CallOK(stack'[t][n], Known),
         stack'[t][l + 1].pc = "wrlock", UNCHANGED got
  PROVE  StackStep
<1>1. \A n : n \in 1 .. l + 1 <=> n \in 1 .. l \/ n = l + 1
  OBVIOUS
<1>2. Known \subseteq Known'
  <2>1. \A u \in Thread : \A n \in DOMAIN stack[u] :
          /\ n \in DOMAIN stack'[u]
          /\ stack'[u][n].key = stack[u][n].key /\ stack'[u][n].call = stack[u][n].call
    BY <1>1
  <2> QED BY <2>1, KnownKept
<1>3. ASSUME NEW u \in Thread, NEW n \in DOMAIN stack'[u]
      PROVE  \E h \in CallFrame : h = stack'[u][n] /\ (h.pc = "target" <=> n # Len(stack'[u])) /\ CallOK(h, Known)
  <2>1. stack'[u][n] \in CallFrame
    <3>1. stack'[u] \in Seq(CallFrame)
      OBVIOUS
    <3>2. \A w \in Seq(CallFrame) : \A m \in DOMAIN w : w[m] \in CallFrame
      OBVIOUS
    <3> QED BY ONLY <3>1, <3>2, n \in DOMAIN stack'[u]
  <2>2. CASE u # t
    BY <2>1, <2>2 DEF RowsInv, StackOK
  <2>3. CASE u = t /\ n \in 1 .. l
    <3>1. n # l + 1
      BY ONLY <2>3, l \in Nat
    <3> QED BY <2>1, <2>3, <3>1
  <2>4. CASE u = t /\ n = l + 1
    <3>1. CallOK(stack'[u][n], Known)
      BY <2>4 DEF CallOK
    <3> QED BY <2>1, <2>4, <3>1
  <2> QED BY <1>1, <2>2, <2>3, <2>4
<1> QED BY <1>2, <1>3 DEF StackStep

\* The innermost call returns.
LEMMA ReturnedOK ==
  ASSUME RowsInv, NEW t \in Thread, stack[t] # << >>, Return(t, Top(t).key)
  PROVE  /\ StackStep
         /\ result' \in [Thread -> TypOrNone] /\ got' \subseteq [call : CallOn(Typ), type : Typ]
<1> DEFINE l == Len(stack[t])
           k == Top(t).key
           g == [call |-> Top(t).call, type |-> k]
<1>1. /\ l \in DOMAIN stack[t] /\ DOMAIN stack[t] = 1 .. l /\ l \in Nat /\ l >= 1
      /\ Top(t) = stack[t][l] /\ Top(t) \in CallFrame /\ k \in Typ /\ Top(t).call \in CallOn(Typ)
  BY TopOf DEF RowsInv, CallFrame
<1>2. got' = got \cup {g}
  BY DEF Return
<1>3. g \in [call : CallOn(Typ), type : Typ] /\ g.call = Top(t).call /\ g.type = k
  BY <1>1
<1>4. /\ stack' \in [Thread -> Seq(CallFrame)]
      /\ \A u \in Thread : u # t => stack'[u] = stack[u]
      /\ Len(stack'[t]) = l - 1 /\ DOMAIN stack'[t] = 1 .. l - 1
      /\ \A n \in DOMAIN stack'[t] :
           /\ n \in DOMAIN stack[t]
           /\ stack'[t][n] = IF n = l - 1 THEN [stack[t][n] EXCEPT !.new.target = k, !.pc = "link"]
                                         ELSE stack[t][n]
  BY <1>1, StackReturned DEF RowsInv
<1>5. result' \in [Thread -> TypOrNone]
  <2>1. result' = result \/ result' = [result EXCEPT ![t] = k]
    BY DEF Return
  <2>2. k \in TypOrNone /\ result \in [Thread -> TypOrNone]
    BY <1>1 DEF TypOrNone, RowsInv, TyInv
  <2> HIDE DEF k
  <2> QED BY <2>1, <2>2
<1> HIDE DEF l, k, g
<1>6. got' \subseteq [call : CallOn(Typ), type : Typ]
  BY <1>2, <1>3 DEF RowsInv, TyInv
<1>7. ASSUME NEW n \in DOMAIN stack'[t]
      PROVE  /\ n \in DOMAIN stack[t] /\ n # l /\ stack[t][n] \in CallFrame /\ stack[t][n].pc = "target"
             /\ stack'[t][n].key = stack[t][n].key /\ stack'[t][n].call = stack[t][n].call
             /\ (stack'[t][n].pc = "target" <=> n # l - 1) /\ CallOK(stack'[t][n], Known)
  <2>1. n \in DOMAIN stack[t] /\ n # l
    <3>1. n \in 1 .. l - 1
      BY ONLY <1>4, n \in DOMAIN stack'[t]
    <3>2. n \in 1 .. l /\ n # l
      BY ONLY <3>1, <1>1
    <3> QED BY ONLY <3>2, <1>1
  <2>2. stack[t][n] \in CallFrame
    BY <2>1, FrameType DEF RowsInv
  <2>3. stack[t][n].pc = "target" /\ CallOK(stack[t][n], Known)
    BY <2>1 DEF RowsInv, StackOK, l
  <2>4. CASE n = l - 1
    <3> DEFINE f == stack[t][n]
               h == [f EXCEPT !.new.target = k, !.pc = "link"]
    <3>1. f \in CallFrame /\ f.pc = "target" /\ CallOK(f, Known) /\ stack'[t][n] = h
      BY <1>4, <2>2, <2>3, <2>4
    <3> HIDE DEF f
    <3>2. h.key = f.key /\ h.call = f.call /\ h.pc = "link" /\ h.new.type = f.new.type
      BY <3>1 DEF CallFrame, Entry
    <3> HIDE DEF h
    <3>3. CallOK(h, Known)
      BY <3>1, <3>2 DEF CallOK
    <3> QED BY <2>1, <2>2, <2>3, <2>4, <3>1, <3>2, <3>3 DEF f
  <2>5. CASE n # l - 1
    BY <1>4, <2>1, <2>2, <2>3, <2>5
  <2> QED BY <2>4, <2>5
<1>8. Known \subseteq Known'
  <2>1. \A n \in DOMAIN stack[t] : n # l => n \in DOMAIN stack'[t]
    <3>1. \A n \in 1 .. l : n # l => n \in 1 .. l - 1
      BY ONLY <1>1
    <3>2. DOMAIN stack'[t] = 1 .. l - 1
      BY ONLY <1>4
    <3> QED BY ONLY <1>1, <3>1, <3>2
  <2>2. \A u \in Thread : \A n \in DOMAIN stack[u] : ~(u = t /\ n = l) =>
          /\ n \in DOMAIN stack'[u]
          /\ stack'[u][n].key = stack[u][n].key /\ stack'[u][n].call = stack[u][n].call
    <3> TAKE u \in Thread
    <3> TAKE n \in DOMAIN stack[u]
    <3> HAVE ~(u = t /\ n = l)
    <3>1. CASE u = t
      <4>1. n \in DOMAIN stack'[t]
        BY ONLY <2>1, <3>1, n \in DOMAIN stack[u], ~(u = t /\ n = l)
      <4> QED BY <1>7, <3>1, <4>1
    <3>2. CASE u # t
      <4>1. stack'[u] = stack[u]
        BY ONLY <1>4, <3>2
      <4> QED BY <4>1
    <3> QED BY <3>1, <3>2
  <2>3. \E e \in got' : e.type = stack[t][l].key /\ e.call = stack[t][l].call
    BY <1>1, <1>2, <1>3 DEF k
  <2> QED BY <1>2, <2>2, <2>3, KnownKept
<1>9. ASSUME NEW u \in Thread, NEW n \in DOMAIN stack'[u]
      PROVE  \E h \in CallFrame : h = stack'[u][n] /\ (h.pc = "target" <=> n # Len(stack'[u])) /\ CallOK(h, Known)
  <2>1. stack'[u][n] \in CallFrame
    <3>1. stack'[u] \in Seq(CallFrame)
      BY <1>4
    <3>2. \A w \in Seq(CallFrame) : \A m \in DOMAIN w : w[m] \in CallFrame
      OBVIOUS
    <3> QED BY ONLY <3>1, <3>2, n \in DOMAIN stack'[u]
  <2>2. CASE u = t
    BY <1>4, <1>7, <2>1, <2>2
  <2>3. CASE u # t
    <3>1. stack'[u] = stack[u]
      BY ONLY <1>4, <2>3
    <3>2. (stack[u][n].pc = "target" <=> n # Len(stack[u])) /\ CallOK(stack[u][n], Known)
      BY <3>1 DEF RowsInv, StackOK
    <3> QED BY <2>1, <3>1, <3>2
  <2> QED BY <2>2, <2>3
<1> QED BY <1>4, <1>5, <1>6, <1>8, <1>9 DEF StackStep

\* With more calls known, nothing is less so.
LEMMA MoreKnown ==
  ASSUME NEW K, NEW L, K \subseteq L
  PROVE  /\ \A r, s : RowOK(r, s, K) => RowOK(r, s, L)
         /\ \A f : CallOK(f, K) => CallOK(f, L)
<1>1. \A e : Real(e, K) => Real(e, L)
  BY DEF Real
<1>2. \A r, s : RowOK(r, s, K) => RowOK(r, s, L)
  BY <1>1 DEF RowOK
<1> QED BY <1>2 DEF CallOK

LEMMA RowsStep ==
  ASSUME RowsInv, StackStep,
         calls' \in [Thread -> 0 .. MaxCalls], result' \in [Thread -> TypOrNone],
         got' \subseteq [call : CallOn(Typ), type : Typ],
         table' \in [DOMAIN table' -> Seq(Entry)], DOMAIN table \subseteq DOMAIN table',
         \A r \in DOMAIN table' : RowOK(r, table'[r], Known),
         \A h \in lock' : h[2] \in Thread, misuse' \in BOOLEAN
  PROVE  RowsInv'
<1>1. /\ \A r, s : RowOK(r, s, Known) => RowOK(r, s, Known')
      /\ \A f : CallOK(f, Known) => CallOK(f, Known')
  BY MoreKnown DEF StackStep
<1>2. TyInv'
  BY DEF StackStep, TyInv
<1>3. \A r \in DOMAIN table' : RowOK(r, table'[r], Known')
  BY <1>1
<1>4. StackOK'
  <2> SUFFICES ASSUME NEW u \in Thread, NEW n \in DOMAIN stack'[u]
               PROVE  (stack'[u][n].pc = "target" <=> n # Len(stack'[u])) /\ CallOK(stack'[u][n], Known')
    BY DEF StackOK
  <2>1. PICK h \in CallFrame : h = stack'[u][n] /\ (h.pc = "target" <=> n # Len(stack'[u])) /\ CallOK(h, Known)
    BY DEF StackStep
  <2> QED BY <1>1, <2>1
<1> QED BY <1>2, <1>3, <1>4 DEF RowsInv

\* A step of the innermost call that adds nothing.
LEMMA RowsMoved ==
  ASSUME RowsInv, StackStep, UNCHANGED <<table, calls>>,
         result' \in [Thread -> TypOrNone], got' \subseteq [call : CallOn(Typ), type : Typ],
         \A h \in lock' : h[2] \in Thread, misuse' \in BOOLEAN
  PROVE  RowsInv'
<1>1. /\ table' \in [DOMAIN table' -> Seq(Entry)] /\ DOMAIN table \subseteq DOMAIN table'
      /\ calls' \in [Thread -> 0 .. MaxCalls] /\ \A r \in DOMAIN table' : RowOK(r, table'[r], Known)
  BY DEF RowsInv, TyInv
<1> QED BY <1>1, RowsStep

LEMMA CallRows ==
  ASSUME RowsInv, Closed, NEW t \in Thread, call(t)
  PROVE  RowsInv' /\ StackStep
<1>1. PICK c \in CallOn(Typ), p \in Pad :
           /\ Frame(c, p) \in CallFrame
           /\ stack[t] = << >> /\ stack' = [stack EXCEPT ![t] = <<Frame(c, p)>>]
           /\ stack' \in [Thread -> Seq(CallFrame)]
           /\ \A u \in Thread : u # t => stack'[u] = stack[u]
           /\ Len(stack'[t]) = 1 /\ DOMAIN stack'[t] = {1} /\ stack'[t][1] = Frame(c, p)
  BY StackCalled DEF RowsInv
<1>2. DOMAIN stack[t] = 1 .. 0
  BY <1>1
<1>3. DOMAIN stack'[t] = 1 .. 0 + 1 /\ Len(stack'[t]) = 0 + 1 /\ stack'[t][0 + 1].pc = "wrlock"
  BY <1>1 DEF Frame
<1>4. /\ calls' \in [Thread -> 0 .. MaxCalls] /\ UNCHANGED <<table, lock, result, got, misuse>>
      /\ result' \in [Thread -> TypOrNone] /\ got' \subseteq [call : CallOn(Typ), type : Typ]
  BY MaxCallsAssumption DEF RowsInv, TyInv, call
<1>5. 0 \in Nat /\ 1 .. 0 = {}
  OBVIOUS
<1>6. StackStep
  BY ONLY <1>1, <1>2, <1>3, <1>4, <1>5, RowsInv, BegunOK, t \in Thread
<1>7. /\ table' \in [DOMAIN table' -> Seq(Entry)] /\ DOMAIN table \subseteq DOMAIN table'
      /\ \A r \in DOMAIN table' : RowOK(r, table'[r], Known)
      /\ (\A h \in lock' : h[2] \in Thread) /\ misuse' \in BOOLEAN
  BY <1>4 DEF RowsInv, TyInv
<1> QED BY <1>4, <1>6, <1>7, RowsStep

\* The innermost call goes on to a state in which it has no entry.
LEMMA GotoRows ==
  ASSUME RowsInv, NEW t \in Thread, stack[t] # << >>, NEW l \in {"find", "make", "unlock"}, Goto(t, l), UNCHANGED got
  PROVE  StackStep
<1>1. Moved(t, Topped(t, l)) /\ Topped(t, l) \in CallFrame
  BY GotoMoves DEF RowsInv, Label
<1>2. Top(t) \in CallFrame
  BY TopOf DEF RowsInv
<1>3. Topped(t, l).key = Top(t).key /\ Topped(t, l).call = Top(t).call /\ Topped(t, l).pc = l
  BY <1>2 DEF Topped, CallFrame
<1> DEFINE f == Topped(t, l)
<1> HIDE DEF f
<1>4. CallOK(f, Known) /\ f.pc # "target"
  BY <1>3 DEF CallOK, f
<1> QED BY <1>1, <1>3, <1>4, MovedOK DEF f

LEMMA MakeRows ==
  ASSUME RowsInv, Closed, NEW t \in Thread, make(t)
  PROVE  StackStep
<1> DEFINE l == Len(stack[t])
<1>1. stack[t] # << >> /\ Top(t).pc = "make" /\ UNCHANGED got
  BY MakeMoves DEF make, RowsInv
<1>2. l \in DOMAIN stack[t] /\ DOMAIN stack[t] = 1 .. l /\ l \in Nat /\ Top(t) = stack[t][l]
  BY <1>1, TopOf DEF RowsInv
<1>3. CASE \E f \in CallFrame :
             /\ Moved(t, f)
             /\ f.key = Top(t).key /\ f.call = Top(t).call /\ f.pc = "link"
             /\ f.new.type = f.key /\ Describes(f.new, f.call)
  <2>1. PICK f \in CallFrame :
             /\ Moved(t, f)
             /\ f.key = Top(t).key /\ f.call = Top(t).call /\ f.pc = "link"
             /\ f.new.type = f.key /\ Describes(f.new, f.call)
    BY <1>3
  <2>2. CallOK(f, Known) /\ f.pc # "target"
    BY <2>1 DEF CallOK
  <2> QED BY <1>1, <2>1, <2>2, MovedOK
<1>4. CASE \E f \in CallFrame, c \in CallOn(Typ), p \in Pad :
             /\ Entered(t, f, Frame(c, p)) /\ Frame(c, p) \in CallFrame
             /\ f.key = Top(t).key /\ f.call = Top(t).call /\ f.pc = "target"
             /\ f.call.fn = "mktypfromgenargs"
             /\ f.new.type = f.key /\ Describes(f.new, f.call)
  <2>1. PICK f \in CallFrame, c \in CallOn(Typ), p \in Pad :
             /\ Entered(t, f, Frame(c, p)) /\ Frame(c, p) \in CallFrame
             /\ f.key = Top(t).key /\ f.call = Top(t).call /\ f.pc = "target"
             /\ f.call.fn = "mktypfromgenargs"
             /\ f.new.type = f.key /\ Describes(f.new, f.call)
    BY <1>4
  <2>2. CallOK(f, Known)
    BY <2>1 DEF CallOK
  <2>3. /\ stack' \in [Thread -> Seq(CallFrame)]
        /\ \A u \in Thread : u # t => stack'[u] = stack[u]
        /\ Len(stack'[t]) = l + 1 /\ DOMAIN stack'[t] = 1 .. l + 1
        /\ stack'[t][l + 1] = Frame(c, p)
        /\ stack'[t][l] = f
        /\ \A n \in DOMAIN stack[t] : n # l => stack'[t][n] = stack[t][n]
    BY <1>1, <2>1, StackEntered DEF RowsInv
  <2>4. \A n \in DOMAIN stack[t] : n # l => stack[t][n].pc = "target" /\ CallOK(stack[t][n], Known)
    BY DEF RowsInv, StackOK
  <2> HIDE DEF l
  <2>5. \A n \in 1 .. l :
          /\ stack'[t][n].key = stack[t][n].key /\ stack'[t][n].call = stack[t][n].call
          /\ stack'[t][n].pc = "target" /\ CallOK(stack'[t][n], Known)
    <3> TAKE n \in 1 .. l
    <3>1. CASE n = l
      BY ONLY <1>2, <2>1, <2>2, <2>3, <3>1
    <3>2. CASE n # l
      BY ONLY <1>2, <2>3, <2>4, <3>2, n \in 1 .. l
    <3> QED BY <3>1, <3>2
  <2>6. stack'[t][l + 1].pc = "wrlock"
    BY <2>3 DEF Frame
  <2> QED BY ONLY <1>1, <1>2, <2>3, <2>5, <2>6, RowsInv, BegunOK, t \in Thread
<1> QED BY <1>3, <1>4, MakeMoves DEF RowsInv

LEMMA LinkRows ==
  ASSUME RowsInv, NEW t \in Thread, add_link(t)
  PROVE  StackStep
<1> DEFINE f == Linked(t)
<1>1. stack[t] # << >> /\ Top(t).pc = "link" /\ Moved(t, f) /\ f \in CallFrame
  BY LinkMoves DEF RowsInv
<1>2. Top(t) \in CallFrame /\ Len(stack[t]) \in DOMAIN stack[t] /\ Top(t) = stack[t][Len(stack[t])]
  BY <1>1, TopOf DEF RowsInv
<1>3. /\ f.key = Top(t).key /\ f.call = Top(t).call /\ f.new = Top(t).new
      /\ f.pc = "publish" /\ f.next = Chain(RowOf(Top(t).key))
  BY <1>2 DEF Linked, CallFrame
<1>4. CallOK(Top(t), Known)
  BY <1>2 DEF RowsInv, StackOK
<1>5. UNCHANGED got
  BY DEF add_link
<1>6. RowOK(RowOf(Top(t).key), Chain(RowOf(Top(t).key)), Known)
  BY ChainOK
<1> HIDE DEF f
<1>7. CallOK(f, Known) /\ f.pc # "target"
  BY <1>1, <1>3, <1>4, <1>6 DEF CallOK
<1> QED BY <1>1, <1>3, <1>5, <1>7, MovedOK

LEMMA PublishRows ==
  ASSUME RowsInv, Closed, NEW t \in Thread, add_publish(t)
  PROVE  RowsInv' /\ StackStep
<1> DEFINE k == Top(t).key
           r == RowOf(k)
           new == Top(t).new
           w == <<new>> \o Top(t).next
<1>1. stack[t] # << >> /\ Top(t).pc = "publish" /\ UNCHANGED <<lock, calls, result, got, misuse>>
  BY DEF add_publish, At
<1>2. /\ Len(stack[t]) \in DOMAIN stack[t] /\ Top(t) = stack[t][Len(stack[t])] /\ Top(t) \in CallFrame
      /\ new \in Entry /\ Top(t).next \in Seq(Entry)
  BY <1>1, TopOf DEF RowsInv, CallFrame
<1>3. CallOK(Top(t), Known)
  BY <1>2 DEF RowsInv, StackOK
<1>4. new.type = k /\ RowOK(r, Top(t).next, Known)
  BY <1>1, <1>3 DEF CallOK
<1>5. StackStep
  BY <1>1, GotoRows DEF add_publish
<1>6. table' = [s \in DOMAIN table \cup {r} |-> IF s = r THEN w ELSE table[s]]
  BY DEF add_publish
<1>7. Real(new, Known)
  <2>1. Top(t) \in Frames
    BY <1>2, FrameType DEF RowsInv
  <2> DEFINE a == <<k, Top(t).call>>
  <2>2. a \in Known /\ a[1] = k
    BY <2>1 DEF Known
  <2> HIDE DEF a
  <2> QED BY <1>4, <2>2 DEF Real
<1> DEFINE next == Top(t).next
<1>8. /\ w \in Seq(Entry)
      /\ \A n : n \in DOMAIN w <=> n = 1 \/ (n - 1 \in DOMAIN next /\ n \in Nat)
      /\ w[1] = new
      /\ \A n \in DOMAIN next : w[n + 1] = next[n] /\ n + 1 \in DOMAIN w
      /\ \A n \in DOMAIN w : n # 1 => w[n] = next[n - 1] /\ n - 1 \in DOMAIN next /\ n \in Nat
  <2> HIDE DEF new, next
  <2> QED BY ONLY <1>2, Prefixed DEF next
<1>9. RowOf(new.type) = r
  BY <1>4
<1> HIDE DEF w, r, k, new, next
<1>10. RowOK(r, next, Known)
  BY <1>4 DEF next
<1>11. RowOK(r, w, Known)
  <2>1. ASSUME NEW n \in DOMAIN w
        PROVE  Real(w[n], Known) /\ RowOf(w[n].type) = r
    <3>1. CASE n = 1
      BY <1>7, <1>8, <1>9, <3>1
    <3>2. CASE n # 1
      <4>1. w[n] = next[n - 1] /\ n - 1 \in DOMAIN next
        BY ONLY <1>8, <3>2, n \in DOMAIN w
      <4> QED BY ONLY <4>1, <1>10 DEF RowOK
    <3> QED BY <3>1, <3>2
  <2>2. ASSUME NEW b \in BaseTyp, RowOf(b) = r
        PROVE  \E n \in DOMAIN w : w[n] = Base(b)
    <3>1. PICK n \in DOMAIN next : next[n] = Base(b)
      BY <1>10, <2>2 DEF RowOK
    <3> QED BY <1>8, <3>1
  <2> QED BY <2>1, <2>2 DEF RowOK
<1>12. /\ table' \in [DOMAIN table' -> Seq(Entry)] /\ DOMAIN table \subseteq DOMAIN table'
       /\ \A s \in DOMAIN table' : RowOK(s, table'[s], Known)
  <2>1. \A s \in DOMAIN table' : table'[s] = IF s = r THEN w ELSE table[s]
    BY <1>6
  <2>2. \A s \in DOMAIN table' : s = r \/ s \in DOMAIN table
    BY <1>6
  <2>3. \A s \in DOMAIN table' : RowOK(s, table'[s], Known)
    BY <1>11, <2>1, <2>2 DEF RowsInv
  <2> QED BY <1>6, <1>8, <2>3 DEF RowsInv, TyInv
<1>13. /\ calls' \in [Thread -> 0 .. MaxCalls] /\ result' \in [Thread -> TypOrNone]
       /\ got' \subseteq [call : CallOn(Typ), type : Typ]
       /\ (\A h \in lock' : h[2] \in Thread) /\ misuse' \in BOOLEAN
  BY <1>1 DEF RowsInv, TyInv
<1> QED BY <1>5, <1>12, <1>13, RowsStep

\* The rows keep their generated types, and calls that have begun or returned stay known.
LEMMA NextRows ==
  ASSUME RowsInv, Closed, [TypesNext]_typesvars
  PROVE  RowsInv' /\ Known \subseteq Known'
<1>0. StackStep => Known \subseteq Known'
  BY DEF StackStep
<1>1. ASSUME NEW t \in Thread, call(t)
      PROVE  RowsInv' /\ Known \subseteq Known'
  BY <1>0, <1>1, CallRows
<1>2. ASSUME NEW t \in Thread, XHASH_WRLOCK_RESV(t)
      PROVE  RowsInv' /\ Known \subseteq Known'
  <2>1. StackStep
    BY <1>2, GotoRows DEF XHASH_WRLOCK_RESV, At
  <2> DEFINE r == LockRow(Top(t))
  <2>2. lock' = lock \cup {<<r, t>>} /\ UNCHANGED <<table, calls, result, got, misuse>>
    BY <1>2 DEF XHASH_WRLOCK_RESV
  <2> HIDE DEF r
  <2>3. \A h \in lock' : h[2] \in Thread
    BY <2>2 DEF RowsInv
  <2>4. result' \in [Thread -> TypOrNone] /\ got' \subseteq [call : CallOn(Typ), type : Typ] /\ misuse' \in BOOLEAN
    BY <2>2 DEF RowsInv, TyInv
  <2> QED BY <1>0, <2>1, <2>2, <2>3, <2>4, RowsMoved
<1>3. ASSUME NEW t \in Thread, Unlock(t)
      PROVE  (\A h \in lock' : h[2] \in Thread) /\ misuse' \in BOOLEAN
  BY <1>3 DEF Unlock, RowsInv
<1>4. ASSUME NEW t \in Thread, find_existing(t)
      PROVE  RowsInv' /\ Known \subseteq Known'
  <2>1. stack[t] # << >> /\ Unlock(t) /\ UNCHANGED <<table, calls>>
    BY <1>4 DEF find_existing, At
  <2>2. CASE Return(t, Top(t).key)
    BY <1>0, <1>3, <2>1, <2>2, ReturnedOK, RowsMoved
  <2>3. CASE Goto(t, "make") /\ UNCHANGED <<result, got>>
    <3>1. StackStep
      BY <2>1, <2>3, GotoRows
    <3>2. result' \in [Thread -> TypOrNone] /\ got' \subseteq [call : CallOn(Typ), type : Typ]
      BY <2>3 DEF RowsInv, TyInv
    <3> QED BY <1>0, <1>3, <2>1, <3>1, <3>2, RowsMoved
  <2> QED BY <1>4, <2>2, <2>3 DEF find_existing
<1>5. ASSUME NEW t \in Thread, find_none(t) \/ make(t) \/ add_link(t)
      PROVE  RowsInv' /\ Known \subseteq Known'
  <2>1. StackStep
    BY <1>5, GotoRows, MakeRows, LinkRows DEF find_none, At
  <2>2. UNCHANGED <<table, lock, calls, result, got, misuse>>
    BY <1>5 DEF find_none, make, add_link
  <2>3. /\ result' \in [Thread -> TypOrNone] /\ got' \subseteq [call : CallOn(Typ), type : Typ]
        /\ (\A h \in lock' : h[2] \in Thread) /\ misuse' \in BOOLEAN
    BY <2>2 DEF RowsInv, TyInv
  <2> QED BY <1>0, <2>1, <2>2, <2>3, RowsMoved
<1>6. ASSUME NEW t \in Thread, add_publish(t)
      PROVE  RowsInv' /\ Known \subseteq Known'
  BY <1>0, <1>6, PublishRows
<1>7. ASSUME NEW t \in Thread, XHASH_UNLOCK_RESV(t)
      PROVE  RowsInv' /\ Known \subseteq Known'
  <2>1. stack[t] # << >> /\ Unlock(t) /\ Return(t, Top(t).key) /\ UNCHANGED <<table, calls>>
    BY <1>7 DEF XHASH_UNLOCK_RESV, At
  <2> QED BY <1>0, <1>3, <2>1, ReturnedOK, RowsMoved
<1>8. ASSUME UNCHANGED typesvars
      PROVE  RowsInv' /\ Known \subseteq Known'
  <2>1. UNCHANGED <<table, lock, stack, calls, result, got, misuse>>
    BY <1>8 DEF typesvars
  <2>2. Known' = Known
    BY <2>1 DEF Known, Frames
  <2> QED BY <2>1, <2>2 DEF RowsInv, TyInv, StackOK
<1> QED BY <1>1, <1>2, <1>4, <1>5, <1>6, <1>7, <1>8 DEF TypesNext, ThreadStep

LEMMA InitRowsInv ==
  ASSUME Closed, TypesInit
  PROVE  RowsInv
<1>1. TyInv
  BY InitIInv DEF IInv
<1>2. ASSUME NEW r \in DOMAIN table
      PROVE  RowOK(r, table[r], Known)
  BY InitRows DEF RowOK, Real
<1>3. \A b \in BaseTyp : RowOf(b) \in DOMAIN table
  BY DEF TypesInit
<1>4. StackOK /\ lock = {} /\ misuse = FALSE
  BY DEF TypesInit, StackOK
<1> QED BY <1>1, <1>2, <1>3, <1>4 DEF RowsInv

LEMMA RowsKept ==
  ASSUME RowsInv, Closed
  PROVE  TypesTypeOK /\ GeneratedKept
<1>1. TypesTypeOK
  <2>1. \A r \in DOMAIN table : \A e \in ToSet(table[r]) : RowOf(e.type) = r
    BY DEF RowsInv, RowOK, ToSet
  <2>2. \A t \in Thread : \A n \in DOMAIN stack[t] : stack[t][n].pc \in Label
    BY FrameType DEF RowsInv, CallFrame
  <2> QED BY <2>1, <2>2 DEF TypesTypeOK, RowsInv, TyInv
<1>2. ASSUME NEW b \in BaseTyp
      PROVE  Base(b) \in ToSet(Chain(RowOf(b)))
  <2>1. RowOK(RowOf(b), Chain(RowOf(b)), Known)
    BY ChainOK
  <2> QED BY <2>1 DEF RowOK, ToSet
<1>3. ASSUME NEW b \in BaseTyp, \A a \in Known : a[1] # b
      PROVE  Find(b) = Base(b)
  <2> DEFINE chain == Chain(RowOf(b))
  <2>1. RowOK(RowOf(b), chain, Known)
    BY ChainOK
  <2>2. \A c \in BaseTyp : Base(c).type = c
    BY DEF Base
  <2>3. Has(b)
    BY <2>1, <2>2 DEF RowOK, Has
  <2>4. b \in Typ
    BY DEF Closed
  <2>5. PICK n \in DOMAIN chain : Find(b) = chain[n] /\ Find(b).type = b
    BY <2>3, <2>4, FoundType DEF RowsInv
  <2>6. Real(chain[n], Known)
    BY <2>1 DEF RowOK
  <2>7. PICK c \in BaseTyp : chain[n] = Base(c)
    BY <1>3, <2>5, <2>6 DEF Real
  <2> QED BY <2>2, <2>5, <2>7
<1> QED BY <1>1, <1>2, <1>3 DEF GeneratedKept

-----------------------------------------------------------------------------
(* The theorems *)

\* Whatever the threads construct, and at the same time, under whatever locks, with whatever
\* hashes and even as an addition of one undoes that of another, the generated types stay in
\* their rows and are found (mktyparr, mktypptr, mktypfromgenargs, XHASH_ADD_TO_BKT).
THEOREM GeneratedTypesStay ==
  Closed => (TypesSpec => [](TypesTypeOK /\ GeneratedKept))
<1> SUFFICES ASSUME Closed
             PROVE  TypesSpec => [](TypesTypeOK /\ GeneratedKept)
  OBVIOUS
<1>1. TypesInit => RowsInv
  BY InitRowsInv
<1>2. RowsInv /\ [TypesNext]_typesvars => RowsInv'
  BY NextRows
<1>3. RowsInv => TypesTypeOK /\ GeneratedKept
  BY RowsKept
<1> QED BY <1>1, <1>2, <1>3, PTL DEF TypesSpec

\* A program without arguments to generics that traverses with one thread, or whose threads
\* construct pointer types only: mktypptr locks the row that it adds to.
Plain == GenArgs = {} /\ (ArrayLen = {} \/ \A t, u \in Thread : t = u)

LEMMA PlainApart ==
  ASSUME IInv, Plain
  PROVE  RowsApart /\ NestedApart
<1>1. ASSUME NEW t \in Thread, NEW n \in DOMAIN stack[t]
      PROVE  n = Len(stack[t]) /\ stack[t][n].call \in CallOn(Typ) /\ stack[t][n].call.fn # "mktypfromgenargs"
  <2>1. stack[t][n].call \in CallOn(Typ)
    BY FrameType DEF IInv, CallFrame
  <2>2. stack[t][n].call.fn # "mktypfromgenargs"
    BY <2>1 DEF CallOn, Plain
  <2>3. stack[t][n].pc # "target"
    BY <2>2 DEF IInv, StackInv, FrameInv
  <2> QED BY <2>1, <2>2, <2>3 DEF IInv, StackInv
<1>2. NestedApart
  BY <1>1 DEF NestedApart
<1>3. RowsApart
  <2> SUFFICES ASSUME NEW f \in Frames, NEW g \in Frames, RowOf(f.key) = RowOf(g.key)
               PROVE  LockRow(f) = LockRow(g)
    BY DEF RowsApart
  <2>1. PICK t \in Thread : \E n \in DOMAIN stack[t] : f = stack[t][n]
    BY DEF Frames, ToSet
  <2>2. PICK n \in DOMAIN stack[t] : f = stack[t][n]
    BY <2>1
  <2>3. PICK u \in Thread : \E m \in DOMAIN stack[u] : g = stack[u][m]
    BY DEF Frames, ToSet
  <2>4. PICK m \in DOMAIN stack[u] : g = stack[u][m]
    BY <2>3
  <2>5. CASE t = u
    BY <1>1, <2>2, <2>4, <2>5
  <2>6. CASE ArrayLen = {}
    <3>1. f.call.fn = "mktypptr" /\ g.call.fn = "mktypptr"
      BY <1>1, <2>2, <2>4, <2>6 DEF CallOn
    <3> QED BY <3>1 DEF LockRow, LockKey
  <2> QED BY <2>5, <2>6 DEF Plain
<1> QED BY <1>2, <1>3

LEMMA TypesInvariant ==
  Closed /\ Plain => (TypesSpec => []((Collided \/ IInv) /\ RowsInv))
<1> SUFFICES ASSUME Closed, Plain
             PROVE  TypesSpec => []((Collided \/ IInv) /\ RowsInv)
  OBVIOUS
<1>1. TypesInit => (Collided \/ IInv) /\ RowsInv
  BY InitIInv, InitRowsInv
<1>2. (Collided \/ IInv) /\ RowsInv /\ [TypesNext]_typesvars => (Collided' \/ IInv') /\ RowsInv'
  <2> SUFFICES ASSUME Collided \/ IInv, RowsInv, [TypesNext]_typesvars
               PROVE  (Collided' \/ IInv') /\ RowsInv'
    OBVIOUS
  <2>1. RowsInv' /\ Known \subseteq Known'
    BY NextRows
  <2>2. CASE Collided
    BY <2>1, <2>2 DEF Collided
  <2>3. CASE ~Collided
    BY <2>1, <2>3, PlainApart, NextIInv
  <2> QED BY <2>1, <2>2, <2>3
<1> QED BY <1>1, <1>2, PTL DEF TypesSpec

\* In such a program a type that mktyparr or mktypptr has returned is in the table from then on
\* and is the one that was asked for, unless hashes have collided.
THEOREM ConstructedTypesStay ==
  Closed /\ Plain => (TypesSpec => []ReturnedTypeFound)
<1> SUFFICES ASSUME Closed, Plain
             PROVE  TypesSpec => []ReturnedTypeFound
  OBVIOUS
<1>1. Collided \/ IInv => ReturnedTypeFound
  BY FoundThere DEF ReturnedTypeFound
<1> QED BY <1>1, TypesInvariant, PTL

\* While no hashes have collided, there is one entry for each type and no lock is left behind by
\* the thread that has it; and the generated types stay when they do.
THEOREM TypeTableSound ==
  Closed /\ Plain => (TypesSpec => []ConstructorsSound)
<1> SUFFICES ASSUME Closed, Plain
             PROVE  TypesSpec => []ConstructorsSound
  OBVIOUS
<1>1. (Collided \/ IInv) /\ RowsInv => ConstructorsSound
  BY OnceAndBalanced, RowsKept DEF ConstructorsSound
<1> QED BY <1>1, TypesInvariant, PTL

-----------------------------------------------------------------------------
(* The hash table: UtHash *)

HashSpec == HashInit /\ [][HashNext]_hashvars

-----------------------------------------------------------------------------
(* Powers of two *)

\* Induction, for a set of numbers.
LEMMA SetInduction ==
  ASSUME NEW S, 0 \in S, \A n \in Nat : n \in S => n + 1 \in S
  PROVE  Nat \subseteq S
<1> DEFINE Less == {p \in Nat \X Nat : p[1] < p[2]}
           T == Nat \ S
<1>1. IsWellFoundedOn(Less, Nat)
  BY NatLessThanWellFounded DEF OpToRel
<1>2. SUFFICES ASSUME T # {} PROVE FALSE
  OBVIOUS
<1>3. \E x \in T : \A y \in T : <<y, x>> \notin Less
  <2> HIDE DEF Less
  <2> QED BY <1>1, <1>2, WFMin
<1>4. PICK x \in T : \A y \in T : ~(y < x)
  BY <1>3
<1>5. x # 0 /\ x - 1 \in Nat /\ x - 1 \notin T
  BY <1>4
<1> QED BY <1>5

\* A function that is defined by recursion on the natural numbers, from a by the steps of g.
StepOn(X) == [Nat \X X -> X]
Recursive(f, X, a, g) == f \in [Nat -> X] /\ f[0] = a /\ \A n \in Nat : f[n + 1] = g[<<n, f[n]>>]

\* There is one.
LEMMA Recursion == \A X, a, g : a \in X /\ g \in StepOn(X) => \E f : Recursive(f, X, a, g)
<1> SUFFICES ASSUME NEW X, NEW a, NEW g, a \in X, g \in StepOn(X)
             PROVE  \E f : Recursive(f, X, a, g)
  OBVIOUS
<1> g \in [Nat \X X -> X]
  BY DEF StepOn
<1> DEFINE Good(f, n) == f[0] = a /\ \A i \in 0 .. n - 1 : f[i + 1] = g[<<i, f[i]>>]
           Upto(n) == {f \in [0 .. n -> X] : Good(f, n)}
           F(n) == CHOOSE f \in Upto(n) : TRUE
           h == [n \in Nat |-> F(n)[n]]
<1>1. \A n \in Nat : Upto(n) # {}
  <2> DEFINE S == {n \in Nat : Upto(n) # {}}
  <2>1. 0 \in S
    <3>1. [i \in 0 .. 0 |-> a] \in Upto(0)
      OBVIOUS
    <3> QED BY <3>1
  <2>2. ASSUME NEW n \in Nat, n \in S PROVE n + 1 \in S
    <3>1. PICK f \in Upto(n) : TRUE
      BY <2>2
    <3> DEFINE e == [i \in 0 .. n + 1 |-> IF i = n + 1 THEN g[<<n, f[n]>>] ELSE f[i]]
    <3>2. f[n] \in X /\ g[<<n, f[n]>>] \in X
      OBVIOUS
    <3>3. e \in [0 .. n + 1 -> X]
      BY <3>2
    <3>4. e[0] = a
      OBVIOUS
    <3>5. \A i \in 0 .. n : e[i + 1] = g[<<i, e[i]>>]
      <4> TAKE i \in 0 .. n
      <4>1. CASE i = n
        <5>1. e[n + 1] = g[<<n, f[n]>>] /\ e[n] = f[n]
          OBVIOUS
        <5> HIDE DEF e
        <5> QED BY <4>1, <5>1
      <4>2. CASE i \in 0 .. n - 1
        BY <4>2
      <4> QED BY <4>1, <4>2
    <3>6. (n + 1) - 1 = n
      OBVIOUS
    <3>7. Good(e, n + 1)
      <4> HIDE DEF e
      <4> QED BY <3>4, <3>5, <3>6
    <3> HIDE DEF e, Good
    <3> QED BY <3>3, <3>7
  <2> HIDE DEF Upto
  <2>3. Nat \subseteq S
    <3> HIDE DEF S
    <3> QED BY <2>1, <2>2, SetInduction
  <2> QED BY <2>3
<1>2. \A i \in Nat : \A m, n \in Nat : \A d \in Upto(m), e \in Upto(n) : i <= m /\ i <= n => d[i] = e[i]
  <2> DEFINE Same(i) == \A m, n \in Nat : \A d \in Upto(m), e \in Upto(n) : i <= m /\ i <= n => d[i] = e[i]
             S == {i \in Nat : Same(i)}
  <2>1. 0 \in S
    OBVIOUS
  <2>2. ASSUME NEW i \in Nat, i \in S PROVE i + 1 \in S
    <3>1. ASSUME NEW m \in Nat, NEW n \in Nat, NEW d \in Upto(m), NEW e \in Upto(n), i + 1 <= m, i + 1 <= n
          PROVE  d[i + 1] = e[i + 1]
      <4>1. d[i] = e[i]
        <5> HIDE DEF Upto
        <5> QED BY <2>2, <3>1
      <4>2. d[i + 1] = g[<<i, d[i]>>] /\ e[i + 1] = g[<<i, e[i]>>]
        BY <3>1
      <4> QED BY <4>1, <4>2
    <3>2. Same(i + 1)
      <4> HIDE DEF Upto
      <4> QED BY <3>1
    <3> HIDE DEF Same
    <3> QED BY <3>2
  <2>3. Nat \subseteq S
    <3> HIDE DEF S
    <3> QED BY <2>1, <2>2, SetInduction
  <2> HIDE DEF Upto
  <2> QED BY <2>3
<1>3. \A n \in Nat : F(n) \in Upto(n)
  <2> HIDE DEF Upto
  <2> QED BY <1>1
<1>4. h \in [Nat -> X]
  <2>1. ASSUME NEW n \in Nat PROVE F(n)[n] \in X
    <3>1. F(n) \in [0 .. n -> X]
      BY <1>3
    <3> HIDE DEF F
    <3> QED BY <3>1
  <2> HIDE DEF F
  <2> QED BY <2>1
<1>5. h[0] = a
  <2>1. F(0)[0] = a
    <3>1. F(0) \in Upto(0)
      BY ZenonT(30), <1>3
    <3> HIDE DEF F
    <3> QED BY <3>1
  <2>2. h[0] = F(0)[0]
    <3> HIDE DEF F
    <3> QED OBVIOUS
  <2> HIDE DEF F, h
  <2> QED BY <2>1, <2>2
<1>6. ASSUME NEW n \in Nat PROVE h[n + 1] = g[<<n, h[n]>>]
  <2>1. F(n + 1) \in Upto(n + 1) /\ F(n) \in Upto(n)
    <3> HIDE DEF F, Upto
    <3> QED BY <1>3
  <2> HIDE DEF F
  <2>2. F(n + 1)[n + 1] = g[<<n, F(n + 1)[n]>>]
    BY <2>1
  <2>3. F(n + 1)[n] = F(n)[n]
    <3> HIDE DEF Upto
    <3> QED BY <2>1, <1>2
  <2> QED BY <2>2, <2>3
<1>7. h \in [Nat -> X] /\ h[0] = a /\ \A n \in Nat : h[n + 1] = g[<<n, h[n]>>]
  <2> HIDE DEF h
  <2> QED BY <1>4, <1>5, <1>6
<1> HIDE DEF h
<1> QED BY ONLY <1>7 DEF Recursive

\* What the recursive definition says.
LEMMA DoubledDef ==
  /\ Doubled \in [Nat -> Nat \ {0}]
  /\ Doubled[0] = 1
  /\ \A n \in Nat : Doubled[n + 1] = 2 * Doubled[n]
<1> DEFINE X == Nat \ {0}
           g == [p \in Nat \X X |-> 2 * p[2]]
           Is(f) == f = [n \in Nat |-> IF n = 0 THEN 1 ELSE 2 * f[n - 1]]
<1>0. PICK f : Recursive(f, X, 1, g)
  <2>1. g \in StepOn(X) /\ 1 \in X
    BY DEF StepOn
  <2> HIDE DEF g, X
  <2> QED BY ONLY <2>1, Recursion
<1>1. f \in [Nat -> X] /\ f[0] = 1 /\ \A n \in Nat : f[n + 1] = g[<<n, f[n]>>]
  <2> HIDE DEF g, X
  <2> QED BY <1>0 DEF Recursive
<1>2. Is(f)
  <2>1. ASSUME NEW n \in Nat PROVE f[n] = IF n = 0 THEN 1 ELSE 2 * f[n - 1]
    <3>1. CASE n = 0
      <4> HIDE DEF g, X
      <4> QED BY <1>1, <3>1
    <3>2. CASE n # 0
      <4>1. n - 1 \in Nat /\ (n - 1) + 1 = n
        BY <3>2
      <4>2. f[(n - 1) + 1] = g[<<n - 1, f[n - 1]>>] /\ f[n - 1] \in X
        <5> HIDE DEF g, X
        <5> QED BY <1>1, <4>1
      <4>3. g[<<n - 1, f[n - 1]>>] = 2 * f[n - 1]
        BY <4>1, <4>2
      <4>4. f[n] = 2 * f[n - 1]
        BY ONLY <4>1, <4>2, <4>3
      <4> QED BY <4>4, <3>2
    <3> QED BY <3>1, <3>2
  <2> QED BY <2>1, <1>1
<1>3. Is(Doubled)
  <2>1. Doubled = CHOOSE e : Is(e)
    BY DEF Doubled
  <2> HIDE DEF Is
  <2> QED BY <1>2, <2>1
<1> DEFINE d == Doubled
<1>4. d[0] = 1 /\ \A n \in Nat : d[n + 1] = 2 * d[n]
  <2> HIDE DEF d
  <2>1. d = [n \in Nat |-> IF n = 0 THEN 1 ELSE 2 * d[n - 1]]
    BY <1>3 DEF d
  <2> QED BY <2>1
<1>5. d \in [Nat -> Nat \ {0}]
  <2> DEFINE S == {n \in Nat : d[n] \in Nat \ {0}}
  <2>1. 0 \in S
    BY <1>4
  <2>2. ASSUME NEW n \in Nat, n \in S PROVE n + 1 \in S
    <3>1. d[n + 1] = 2 * d[n]
      BY <1>4
    <3> HIDE DEF d
    <3> QED BY <3>1, <2>2
  <2>3. Nat \subseteq S
    <3> HIDE DEF S
    <3> QED BY <2>1, <2>2, SetInduction
  <2>4. d = [n \in Nat |-> IF n = 0 THEN 1 ELSE 2 * d[n - 1]]
    BY <1>3
  <2> HIDE DEF d
  <2> QED BY <2>3, <2>4
<1> QED BY <1>4, <1>5

\* Powers of two grow, and of two different ones the smaller fits into the larger twice.
LEMMA DoubledGrows ==
  ASSUME NEW m \in Nat, NEW n \in Nat, m < n
  PROVE  2 * Doubled[m] <= Doubled[n]
<1> DEFINE S == {k \in Nat : 2 * Doubled[m] <= Doubled[m + 1 + k]}
<1>1. 0 \in S
  <2>1. Doubled[m + 1] = 2 * Doubled[m] /\ Doubled[m] \in Nat
    BY DoubledDef
  <2> QED BY <2>1
<1>2. ASSUME NEW k \in Nat, k \in S PROVE k + 1 \in S
  <2>1. Doubled[m + 1 + (k + 1)] = 2 * Doubled[m + 1 + k]
    <3>1. m + 1 + k \in Nat /\ (m + 1 + k) + 1 = m + 1 + (k + 1)
      OBVIOUS
    <3> QED BY ONLY <3>1, DoubledDef
  <2>2. Doubled[m] \in Nat /\ Doubled[m + 1 + k] \in Nat
    BY DoubledDef
  <2>3. 2 * Doubled[m] <= Doubled[m + 1 + k]
    BY <1>2
  <2>4. 2 * Doubled[m] <= Doubled[m + 1 + (k + 1)]
    BY <2>1, <2>2, <2>3
  <2> QED BY <2>4
<1>3. Nat \subseteq S
  <2> HIDE DEF S
  <2> QED BY <1>1, <1>2, SetInduction
<1>4. n - m - 1 \in Nat /\ m + 1 + (n - m - 1) = n
  OBVIOUS
<1>5. n - m - 1 \in S
  BY ONLY <1>3, <1>4
<1> QED BY <1>4, <1>5

-----------------------------------------------------------------------------
(* The invariant *)

\* Where a thread has a row, where it has the row's lock too, and where it has found that
\* the table may grow.
Holding == {"find", "add", "bucket", "unlock"}
Inside == {"row"} \cup Holding
Passed == {t \in User : user[t].pc \in {"wrlock", "redistribute"}}
Place == Inside \cup {"idle", "rows", "count", "expand", "wrlock", "redistribute"}

Home(k) == XHASH_TO_BKT(k, num_buckets)
UserState == [pc : Place, key : HashKey, bkt : Nat, array : Nat, uses : Nat]

UserTypesInv ==
  /\ num_buckets \in Nat \ {0} /\ num_items \in Nat /\ array \in Nat
  /\ DOMAIN buckets = 0 .. num_buckets - 1
  /\ buckets = [b \in 0 .. num_buckets - 1 |-> Row(buckets[b].chain, buckets[b].expand_mult)]
  /\ \A b \in 0 .. num_buckets - 1 : buckets[b].chain \in [HashKey -> Nat]
  /\ expand_lock \in [readers : SUBSET User, writer : SUBSET User]
  /\ bucket_mutex \in [0 .. XHASH_MAX_NUM_MUTEX - 1 -> SUBSET User]
  /\ user \in [User -> UserState]

\* The locks say where the threads are, the one against expansion shuts out the others, and
\* the row that a thread has computed is its key's for as long as it holds that lock.
UserLockInv ==
  /\ expand_lock.readers = {t \in User : user[t].pc \in Inside}
  /\ expand_lock.writer = {t \in User : user[t].pc = "redistribute"}
  /\ expand_lock.writer # {} => expand_lock.readers = {}
  /\ \A t, u \in expand_lock.writer : t = u
  /\ \A t \in User : user[t].pc \in Inside => user[t].bkt = Home(user[t].key)
  /\ \A m \in 0 .. XHASH_MAX_NUM_MUTEX - 1 :
       bucket_mutex[m] = {t \in User : user[t].pc \in Holding /\ MutexOf(user[t].bkt) = m}
  /\ \A t, u \in User :
       user[t].pc \in Holding /\ user[u].pc \in Holding /\ MutexOf(user[t].bkt) = MutexOf(user[u].bkt)
         => t = u

\* A key that a thread is about to add has no entry.
KeysInv ==
  /\ EntriesKept
  /\ \A t \in User : user[t].pc \in {"add", "bucket"} => buckets[Home(user[t].key)].chain[user[t].key] = 0

\* A thread that has found the table below its limit can still double it.
BoundInv ==
  /\ \E n \in Nat : num_buckets = XHASH_INITIAL_NUM_BUCKETS * Doubled[n]
  /\ num_buckets * Doubled[Cardinality(Passed)] <= (XHASH_MAX_NUM_BUCKETS \div 2) * Doubled[Cardinality(User)]

-----------------------------------------------------------------------------
(* The parts of a step *)

\* Thread t goes to p with the key and the row it has.
UserMoved(t, p) ==
  /\ user' \in [User -> UserState]
  /\ user'[t].pc = p /\ user'[t].key = user[t].key /\ user'[t].bkt = user[t].bkt
  /\ \A u \in User : u # t => user'[u] = user[u]

LEMMA GoesMoves ==
  ASSUME UserTypesInv, NEW t \in User, NEW p \in Place, Goes(t, p)
  PROVE  UserMoved(t, p)
<1>1. user \in [User -> UserState]
  BY DEF UserTypesInv
<1>2. user[t] \in UserState /\ user' = [user EXCEPT ![t].pc = p]
  BY <1>1 DEF Goes
<1>3. user'[t] = [user[t] EXCEPT !.pc = p]
  BY <1>1, <1>2
<1>4. user'[t] \in UserState /\ user'[t].pc = p /\ user'[t].key = user[t].key /\ user'[t].bkt = user[t].bkt
  BY ONLY <1>2, <1>3, p \in Place DEF UserState
<1>5. \A u \in User : u # t => user'[u] = user[u]
  BY <1>1, <1>2
<1>6. user' \in [User -> UserState]
  <2> DEFINE w == user'[t]
  <2>1. w \in UserState /\ user' = [user EXCEPT ![t] = w]
    BY <1>1, <1>2, <1>3, <1>4
  <2> HIDE DEF w
  <2> QED BY ONLY <1>1, <2>1, t \in User
<1> QED BY <1>4, <1>5, <1>6 DEF UserMoved

\* A row is one of the table's, and its lock one of the locks.
LEMMA HomeInTable ==
  ASSUME NEW n \in Nat \ {0}, NEW k \in HashKey
  PROVE  XHASH_TO_BKT(k, n) \in 0 .. n - 1
<1>1. HashValue[k] \in Nat
  BY KeyAssumption
<1> QED BY <1>1 DEF XHASH_TO_BKT

LEMMA LockOfRow ==
  ASSUME NEW b \in Nat
  PROVE  MutexOf(b) \in 0 .. XHASH_MAX_NUM_MUTEX - 1
  BY SizeAssumption DEF MutexOf

\* When the number of rows doubles, the row of a key comes from its old row.
LEMMA HomeSplits ==
  ASSUME NEW n \in Nat \ {0}, NEW k \in HashKey
  PROVE  XHASH_TO_BKT(k, 2 * n) % n = XHASH_TO_BKT(k, n)
<1> DEFINE h == HashValue[k]
           q == h \div (2 * n)
           r == h % (2 * n)
<1>1. h \in Nat
  BY KeyAssumption
<1>2. q \in Nat /\ r \in 0 .. 2 * n - 1 /\ h = (2 * n) * q + r
  <2> DEFINE m == 2 * n
  <2>1. m \in Nat \ {0}
    OBVIOUS
  <2> HIDE DEF h, m
  <2>2. h \div m \in Nat /\ h % m \in 0 .. m - 1 /\ h = m * (h \div m) + (h % m)
    BY ONLY <1>1, <2>1
  <2> QED BY ONLY <2>2 DEF q, r, m
<1>3. \A a, c \in Nat : \A x \in 0 .. n - 1 : a = n * c + x => a % n = x
  <2> SUFFICES ASSUME NEW a \in Nat, NEW c \in Nat, NEW x \in 0 .. n - 1, a = n * c + x
               PROVE  a % n = x
    OBVIOUS
  <2> DEFINE d == a \div n
             y == a % n
  <2>1. d \in Nat /\ y \in 0 .. n - 1 /\ a = n * d + y
    OBVIOUS
  <2> HIDE DEF d, y
  <2>2. n * (c - d) = y - x
    <3>1. n * (c - d) = n * c - n * d
      BY <2>1
    <3>2. n * c \in Int /\ n * d \in Int
      BY <2>1
    <3> QED BY ONLY <3>1, <3>2, <2>1, a = n * c + x, a \in Nat, x \in 0 .. n - 1, n \in Nat
  <2>3. ~(c - d >= 1) /\ ~(c - d <= -1)
    <3>1. \A e \in Int : (e >= 1 => n * e >= n) /\ (e <= -1 => n * e <= -n)
      OBVIOUS
    <3> QED BY ONLY <3>1, <2>1, <2>2, n \in Nat, c \in Nat, x \in 0 .. n - 1
  <2>4. c - d = 0
    BY ONLY <2>1, <2>3, c \in Nat
  <2>5. y = x
    BY ONLY <2>1, <2>2, <2>4, n \in Nat, x \in 0 .. n - 1
  <2> QED BY <2>5 DEF y
<1> HIDE DEF h, q, r
<1>4. CASE r < n
  <2>1. h = n * (2 * q) + r /\ r = n * 0 + r /\ r \in 0 .. n - 1
    BY <1>2, <1>4
  <2>2. h % n = r /\ r % n = r
    BY ONLY <2>1, <1>1, <1>2, <1>3
  <2> QED BY <2>2 DEF XHASH_TO_BKT, h, r
<1>5. CASE r >= n
  <2>1. h = n * (2 * q + 1) + (r - n) /\ r = n * 1 + (r - n) /\ r - n \in 0 .. n - 1
    BY <1>2, <1>5
  <2>2. 2 * q + 1 \in Nat /\ 1 \in Nat /\ r \in Nat
    BY <1>2
  <2>3. h % n = r - n /\ r % n = r - n
    BY ONLY <2>1, <2>2, <1>1, <1>3
  <2> QED BY <2>3 DEF XHASH_TO_BKT, h, r
<1> QED BY <1>2, <1>4, <1>5

-----------------------------------------------------------------------------
(* Types *)

LEMMA UserTypesInit == HashInit => UserTypesInv
<1> SUFFICES ASSUME HashInit PROVE UserTypesInv
  OBVIOUS
<1> DEFINE k0 == CHOOSE k \in HashKey : TRUE
           u0 == [pc |-> "idle", key |-> k0, bkt |-> 0, array |-> 0, uses |-> 0]
<1>1. k0 \in HashKey
  BY KeyAssumption
<1>2. u0 \in UserState
  <2> HIDE DEF k0
  <2> QED BY <1>1 DEF UserState, Place, Inside, Holding
<1>3. user \in [User -> UserState]
  <2>1. user \in [User -> {u0}]
    BY DEF HashInit
  <2> HIDE DEF u0
  <2> QED BY ONLY <1>2, <2>1
<1>4. num_buckets \in Nat \ {0} /\ num_items \in Nat /\ array \in Nat
  BY SizeAssumption DEF HashInit
<1>5. DOMAIN buckets = 0 .. num_buckets - 1 /\ \A b \in 0 .. num_buckets - 1 : buckets[b] = Row([k \in HashKey |-> 0], 0)
  BY DEF HashInit
<1>6. buckets = [b \in 0 .. num_buckets - 1 |-> Row(buckets[b].chain, buckets[b].expand_mult)]
  BY DEF HashInit, Row
<1>7. \A b \in 0 .. num_buckets - 1 : buckets[b].chain \in [HashKey -> Nat]
  BY <1>5 DEF Row
<1>8. expand_lock \in [readers : SUBSET User, writer : SUBSET User]
  BY DEF HashInit
<1>9. bucket_mutex \in [0 .. XHASH_MAX_NUM_MUTEX - 1 -> SUBSET User]
  BY DEF HashInit
<1> QED BY ONLY <1>3, <1>4, <1>5, <1>6, <1>7, <1>8, <1>9 DEF UserTypesInv

\* Every step but that of an expansion leaves the rows, but for a count.
LEMMA UserTypesStep == UserTypesInv /\ [HashNext]_hashvars => UserTypesInv'
<1> SUFFICES ASSUME UserTypesInv, [HashNext]_hashvars PROVE UserTypesInv'
  OBVIOUS
<1>0. UserTypesInv
  OBVIOUS
<1>1. CASE UNCHANGED hashvars
  BY ONLY <1>0, <1>1 DEF UserTypesInv, hashvars, UserState
<1>2. ASSUME NEW t \in User, NEW k \in HashKey, XHASH_WRLOCK_BUCKET(t, k) PROVE UserTypesInv'
  <2> DEFINE w == [pc |-> "row", key |-> k, bkt |-> XHASH_TO_BKT(k, num_buckets), array |-> array, uses |-> user[t].uses + 1]
  <2>1. user \in [User -> UserState] /\ num_buckets \in Nat \ {0} /\ array \in Nat
    BY DEF UserTypesInv
  <2>2. w \in UserState
    BY <2>1, HomeInTable DEF UserState, Place, Inside, Holding
  <2>3. user' = [user EXCEPT ![t] = w]
    BY <1>2 DEF XHASH_WRLOCK_BUCKET
  <2>4. user' \in [User -> UserState]
    <3> HIDE DEF w
    <3> QED BY ONLY <2>1, <2>2, <2>3, t \in User
  <2>5. expand_lock' \in [readers : SUBSET User, writer : SUBSET User]
    BY <1>2 DEF XHASH_WRLOCK_BUCKET, UserTypesInv
  <2> QED BY ONLY <1>0, <1>2, <2>4, <2>5 DEF UserTypesInv, XHASH_WRLOCK_BUCKET, tablevars
<1>3. ASSUME NEW t \in User, wrlock_row(t) PROVE UserTypesInv'
  <2>1. UserMoved(t, "find")
    BY <1>3, GoesMoves DEF wrlock_row, Place, Inside, Holding
  <2>2. bucket_mutex' \in [0 .. XHASH_MAX_NUM_MUTEX - 1 -> SUBSET User]
    BY ONLY <1>0, <1>3 DEF UserTypesInv, wrlock_row
  <2> QED BY ONLY <1>0, <1>3, <2>1, <2>2 DEF UserTypesInv, UserMoved, wrlock_row, tablevars
<1>4. ASSUME NEW t \in User, XHASH_FIND(t) PROVE UserTypesInv'
  <2>1. \E p \in Place : UserMoved(t, p)
    BY <1>4, GoesMoves DEF XHASH_FIND, Place, Inside, Holding
  <2> QED BY ONLY <1>0, <1>4, <2>1 DEF UserTypesInv, UserMoved, XHASH_FIND, tablevars
<1>5. ASSUME NEW t \in User, XHASH_ADD_KEYPTR(t) PROVE UserTypesInv'
  <2>1. UserMoved(t, "bucket")
    BY <1>5, GoesMoves DEF XHASH_ADD_KEYPTR, Place, Inside, Holding
  <2> QED BY ONLY <1>0, <1>5, <2>1 DEF UserTypesInv, UserMoved, XHASH_ADD_KEYPTR
<1>6. ASSUME NEW t \in User, XHASH_ADD_TO_BKT(t) PROVE UserTypesInv'
  <2>1. UserMoved(t, "unlock")
    BY <1>6, GoesMoves DEF XHASH_ADD_TO_BKT, Place, Inside, Holding
  <2> DEFINE k == user[t].key
             b == XHASH_TO_BKT(k, num_buckets)
             c == [buckets[b].chain EXCEPT ![k] = @ + 1]
  <2>2. k \in HashKey
    BY DEF UserTypesInv, UserState
  <2>3. b \in 0 .. num_buckets - 1
    BY <2>2, HomeInTable DEF UserTypesInv
  <2>4. c \in [HashKey -> Nat]
    <3> HIDE DEF b, k
    <3> QED BY <2>2, <2>3 DEF UserTypesInv
  <2>5. buckets' = [buckets EXCEPT ![b].chain[k] = @ + 1]
    BY <1>6 DEF XHASH_ADD_TO_BKT
  <2> HIDE DEF b, k
  <2>6. buckets' = [buckets EXCEPT ![b].chain = c]
    BY <2>5
  <2> HIDE DEF c
  <2>7. buckets'[b] = Row(c, buckets[b].expand_mult)
    BY <2>3, <2>6 DEF UserTypesInv, Row
  <2>8. DOMAIN buckets' = 0 .. num_buckets - 1 /\ \A d \in 0 .. num_buckets - 1 : d # b => buckets'[d] = buckets[d]
    BY <2>6 DEF UserTypesInv
  <2>9. \A d \in 0 .. num_buckets - 1 :
          buckets'[d] = Row(buckets'[d].chain, buckets'[d].expand_mult) /\ buckets'[d].chain \in [HashKey -> Nat]
    BY <2>4, <2>7, <2>8 DEF UserTypesInv, Row
  <2>10. buckets' = [d \in 0 .. num_buckets - 1 |-> buckets'[d]]
    BY <2>6, <2>8
  <2>11. buckets' = [d \in 0 .. num_buckets - 1 |-> Row(buckets'[d].chain, buckets'[d].expand_mult)]
    BY <2>9, <2>10
  <2> QED BY ONLY <1>0, <1>6, <2>1, <2>8, <2>9, <2>11 DEF UserTypesInv, UserMoved, XHASH_ADD_TO_BKT
<1>7. ASSUME NEW t \in User, XHASH_UNLOCK_BUCKET(t) PROVE UserTypesInv'
  <2>1. UserMoved(t, "rows")
    BY <1>7, GoesMoves DEF XHASH_UNLOCK_BUCKET, Place
  <2>2. bucket_mutex' \in [0 .. XHASH_MAX_NUM_MUTEX - 1 -> SUBSET User]
    BY ONLY <1>0, <1>7 DEF UserTypesInv, XHASH_UNLOCK_BUCKET
  <2>3. expand_lock' \in [readers : SUBSET User, writer : SUBSET User]
    BY ONLY <1>0, <1>7 DEF UserTypesInv, XHASH_UNLOCK_BUCKET
  <2> QED BY ONLY <1>0, <1>7, <2>1, <2>2, <2>3 DEF UserTypesInv, UserMoved, XHASH_UNLOCK_BUCKET, tablevars
<1>8. ASSUME NEW t \in User, read_rows(t) PROVE UserTypesInv'
  <2>1. user' = [user EXCEPT ![t].pc = "count", ![t].array = array] /\ array \in Nat /\ user \in [User -> UserState]
    BY <1>8 DEF read_rows, UserTypesInv
  <2> DEFINE w == [user[t] EXCEPT !.pc = "count", !.array = array]
  <2>2. w \in UserState
    BY <2>1 DEF UserState, Place
  <2>3. user' = [user EXCEPT ![t] = w]
    BY <2>1
  <2>4. user' \in [User -> UserState]
    <3> HIDE DEF w
    <3> QED BY ONLY <2>1, <2>2, <2>3, t \in User
  <2> QED BY ONLY <1>0, <1>8, <2>4 DEF UserTypesInv, read_rows, tablevars
<1>9. ASSUME NEW t \in User, NEW what \in BOOLEAN, read_count(t, what) PROVE UserTypesInv'
  <2>1. \E p \in Place : UserMoved(t, p)
    BY <1>9, GoesMoves DEF read_count, Place
  <2> QED BY ONLY <1>0, <1>9, <2>1 DEF UserTypesInv, UserMoved, read_count, tablevars
<1>10. ASSUME NEW t \in User, XHASH_EXPAND_BUCKETS(t) PROVE UserTypesInv'
  <2>1. \E p \in Place : UserMoved(t, p)
    BY <1>10, GoesMoves DEF XHASH_EXPAND_BUCKETS, Place
  <2> QED BY ONLY <1>0, <1>10, <2>1 DEF UserTypesInv, UserMoved, XHASH_EXPAND_BUCKETS, tablevars
<1>11. ASSUME NEW t \in User, wrlock_expand(t) PROVE UserTypesInv'
  <2>1. UserMoved(t, "redistribute")
    BY <1>11, GoesMoves DEF wrlock_expand, Place
  <2>2. expand_lock' \in [readers : SUBSET User, writer : SUBSET User]
    BY ONLY <1>0, <1>11, t \in User DEF UserTypesInv, wrlock_expand
  <2> QED BY ONLY <1>0, <1>11, <2>1, <2>2 DEF UserTypesInv, UserMoved, wrlock_expand, tablevars
<1>12. ASSUME NEW t \in User, redistribute(t) PROVE UserTypesInv'
  <2>1. UserMoved(t, "idle")
    BY <1>12, GoesMoves DEF redistribute, Place
  <2>2. expand_lock' \in [readers : SUBSET User, writer : SUBSET User]
    BY ONLY <1>0, <1>12 DEF UserTypesInv, redistribute
  <2>3. num_buckets' = 2 * num_buckets /\ num_buckets' \in Nat \ {0} /\ array' \in Nat
    <3>1. num_buckets' = 2 * num_buckets /\ array' = array + 1
      BY <1>12 DEF redistribute
    <3> QED BY ONLY <1>0, <3>1 DEF UserTypesInv
  <2>4. DOMAIN buckets' = 0 .. num_buckets' - 1
    BY <1>12, <2>3 DEF redistribute
  <2>5. \A b \in 0 .. num_buckets' - 1 : buckets'[b] = Row(Redistributed(b), buckets'[b].expand_mult)
    BY <1>12, <2>3 DEF redistribute, Row
  <2>6. \A b \in 0 .. num_buckets' - 1 : buckets'[b].chain = Redistributed(b)
    <3> TAKE b \in 0 .. num_buckets' - 1
    <3> DEFINE m == buckets'[b].expand_mult
    <3>1. buckets'[b] = Row(Redistributed(b), m)
      BY ONLY <2>5, b \in 0 .. num_buckets' - 1
    <3> HIDE DEF m
    <3> QED BY ONLY <3>1 DEF Row
  <2>7. \A b \in 0 .. num_buckets' - 1 : Redistributed(b) \in [HashKey -> Nat]
    <3> SUFFICES ASSUME NEW b \in 0 .. num_buckets' - 1 PROVE Redistributed(b) \in [HashKey -> Nat]
      OBVIOUS
    <3>1. b % num_buckets \in 0 .. num_buckets - 1
      BY <2>3 DEF UserTypesInv
    <3>2. buckets[b % num_buckets].chain \in [HashKey -> Nat]
      BY ONLY <1>0, <3>1 DEF UserTypesInv
    <3> QED BY <3>2 DEF Redistributed
  <2>8. buckets' = [b \in 0 .. num_buckets' - 1 |-> buckets'[b]]
    BY <1>12, <2>3 DEF redistribute
  <2>9. buckets' = [b \in 0 .. num_buckets' - 1 |-> Row(buckets'[b].chain, buckets'[b].expand_mult)]
    BY ONLY <2>5, <2>6, <2>8
  <2>10. \A b \in 0 .. num_buckets' - 1 : buckets'[b].chain \in [HashKey -> Nat]
    BY ONLY <2>6, <2>7
  <2>11. UNCHANGED <<num_items, bucket_mutex>>
    BY <1>12 DEF redistribute
  <2> QED BY ONLY <1>0, <2>1, <2>2, <2>3, <2>4, <2>9, <2>10, <2>11 DEF UserTypesInv, UserMoved
<1> QED
  BY ONLY [HashNext]_hashvars, <1>1, <1>2, <1>3, <1>4, <1>5, <1>6, <1>7, <1>8, <1>9, <1>10, <1>11, <1>12
     DEF HashNext

-----------------------------------------------------------------------------
(* Locks *)

LEMMA LockInit == HashInit => UserLockInv
<1> SUFFICES ASSUME HashInit PROVE UserLockInv
  OBVIOUS
<1>1. \A t \in User : user[t].pc = "idle"
  BY DEF HashInit
<1>2. expand_lock = [readers |-> {}, writer |-> {}] /\ bucket_mutex = [m \in 0 .. XHASH_MAX_NUM_MUTEX - 1 |-> {}]
  BY DEF HashInit
<1> QED BY ONLY <1>1, <1>2 DEF UserLockInv, Inside, Holding

\* A thread that goes from one place to another with the same locks.
LEMMA LockKept ==
  ASSUME UserLockInv, NEW t \in User, NEW p \in Place, UserMoved(t, p),
         user[t].pc \in Inside <=> p \in Inside, user[t].pc \in Holding <=> p \in Holding,
         user[t].pc # "redistribute", p # "redistribute",
         UNCHANGED <<num_buckets, expand_lock, bucket_mutex>>
  PROVE  UserLockInv'
<1>1. \A u \in User :
        /\ user'[u].key = user[u].key /\ user'[u].bkt = user[u].bkt
        /\ user'[u].pc \in Inside <=> user[u].pc \in Inside
        /\ user'[u].pc \in Holding <=> user[u].pc \in Holding
        /\ user'[u].pc = "redistribute" <=> user[u].pc = "redistribute"
  BY DEF UserMoved
<1>2. UserLockInv /\ UNCHANGED <<num_buckets, expand_lock, bucket_mutex>>
  OBVIOUS
<1> QED BY ONLY <1>1, <1>2 DEF UserLockInv, Home, XHASH_TO_BKT, MutexOf

\* Those who use a row share the lock against expansion and have the row's lock alone.
LEMMA LockStep == UserTypesInv /\ UserLockInv /\ [HashNext]_hashvars => UserLockInv'
<1> SUFFICES ASSUME UserTypesInv, UserLockInv, [HashNext]_hashvars PROVE UserLockInv'
  OBVIOUS
<1>0. UserTypesInv /\ UserLockInv
  OBVIOUS
<1> USE DEF Place, Inside, Holding, AtPlace
<1>1. CASE UNCHANGED hashvars
  BY ONLY <1>0, <1>1 DEF UserLockInv, hashvars, Home, XHASH_TO_BKT, MutexOf
<1>2. ASSUME NEW t \in User, NEW k \in HashKey, XHASH_WRLOCK_BUCKET(t, k) PROVE UserLockInv'
  <2>1. user \in [User -> UserState]
    BY DEF UserTypesInv
  <2>2. user[t].pc = "idle" /\ user'[t].pc = "row" /\ user'[t].key = k /\ user'[t].bkt = XHASH_TO_BKT(k, num_buckets)
    BY <1>2, <2>1 DEF XHASH_WRLOCK_BUCKET
  <2>3. \A u \in User : u # t => user'[u] = user[u]
    BY <1>2, <2>1 DEF XHASH_WRLOCK_BUCKET
  <2>4. expand_lock.writer = {} /\ expand_lock'.readers = expand_lock.readers \cup {t}
        /\ expand_lock'.writer = expand_lock.writer /\ UNCHANGED <<num_buckets, bucket_mutex>>
    BY <1>2 DEF XHASH_WRLOCK_BUCKET, UserTypesInv, tablevars
  <2> QED BY ONLY <1>0, <2>2, <2>3, <2>4, t \in User DEF UserLockInv, Home, XHASH_TO_BKT, MutexOf
<1>3. ASSUME NEW t \in User, wrlock_row(t) PROVE UserLockInv'
  <2>1. UserMoved(t, "find") /\ user[t].pc = "row"
    BY <1>3, GoesMoves DEF wrlock_row
  <2> DEFINE m == MutexOf(user[t].bkt)
  <2>2. m \in 0 .. XHASH_MAX_NUM_MUTEX - 1
    BY LockOfRow DEF UserTypesInv, UserState
  <2>3. bucket_mutex[m] = {} /\ bucket_mutex' = [bucket_mutex EXCEPT ![m] = {t}]
        /\ UNCHANGED <<num_buckets, expand_lock>>
    BY <1>3 DEF wrlock_row, tablevars
  <2> HIDE DEF m
  <2>4. bucket_mutex'[m] = {t} /\ \A n \in 0 .. XHASH_MAX_NUM_MUTEX - 1 : n # m => bucket_mutex'[n] = bucket_mutex[n]
    BY <2>2, <2>3 DEF UserTypesInv
  <2>5. \A u \in User : user[u].pc \in Holding => MutexOf(user[u].bkt) # m
    BY ONLY <1>0, <2>2, <2>3 DEF UserLockInv
  <2>6. user'[t].pc = "find" /\ MutexOf(user'[t].bkt) = m /\ user'[t].bkt = user[t].bkt /\ user'[t].key = user[t].key
    BY <2>1 DEF UserMoved, m
  <2>7. \A u \in User : u # t => user'[u] = user[u]
    BY <2>1 DEF UserMoved
  <2>8. /\ expand_lock'.readers = {u \in User : user'[u].pc \in Inside}
        /\ expand_lock'.writer = {u \in User : user'[u].pc = "redistribute"}
        /\ expand_lock'.writer # {} => expand_lock'.readers = {}
        /\ \A u, v \in expand_lock'.writer : u = v
    BY ONLY <1>0, <2>1, <2>3, <2>6, <2>7 DEF UserLockInv
  <2>9. \A u \in User : user'[u].pc \in Inside => user'[u].bkt = Home(user'[u].key)
    BY ONLY <1>0, <2>1, <2>6, <2>7 DEF UserLockInv
  <2>10. \A n \in 0 .. XHASH_MAX_NUM_MUTEX - 1 :
           bucket_mutex'[n] = {u \in User : user'[u].pc \in Holding /\ MutexOf(user'[u].bkt) = n}
    <3> SUFFICES ASSUME NEW n \in 0 .. XHASH_MAX_NUM_MUTEX - 1
                 PROVE  bucket_mutex'[n] = {u \in User : user'[u].pc \in Holding /\ MutexOf(user'[u].bkt) = n}
      OBVIOUS
    <3>1. bucket_mutex[n] = {u \in User : user[u].pc \in Holding /\ MutexOf(user[u].bkt) = n}
      BY ONLY <1>0, n \in 0 .. XHASH_MAX_NUM_MUTEX - 1 DEF UserLockInv
    <3>2. CASE n = m
      BY ONLY <2>4, <2>5, <2>6, <2>7, <3>2, t \in User
    <3>3. CASE n # m
      BY ONLY <2>1, <2>4, <2>6, <2>7, <3>1, <3>3, n \in 0 .. XHASH_MAX_NUM_MUTEX - 1
    <3> QED BY <3>2, <3>3
  <2>11. \A u, v \in User :
           user'[u].pc \in Holding /\ user'[v].pc \in Holding /\ MutexOf(user'[u].bkt) = MutexOf(user'[v].bkt)
             => u = v
    BY ONLY <1>0, <2>5, <2>6, <2>7 DEF UserLockInv
  <2> QED BY ONLY <2>3, <2>8, <2>9, <2>10, <2>11 DEF UserLockInv, MutexOf, Home, XHASH_TO_BKT
<1>4. ASSUME NEW t \in User, XHASH_FIND(t) PROVE UserLockInv'
  <2>1. \E p \in {"unlock", "add"} : UserMoved(t, p)
    BY <1>4, GoesMoves DEF XHASH_FIND
  <2> QED BY <1>4, <2>1, LockKept DEF XHASH_FIND, tablevars
<1>5. ASSUME NEW t \in User, XHASH_ADD_KEYPTR(t) PROVE UserLockInv'
  <2>1. UserMoved(t, "bucket")
    BY <1>5, GoesMoves DEF XHASH_ADD_KEYPTR
  <2> QED BY <1>5, <2>1, LockKept DEF XHASH_ADD_KEYPTR
<1>6. ASSUME NEW t \in User, XHASH_ADD_TO_BKT(t) PROVE UserLockInv'
  <2>1. UserMoved(t, "unlock")
    BY <1>6, GoesMoves DEF XHASH_ADD_TO_BKT
  <2> QED BY <1>6, <2>1, LockKept DEF XHASH_ADD_TO_BKT
<1>7. ASSUME NEW t \in User, XHASH_UNLOCK_BUCKET(t) PROVE UserLockInv'
  <2>1. UserMoved(t, "rows") /\ user[t].pc = "unlock"
    BY <1>7, GoesMoves DEF XHASH_UNLOCK_BUCKET
  <2> DEFINE m == MutexOf(user[t].bkt)
  <2>2. m \in 0 .. XHASH_MAX_NUM_MUTEX - 1
    BY LockOfRow DEF UserTypesInv, UserState
  <2>3. user[t].bkt = XHASH_TO_BKT(user[t].key, num_buckets)
    BY ONLY <1>0, <2>1, t \in User DEF UserLockInv, Home
  <2>4. bucket_mutex' = [bucket_mutex EXCEPT ![m] = {}] /\ UNCHANGED num_buckets
        /\ expand_lock' = [expand_lock EXCEPT !.readers = @ \ {t}]
    BY <1>7, <2>3 DEF XHASH_UNLOCK_BUCKET, tablevars
  <2> HIDE DEF m
  <2>5. bucket_mutex'[m] = {} /\ \A n \in 0 .. XHASH_MAX_NUM_MUTEX - 1 : n # m => bucket_mutex'[n] = bucket_mutex[n]
    BY <2>2, <2>4 DEF UserTypesInv
  <2>6. expand_lock'.readers = expand_lock.readers \ {t} /\ expand_lock'.writer = expand_lock.writer
    BY <2>4 DEF UserTypesInv
  <2>7. user'[t].pc = "rows" /\ \A u \in User : u # t => user'[u] = user[u]
    BY <2>1 DEF UserMoved
  <2>8. \A u \in User : user[u].pc \in Holding /\ MutexOf(user[u].bkt) = m => u = t
    BY ONLY <1>0, <2>1, t \in User DEF UserLockInv, m
  <2>9. /\ expand_lock'.readers = {u \in User : user'[u].pc \in Inside}
        /\ expand_lock'.writer = {u \in User : user'[u].pc = "redistribute"}
        /\ expand_lock'.writer # {} => expand_lock'.readers = {}
        /\ \A u, v \in expand_lock'.writer : u = v
    BY ONLY <1>0, <2>1, <2>6, <2>7 DEF UserLockInv
  <2>10. \A u \in User : user'[u].pc \in Inside => user'[u].bkt = Home(user'[u].key)
    BY ONLY <1>0, <2>7 DEF UserLockInv
  <2>11. \A n \in 0 .. XHASH_MAX_NUM_MUTEX - 1 :
           bucket_mutex'[n] = {u \in User : user'[u].pc \in Holding /\ MutexOf(user'[u].bkt) = n}
    <3> SUFFICES ASSUME NEW n \in 0 .. XHASH_MAX_NUM_MUTEX - 1
                 PROVE  bucket_mutex'[n] = {u \in User : user'[u].pc \in Holding /\ MutexOf(user'[u].bkt) = n}
      OBVIOUS
    <3>1. bucket_mutex[n] = {u \in User : user[u].pc \in Holding /\ MutexOf(user[u].bkt) = n}
      BY ONLY <1>0, n \in 0 .. XHASH_MAX_NUM_MUTEX - 1 DEF UserLockInv
    <3>2. CASE n = m
      BY ONLY <2>5, <2>7, <2>8, <3>2
    <3>3. CASE n # m
      <4>1. MutexOf(user[t].bkt) = m
        BY DEF m
      <4> QED BY ONLY <2>5, <2>7, <3>1, <3>3, <4>1, n \in 0 .. XHASH_MAX_NUM_MUTEX - 1
    <3> QED BY <3>2, <3>3
  <2>12. \A u, v \in User :
           user'[u].pc \in Holding /\ user'[v].pc \in Holding /\ MutexOf(user'[u].bkt) = MutexOf(user'[v].bkt)
             => u = v
    BY ONLY <1>0, <2>7 DEF UserLockInv
  <2> QED BY ONLY <2>4, <2>9, <2>10, <2>11, <2>12 DEF UserLockInv, MutexOf, Home, XHASH_TO_BKT
<1>8. ASSUME NEW t \in User, read_rows(t) PROVE UserLockInv'
  <2>1. user \in [User -> UserState] /\ user' = [user EXCEPT ![t].pc = "count", ![t].array = array]
    BY <1>8 DEF read_rows, UserTypesInv
  <2>2. user'[t].pc = "count" /\ user'[t].key = user[t].key /\ user'[t].bkt = user[t].bkt
        /\ \A u \in User : u # t => user'[u] = user[u]
    BY <2>1 DEF UserState
  <2>3. UserMoved(t, "count")
    <3>1. UserTypesInv'
      BY UserTypesStep
    <3> QED BY <2>2, <3>1 DEF UserMoved, UserTypesInv
  <2> QED BY <1>8, <2>3, LockKept DEF read_rows, tablevars
<1>9. ASSUME NEW t \in User, NEW what \in BOOLEAN, read_count(t, what) PROVE UserLockInv'
  <2>1. \E p \in {"expand", "idle"} : UserMoved(t, p)
    BY <1>9, GoesMoves DEF read_count
  <2> QED BY <1>9, <2>1, LockKept DEF read_count, tablevars
<1>10. ASSUME NEW t \in User, XHASH_EXPAND_BUCKETS(t) PROVE UserLockInv'
  <2>1. \E p \in {"wrlock", "idle"} : UserMoved(t, p)
    BY <1>10, GoesMoves DEF XHASH_EXPAND_BUCKETS
  <2> QED BY <1>10, <2>1, LockKept DEF XHASH_EXPAND_BUCKETS, tablevars
<1>11. ASSUME NEW t \in User, wrlock_expand(t) PROVE UserLockInv'
  <2>1. UserMoved(t, "redistribute") /\ user[t].pc = "wrlock"
    BY <1>11, GoesMoves DEF wrlock_expand
  <2>2. /\ expand_lock.readers = {} /\ expand_lock.writer = {}
        /\ expand_lock'.readers = {} /\ expand_lock'.writer = {t}
        /\ UNCHANGED <<num_buckets, bucket_mutex>>
    BY <1>11 DEF wrlock_expand, tablevars
  <2>3. user'[t].pc = "redistribute" /\ \A u \in User : u # t => user'[u] = user[u]
    BY <2>1 DEF UserMoved
  <2> QED BY ONLY <1>0, <2>1, <2>2, <2>3, t \in User DEF UserLockInv, Home, XHASH_TO_BKT, MutexOf
<1>12. ASSUME NEW t \in User, redistribute(t) PROVE UserLockInv'
  <2>1. UserMoved(t, "idle") /\ user[t].pc = "redistribute"
    BY <1>12, GoesMoves DEF redistribute
  <2>2. expand_lock' = [expand_lock EXCEPT !.writer = {}] /\ UNCHANGED bucket_mutex
    BY <1>12 DEF redistribute
  <2>3. expand_lock'.readers = expand_lock.readers /\ expand_lock'.writer = {}
    BY <2>2 DEF UserTypesInv
  <2>4. user'[t].pc = "idle" /\ \A u \in User : u # t => user'[u] = user[u]
    BY <2>1 DEF UserMoved
  <2>5. \A u \in User : user[u].pc \notin Inside /\ (user[u].pc = "redistribute" => u = t)
    <3>1. t \in expand_lock.writer
      BY ONLY <1>0, <2>1, t \in User DEF UserLockInv
    <3>2. expand_lock.readers = {}
      BY ONLY <1>0, <3>1 DEF UserLockInv
    <3>3. \A u \in expand_lock.writer : u = t
      BY ONLY <1>0, <3>1 DEF UserLockInv
    <3> QED BY ONLY <1>0, <3>2, <3>3 DEF UserLockInv
  <2> QED BY ONLY <1>0, <2>2, <2>3, <2>4, <2>5 DEF UserLockInv, MutexOf
<1> QED
  BY ONLY [HashNext]_hashvars, <1>1, <1>2, <1>3, <1>4, <1>5, <1>6, <1>7, <1>8, <1>9, <1>10, <1>11, <1>12
     DEF HashNext

-----------------------------------------------------------------------------
(* Entries *)

LEMMA KeysInit == HashInit => KeysInv
<1> SUFFICES ASSUME HashInit PROVE KeysInv
  OBVIOUS
<1>1. UserTypesInv
  BY UserTypesInit
<1>2. \A b \in 0 .. num_buckets - 1 : \A k \in HashKey : buckets[b].chain[k] = 0
  BY DEF HashInit, Row
<1>3. \A t \in User : user[t].pc = "idle"
  BY DEF HashInit
<1>4. \A k \in HashKey : buckets[Home(k)].chain[k] = 0
  BY <1>1, <1>2, HomeInTable DEF UserTypesInv, Home
<1>5. Kept = {} /\ Adding = {}
  BY <1>3, <1>4 DEF Kept, Adding, AtPlace, Home
<1>6. num_items = 0
  BY DEF HashInit
<1> QED BY ONLY <1>1, <1>2, <1>3, <1>5, <1>6, FS_EmptySet DEF KeysInv, EntriesKept, UserTypesInv

\* A step that neither counts nor adds an entry.
LEMMA KeysKept ==
  ASSUME KeysInv, NEW t \in User, \A u \in User : u # t => user'[u] = user[u],
         user'[t].pc = "bucket" <=> user[t].pc = "bucket",
         user'[t].pc \in {"add", "bucket"} => buckets[Home(user'[t].key)].chain[user'[t].key] = 0,
         UNCHANGED <<num_buckets, buckets, num_items>>
  PROVE  KeysInv'
<1>1. Adding' = Adding
  BY DEF Adding, AtPlace
<1>2. Kept' = Kept
  BY DEF Kept, XHASH_TO_BKT
<1>3. EntriesKept'
  BY <1>1, <1>2 DEF KeysInv, EntriesKept, XHASH_TO_BKT
<1>4. \A u \in User : user'[u].pc \in {"add", "bucket"} => buckets'[Home(user[u].key)'].chain[user'[u].key] = 0
  BY DEF KeysInv, Home, XHASH_TO_BKT
<1> QED BY <1>3, <1>4 DEF KeysInv

\* A key gets its entry when it has none, and keeps it when the table grows.
LEMMA KeysStep == UserTypesInv /\ UserLockInv /\ KeysInv /\ [HashNext]_hashvars => KeysInv'
<1> SUFFICES ASSUME UserTypesInv, UserLockInv, KeysInv, [HashNext]_hashvars PROVE KeysInv'
  OBVIOUS
<1>0. UserTypesInv /\ UserLockInv /\ KeysInv
  OBVIOUS
<1> USE DEF Place, Inside, Holding, AtPlace
<1>a. IsFiniteSet(Adding) /\ IsFiniteSet(Kept) /\ Cardinality(Adding) \in Nat /\ Cardinality(Kept) \in Nat
  <2>1. Adding \subseteq User /\ Kept \subseteq HashKey
    BY DEF Adding, Kept
  <2> QED BY ONLY <2>1, UserAssumption, KeyAssumption, FS_Subset, FS_CardinalityType
<1>b. \A u \in User : user[u].pc \in Holding => user[u].bkt = Home(user[u].key)
  BY ONLY <1>0 DEF UserLockInv
<1>1. CASE UNCHANGED hashvars
  <2>1. Adding' = Adding /\ Kept' = Kept
    BY <1>1 DEF Adding, Kept, hashvars, XHASH_TO_BKT
  <2> QED BY ONLY <1>0, <1>1, <2>1 DEF KeysInv, EntriesKept, hashvars, Home, XHASH_TO_BKT
<1>2. ASSUME NEW t \in User, NEW k \in HashKey, XHASH_WRLOCK_BUCKET(t, k) PROVE KeysInv'
  <2>1. user \in [User -> UserState]
    BY DEF UserTypesInv
  <2>2. user[t].pc = "idle" /\ user'[t].pc = "row" /\ \A u \in User : u # t => user'[u] = user[u]
    BY <1>2, <2>1 DEF XHASH_WRLOCK_BUCKET
  <2> QED BY <1>2, <2>2, KeysKept DEF XHASH_WRLOCK_BUCKET, tablevars
<1>3. ASSUME NEW t \in User, wrlock_row(t) PROVE KeysInv'
  <2>1. UserMoved(t, "find")
    BY <1>3, GoesMoves DEF wrlock_row
  <2> QED BY <1>3, <2>1, KeysKept DEF wrlock_row, tablevars, UserMoved
<1>4. ASSUME NEW t \in User, XHASH_FIND(t) PROVE KeysInv'
  <2> DEFINE k == user[t].key
  <2>1. k \in HashKey /\ user[t].bkt = Home(k)
    BY <1>4, <1>b DEF XHASH_FIND, UserTypesInv, UserState
  <2>2. Home(k) \in 0 .. num_buckets - 1
    BY <2>1, HomeInTable DEF UserTypesInv, Home
  <2>3. buckets[Home(k)].chain[k] \in Nat
    BY <2>1, <2>2 DEF UserTypesInv
  <2>4. CASE buckets[Home(k)].chain[k] > 0
    <3>1. UserMoved(t, "unlock")
      BY <1>4, <2>1, <2>4, GoesMoves DEF XHASH_FIND
    <3> QED BY <1>4, <3>1, KeysKept DEF XHASH_FIND, tablevars, UserMoved
  <2>5. CASE ~(buckets[Home(k)].chain[k] > 0)
    <3>1. UserMoved(t, "add")
      BY <1>4, <2>1, <2>5, GoesMoves DEF XHASH_FIND
    <3>2. buckets[Home(k)].chain[k] = 0
      BY ONLY <2>3, <2>5
    <3> QED BY <1>4, <3>1, <3>2, KeysKept DEF XHASH_FIND, tablevars, UserMoved
  <2> QED BY <2>4, <2>5
<1>5. ASSUME NEW t \in User, XHASH_ADD_KEYPTR(t) PROVE KeysInv'
  <2>1. UserMoved(t, "bucket") /\ user[t].pc = "add" /\ num_items' = num_items + 1 /\ UNCHANGED <<num_buckets, buckets>>
    BY <1>5, GoesMoves DEF XHASH_ADD_KEYPTR
  <2>2. Adding' = Adding \cup {t} /\ t \notin Adding
    BY <2>1 DEF Adding, UserMoved
  <2>3. Cardinality(Adding') = Cardinality(Adding) + 1
    BY ONLY <1>a, <2>2, FS_AddElement
  <2>4. Kept' = Kept
    BY <2>1 DEF Kept, XHASH_TO_BKT
  <2>5. num_items' = Cardinality(Kept') + Cardinality(Adding')
    BY ONLY <1>0, <1>a, <2>1, <2>3, <2>4 DEF KeysInv, EntriesKept
  <2> QED BY ONLY <1>0, <2>1, <2>5 DEF KeysInv, EntriesKept, UserMoved, Home, XHASH_TO_BKT
<1>6. ASSUME NEW t \in User, XHASH_ADD_TO_BKT(t) PROVE KeysInv'
  <2> DEFINE k == user[t].key
             b == Home(k)
  <2>1. UserMoved(t, "unlock") /\ user[t].pc = "bucket" /\ UNCHANGED <<num_buckets, num_items>>
    BY <1>6, GoesMoves DEF XHASH_ADD_TO_BKT
  <2>2. k \in HashKey
    BY DEF UserTypesInv, UserState
  <2>3. b \in 0 .. num_buckets - 1
    BY <2>2, HomeInTable DEF UserTypesInv, Home
  <2>4. buckets' = [buckets EXCEPT ![b].chain[k] = @ + 1]
    BY <1>6 DEF XHASH_ADD_TO_BKT, Home
  <2>5. buckets[b].chain[k] = 0
    BY ONLY <1>0, <2>1, t \in User DEF KeysInv
  <2>6. \A u \in User : u # t /\ user[u].pc \in {"add", "bucket"} => user[u].key # k
    BY ONLY <1>0, <1>b, <2>1, t \in User DEF UserLockInv
  <2> HIDE DEF b
  <2>7. DOMAIN buckets' = DOMAIN buckets /\ buckets'[b].chain[k] = 1
        /\ \A d \in DOMAIN buckets, x \in HashKey : <<d, x>> # <<b, k>> => buckets'[d].chain[x] = buckets[d].chain[x]
    <3> HIDE DEF k
    <3>0. DOMAIN buckets = 0 .. num_buckets - 1 /\ \A d \in DOMAIN buckets : buckets[d].chain \in [HashKey -> Nat]
      BY DEF UserTypesInv
    <3> DEFINE c == [buckets[b].chain EXCEPT ![k] = @ + 1]
    <3>1. buckets' = [buckets EXCEPT ![b].chain = c]
      BY <2>4
    <3>2. c[k] = 1 /\ \A x \in HashKey : x # k => c[x] = buckets[b].chain[x]
      BY <2>2, <2>3, <2>5, <3>0
    <3> HIDE DEF c
    <3>3. buckets[b] = Row(buckets[b].chain, buckets[b].expand_mult)
      BY <2>3 DEF UserTypesInv
    <3>4. buckets'[b].chain = c
      BY <2>3, <3>0, <3>1, <3>3 DEF Row
    <3>5. DOMAIN buckets' = DOMAIN buckets /\ \A d \in DOMAIN buckets : d # b => buckets'[d] = buckets[d]
      BY <3>1
    <3> QED BY ONLY <3>2, <3>4, <3>5
  <2>8. \A x \in HashKey : Home(x)' = Home(x) /\ Home(x) \in DOMAIN buckets
    BY <2>1, HomeInTable DEF UserTypesInv, Home, XHASH_TO_BKT
  <2>9. Kept' = Kept \cup {k} /\ k \notin Kept
    <3>1. Kept = {x \in HashKey : buckets[Home(x)].chain[x] > 0}
      BY DEF Kept, Home
    <3>2. Kept' = {x \in HashKey : buckets'[Home(x)].chain[x] > 0}
      BY <2>8 DEF Kept, Home
    <3>3. b = Home(k)
      BY DEF b
    <3> HIDE DEF k
    <3> QED BY ONLY <2>2, <2>5, <2>7, <2>8, <3>1, <3>2, <3>3
  <2>10. Adding' = Adding \ {t} /\ t \in Adding
    BY <2>1 DEF Adding, UserMoved
  <2>11. num_items' = Cardinality(Kept') + Cardinality(Adding')
    <3>1. Cardinality(Kept') = Cardinality(Kept) + 1
      BY ONLY <1>a, <2>9, FS_AddElement
    <3>2. Cardinality(Adding') = Cardinality(Adding) - 1
      BY ONLY <1>a, <2>10, FS_RemoveElement
    <3>3. num_items = Cardinality(Kept) + Cardinality(Adding) /\ num_items' = num_items
      BY ONLY <1>0, <2>1 DEF KeysInv, EntriesKept
    <3> QED BY ONLY <1>a, <3>1, <3>2, <3>3
  <2>12. \A d \in DOMAIN buckets', x \in HashKey :
           buckets'[d].chain[x] <= IF d = Home(x) THEN 1 ELSE 0
    <3>1. \A d \in DOMAIN buckets, x \in HashKey : buckets[d].chain[x] <= IF d = Home(x) THEN 1 ELSE 0
      BY DEF KeysInv, EntriesKept, Home
    <3>2. b = Home(k)
      BY DEF b
    <3> HIDE DEF k
    <3> QED BY ONLY <2>7, <3>1, <3>2
  <2>13. EntriesKept'
    BY ONLY <2>8, <2>11, <2>12 DEF EntriesKept, Home
  <2>14. \A u \in User : user'[u].pc \in {"add", "bucket"} => buckets'[Home(user'[u].key)].chain[user'[u].key] = 0
    <3> SUFFICES ASSUME NEW u \in User, user'[u].pc \in {"add", "bucket"}
                 PROVE  buckets'[Home(user'[u].key)].chain[user'[u].key] = 0
      OBVIOUS
    <3>1. u # t /\ user'[u] = user[u]
      BY <2>1 DEF UserMoved
    <3>2. user[u].key # k /\ user[u].key \in HashKey
      BY <2>6, <3>1 DEF UserTypesInv, UserState
    <3>3. buckets[Home(user[u].key)].chain[user[u].key] = 0
      BY <3>1 DEF KeysInv
    <3> HIDE DEF k
    <3> QED BY ONLY <2>7, <2>8, <3>1, <3>2, <3>3
  <2> QED BY ONLY <2>1, <2>13, <2>14 DEF KeysInv, Home, XHASH_TO_BKT
<1>7. ASSUME NEW t \in User, XHASH_UNLOCK_BUCKET(t) PROVE KeysInv'
  <2>1. UserMoved(t, "rows")
    BY <1>7, GoesMoves DEF XHASH_UNLOCK_BUCKET
  <2> QED BY <1>7, <2>1, KeysKept DEF XHASH_UNLOCK_BUCKET, tablevars, UserMoved
<1>8. ASSUME NEW t \in User, read_rows(t) PROVE KeysInv'
  <2>1. user \in [User -> UserState]
    BY DEF UserTypesInv
  <2>2. user[t].pc = "rows" /\ user'[t].pc = "count" /\ \A u \in User : u # t => user'[u] = user[u]
    BY <1>8, <2>1 DEF read_rows, UserState
  <2> QED BY <1>8, <2>2, KeysKept DEF read_rows, tablevars
<1>9. ASSUME NEW t \in User, NEW what \in BOOLEAN, read_count(t, what) PROVE KeysInv'
  <2>1. \E p \in {"expand", "idle"} : UserMoved(t, p)
    BY <1>9, GoesMoves DEF read_count
  <2> QED BY <1>9, <2>1, KeysKept DEF read_count, tablevars, UserMoved
<1>10. ASSUME NEW t \in User, XHASH_EXPAND_BUCKETS(t) PROVE KeysInv'
  <2>1. \E p \in {"wrlock", "idle"} : UserMoved(t, p)
    BY <1>10, GoesMoves DEF XHASH_EXPAND_BUCKETS
  <2> QED BY <1>10, <2>1, KeysKept DEF XHASH_EXPAND_BUCKETS, tablevars, UserMoved
<1>11. ASSUME NEW t \in User, wrlock_expand(t) PROVE KeysInv'
  <2>1. UserMoved(t, "redistribute")
    BY <1>11, GoesMoves DEF wrlock_expand
  <2> QED BY <1>11, <2>1, KeysKept DEF wrlock_expand, tablevars, UserMoved
<1>12. ASSUME NEW t \in User, redistribute(t) PROVE KeysInv'
  <2>1. UserMoved(t, "idle") /\ user[t].pc = "redistribute" /\ num_buckets' = 2 * num_buckets /\ UNCHANGED num_items
    BY <1>12, GoesMoves DEF redistribute
  <2>2. \A u \in User : user[u].pc \notin Inside
    BY ONLY <1>0, <2>1, t \in User DEF UserLockInv
  <2>3. \A u \in User : user'[u].pc \notin {"add", "bucket"}
    BY ONLY <2>1, <2>2 DEF UserMoved
  <2>4. Adding' = Adding
    BY ONLY <2>2, <2>3 DEF Adding
  <2>5. DOMAIN buckets' = 0 .. 2 * num_buckets - 1 /\ \A b \in 0 .. 2 * num_buckets - 1 : buckets'[b].chain = Redistributed(b)
    BY <1>12 DEF redistribute, Row
  <2>6. num_buckets \in Nat \ {0} /\ 2 * num_buckets \in Nat \ {0}
    BY DEF UserTypesInv
  <2>7. \A x \in HashKey : XHASH_TO_BKT(x, 2 * num_buckets) \in 0 .. 2 * num_buckets - 1
                        /\ XHASH_TO_BKT(x, 2 * num_buckets) % num_buckets = Home(x)
    BY ONLY <2>6, HomeInTable, HomeSplits DEF Home
  <2>8. \A b \in 0 .. 2 * num_buckets - 1 : \A x \in HashKey :
          buckets'[b].chain[x] = IF XHASH_TO_BKT(x, 2 * num_buckets) = b THEN buckets[Home(x)].chain[x] ELSE 0
    <3> TAKE b \in 0 .. 2 * num_buckets - 1
    <3> TAKE x \in HashKey
    <3>1. buckets'[b].chain[x] = Redistributed(b)[x]
      BY ONLY <2>5, b \in 0 .. 2 * num_buckets - 1
    <3>2. Redistributed(b)[x] = IF XHASH_TO_BKT(x, 2 * num_buckets) = b THEN buckets[b % num_buckets].chain[x] ELSE 0
      BY ONLY x \in HashKey DEF Redistributed
    <3>3. XHASH_TO_BKT(x, 2 * num_buckets) = b => b % num_buckets = Home(x)
      BY ONLY <2>7, x \in HashKey
    <3> QED BY ONLY <3>1, <3>2, <3>3
  <2>9. \A x \in HashKey : buckets[Home(x)].chain[x] <= 1
    BY HomeInTable DEF KeysInv, EntriesKept, UserTypesInv, Home
  <2>10. Kept' = Kept
    <3>1. Kept = {x \in HashKey : buckets[Home(x)].chain[x] > 0}
      BY DEF Kept, Home
    <3>2. Kept' = {x \in HashKey : buckets'[XHASH_TO_BKT(x, 2 * num_buckets)].chain[x] > 0}
      BY <2>1 DEF Kept, XHASH_TO_BKT
    <3> QED BY ONLY <2>7, <2>8, <3>1, <3>2
  <2>11. \A b \in DOMAIN buckets', x \in HashKey :
           buckets'[b].chain[x] <= IF b = XHASH_TO_BKT(x, 2 * num_buckets) THEN 1 ELSE 0
    BY ONLY <2>5, <2>8, <2>9
  <2>12. num_items' = Cardinality(Kept') + Cardinality(Adding')
    BY ONLY <1>0, <2>1, <2>4, <2>10 DEF KeysInv, EntriesKept
  <2>13. EntriesKept'
    BY ONLY <2>1, <2>11, <2>12 DEF EntriesKept, XHASH_TO_BKT
  <2> QED BY ONLY <2>3, <2>13 DEF KeysInv
<1> QED
  BY ONLY [HashNext]_hashvars, <1>1, <1>2, <1>3, <1>4, <1>5, <1>6, <1>7, <1>8, <1>9, <1>10, <1>11, <1>12
     DEF HashNext

-----------------------------------------------------------------------------
(* The number of rows *)

\* Below the limit the table has at most half the rows of the limit.
LEMMA HalfOfLimit ==
  ASSUME NEW n \in Nat, num_buckets = XHASH_INITIAL_NUM_BUCKETS * Doubled[n], num_buckets < XHASH_MAX_NUM_BUCKETS
  PROVE  num_buckets <= XHASH_MAX_NUM_BUCKETS \div 2
<1> DEFINE i == XHASH_INITIAL_NUM_BUCKETS
           m == XHASH_MAX_NUM_BUCKETS
<1>1. PICK d \in Nat : m = 2 * (i * Doubled[d])
  BY SizeAssumption
<1> DEFINE x == Doubled[n]
           y == Doubled[d]
<1>2. x \in Nat \ {0} /\ y \in Nat \ {0} /\ i \in Nat \ {0}
  BY DoubledDef, SizeAssumption
<1>3. m \div 2 = i * y
  <2>1. i * y \in Nat
    BY <1>2
  <2> DEFINE p == i * y
  <2>2. p \in Nat /\ m = 2 * p
    BY <1>1, <2>1
  <2> HIDE DEF p, m
  <2>3. m \div 2 = p
    BY ONLY <2>2
  <2> QED BY <2>3 DEF p
<1>4. CASE n <= d
  <2>1. x <= y
    <3>1. CASE n = d
      BY <1>2, <3>1
    <3>2. CASE n < d
      <4>1. 2 * x <= y
        BY <3>2, DoubledGrows
      <4> HIDE DEF x, y
      <4> QED BY ONLY <4>1, <1>2
    <3> QED BY <1>4, <3>1, <3>2
  <2> HIDE DEF x, y, i
  <2>2. i * x <= i * y
    BY ONLY <1>2, <2>1
  <2> QED BY <2>2, <1>3 DEF i, x
<1>5. CASE n > d
  <2>1. 2 * y <= x
    BY <1>5, DoubledGrows
  <2> HIDE DEF x, y, i
  <2>2. i * (2 * y) <= i * x
    BY ONLY <1>2, <2>1
  <2>3. i * (2 * y) = 2 * (i * y)
    BY ONLY <1>2
  <2>4. m <= i * x
    BY ONLY <1>1, <2>2, <2>3 DEF y
  <2>5. i * x < m
    BY DEF i, x
  <2>6. m \in Nat /\ i * x \in Nat
    BY <1>2, SizeAssumption DEF m
  <2> HIDE DEF m
  <2> QED BY ONLY <2>4, <2>5, <2>6
<1> QED BY <1>4, <1>5

LEMMA PassedFinite == IsFiniteSet(Passed) /\ Cardinality(Passed) \in Nat /\ Cardinality(Passed) <= Cardinality(User)
                      /\ Cardinality(User) \in Nat
<1>1. Passed \subseteq User
  BY DEF Passed
<1> QED BY ONLY <1>1, UserAssumption, FS_Subset, FS_CardinalityType

\* More threads, more doublings.
LEMMA DoubledOrder == ASSUME NEW m \in Nat, NEW n \in Nat, m <= n PROVE Doubled[m] <= Doubled[n]
<1>1. Doubled[m] \in Nat /\ Doubled[n] \in Nat
  BY DoubledDef
<1>2. m = n \/ 2 * Doubled[m] <= Doubled[n]
  BY DoubledGrows
<1> QED BY <1>1, <1>2

LEMMA HalfAndRoom ==
  ASSUME NEW n \in Nat, NEW h \in Nat, n <= h, NEW c \in Nat, NEW d \in Nat, c <= d
  PROVE  n * Doubled[c] <= h * Doubled[d]
<1> DEFINE x == Doubled[c]
           y == Doubled[d]
<1>1. x \in Nat /\ y \in Nat /\ x <= y
  BY DoubledDef, DoubledOrder
<1> HIDE DEF x, y
<1>2. n * x <= n * y /\ n * y <= h * y /\ n * x \in Nat /\ n * y \in Nat /\ h * y \in Nat
  BY <1>1
<1>3. n * x <= h * y
  BY ONLY <1>2
<1> QED BY <1>3 DEF x, y

LEMMA BoundInit == HashInit => BoundInv
<1> SUFFICES ASSUME HashInit PROVE BoundInv
  OBVIOUS
<1> DEFINE i == XHASH_INITIAL_NUM_BUCKETS
           m == XHASH_MAX_NUM_BUCKETS
<1>1. num_buckets = i /\ i \in Nat \ {0} /\ m \in Nat /\ m \div 2 \in Nat
  BY SizeAssumption DEF HashInit
<1>2. num_buckets = i * Doubled[0]
  BY <1>1, DoubledDef
<1>3. num_buckets < m
  <2>1. PICK d \in Nat : m = 2 * (i * Doubled[d])
    BY SizeAssumption
  <2> DEFINE y == Doubled[d]
  <2>2. y \in Nat \ {0}
    BY DoubledDef
  <2> HIDE DEF y, i, m
  <2>3. i * y >= i /\ i * y \in Nat
    BY ONLY <1>1, <2>2
  <2>4. m = 2 * (i * y)
    BY <2>1 DEF y
  <2> QED BY ONLY <1>1, <2>3, <2>4
<1>4. num_buckets <= m \div 2
  BY <1>2, <1>3, HalfOfLimit
<1>5. num_buckets * Doubled[Cardinality(Passed)] <= (m \div 2) * Doubled[Cardinality(User)]
  <2>1. num_buckets \in Nat
    BY <1>1
  <2> HIDE DEF m
  <2> QED BY ONLY <1>1, <1>4, <2>1, PassedFinite, HalfAndRoom
<1> QED BY <1>2, <1>5 DEF BoundInv

\* Those who pass the test double the table once each.
LEMMA BoundStep == UserTypesInv /\ UserLockInv /\ BoundInv /\ [HashNext]_hashvars => BoundInv'
<1> SUFFICES ASSUME UserTypesInv, UserLockInv, BoundInv, [HashNext]_hashvars PROVE BoundInv'
  OBVIOUS
<1>0. UserTypesInv /\ UserLockInv /\ BoundInv
  OBVIOUS
<1> USE DEF Place, Inside, Holding, AtPlace
<1>a. ASSUME Passed' = Passed, UNCHANGED num_buckets PROVE BoundInv'
  BY ONLY <1>0, <1>a DEF BoundInv
<1>b. user \in [User -> UserState]
  BY DEF UserTypesInv
<1>c. ASSUME NEW t \in User, NEW p, UserMoved(t, p), p \in {"wrlock", "redistribute"} <=> user[t].pc \in {"wrlock", "redistribute"}
      PROVE  Passed' = Passed
  BY <1>c DEF Passed, UserMoved
<1>1. CASE UNCHANGED hashvars
  BY <1>1, <1>a DEF Passed, hashvars
<1>2. ASSUME NEW t \in User, NEW k \in HashKey, XHASH_WRLOCK_BUCKET(t, k) PROVE BoundInv'
  <2>2. user[t].pc = "idle" /\ user'[t].pc = "row" /\ \A u \in User : u # t => user'[u] = user[u]
    BY <1>2, <1>b DEF XHASH_WRLOCK_BUCKET
  <2> QED BY <1>2, <2>2, <1>a DEF XHASH_WRLOCK_BUCKET, tablevars, Passed
<1>3. ASSUME NEW t \in User, wrlock_row(t) PROVE BoundInv'
  BY <1>3, GoesMoves, <1>a, <1>c DEF wrlock_row, tablevars
<1>4. ASSUME NEW t \in User, XHASH_FIND(t) PROVE BoundInv'
  <2>1. \E p \in {"unlock", "add"} : UserMoved(t, p)
    BY <1>4, GoesMoves DEF XHASH_FIND
  <2> QED BY <1>4, <2>1, <1>a, <1>c DEF XHASH_FIND, tablevars
<1>5. ASSUME NEW t \in User, XHASH_ADD_KEYPTR(t) PROVE BoundInv'
  BY <1>5, GoesMoves, <1>a, <1>c DEF XHASH_ADD_KEYPTR
<1>6. ASSUME NEW t \in User, XHASH_ADD_TO_BKT(t) PROVE BoundInv'
  BY <1>6, GoesMoves, <1>a, <1>c DEF XHASH_ADD_TO_BKT
<1>7. ASSUME NEW t \in User, XHASH_UNLOCK_BUCKET(t) PROVE BoundInv'
  BY <1>7, GoesMoves, <1>a, <1>c DEF XHASH_UNLOCK_BUCKET, tablevars
<1>8. ASSUME NEW t \in User, read_rows(t) PROVE BoundInv'
  <2>2. user[t].pc = "rows" /\ user'[t].pc = "count" /\ \A u \in User : u # t => user'[u] = user[u]
    BY <1>8, <1>b DEF read_rows, UserState
  <2> QED BY <1>8, <2>2, <1>a DEF read_rows, tablevars, Passed
<1>9. ASSUME NEW t \in User, NEW what \in BOOLEAN, read_count(t, what) PROVE BoundInv'
  <2>1. \E p \in {"expand", "idle"} : UserMoved(t, p)
    BY <1>9, GoesMoves DEF read_count
  <2> QED BY <1>9, <2>1, <1>a, <1>c DEF read_count, tablevars
<1>10. ASSUME NEW t \in User, XHASH_EXPAND_BUCKETS(t) PROVE BoundInv'
  <2>1. user[t].pc = "expand" /\ UNCHANGED num_buckets
    BY <1>10 DEF XHASH_EXPAND_BUCKETS, tablevars
  <2>2. CASE num_buckets >= XHASH_MAX_NUM_BUCKETS
    <3>1. UserMoved(t, "idle")
      BY <1>10, <2>2, GoesMoves DEF XHASH_EXPAND_BUCKETS
    <3> QED BY <2>1, <3>1, <1>a, <1>c
  <2>3. CASE ~(num_buckets >= XHASH_MAX_NUM_BUCKETS)
    <3>1. num_buckets \in Nat /\ num_buckets < XHASH_MAX_NUM_BUCKETS /\ XHASH_MAX_NUM_BUCKETS \div 2 \in Nat
      BY <2>3, SizeAssumption DEF UserTypesInv
    <3>2. num_buckets <= XHASH_MAX_NUM_BUCKETS \div 2
      BY <3>1, HalfOfLimit DEF BoundInv
    <3>3. Cardinality(Passed') \in Nat /\ Cardinality(User) \in Nat /\ Cardinality(Passed') <= Cardinality(User)
      <4>1. Passed' \subseteq User
        BY DEF Passed
      <4> QED BY ONLY <4>1, UserAssumption, FS_Subset, FS_CardinalityType
    <3>4. num_buckets * Doubled[Cardinality(Passed')] <= (XHASH_MAX_NUM_BUCKETS \div 2) * Doubled[Cardinality(User)]
      BY ONLY <3>1, <3>2, <3>3, HalfAndRoom
    <3> QED BY ONLY <1>0, <2>1, <3>4 DEF BoundInv
  <2> QED BY <2>2, <2>3
<1>11. ASSUME NEW t \in User, wrlock_expand(t) PROVE BoundInv'
  BY <1>11, GoesMoves, <1>a, <1>c DEF wrlock_expand, tablevars
<1>12. ASSUME NEW t \in User, redistribute(t) PROVE BoundInv'
  <2>1. UserMoved(t, "idle") /\ user[t].pc = "redistribute" /\ num_buckets' = 2 * num_buckets
    BY <1>12, GoesMoves DEF redistribute
  <2>2. Passed' = Passed \ {t} /\ t \in Passed
    BY <2>1 DEF UserMoved, Passed
  <2>3. Cardinality(Passed') \in Nat /\ Cardinality(Passed) = Cardinality(Passed') + 1
    <3>1. IsFiniteSet(Passed \ {t}) /\ Cardinality(Passed \ {t}) = Cardinality(Passed) - 1
      BY ONLY <2>2, PassedFinite, FS_RemoveElement
    <3>2. Cardinality(Passed \ {t}) \in Nat
      BY ONLY <3>1, FS_CardinalityType
    <3> QED BY ONLY <2>2, <3>1, <3>2, PassedFinite
  <2> DEFINE c == Cardinality(Passed')
             x == Doubled[c]
  <2>4. Doubled[Cardinality(Passed)] = 2 * x /\ x \in Nat
    BY ONLY <2>3, DoubledDef
  <2>5. num_buckets \in Nat
    BY DEF UserTypesInv
  <2> HIDE DEF x
  <2>6. num_buckets' * x = num_buckets * (2 * x)
    BY ONLY <2>1, <2>4, <2>5
  <2>7. num_buckets' * Doubled[Cardinality(Passed')] <= (XHASH_MAX_NUM_BUCKETS \div 2) * Doubled[Cardinality(User)]
    BY ONLY <1>0, <2>4, <2>6 DEF BoundInv, x
  <2>8. \E n \in Nat : num_buckets' = XHASH_INITIAL_NUM_BUCKETS * Doubled[n]
    <3>1. PICK n \in Nat : num_buckets = XHASH_INITIAL_NUM_BUCKETS * Doubled[n]
      BY DEF BoundInv
    <3> DEFINE y == Doubled[n]
    <3>2. Doubled[n + 1] = 2 * y /\ y \in Nat /\ XHASH_INITIAL_NUM_BUCKETS \in Nat
      BY DoubledDef, SizeAssumption
    <3> HIDE DEF y
    <3>3. 2 * (XHASH_INITIAL_NUM_BUCKETS * y) = XHASH_INITIAL_NUM_BUCKETS * (2 * y)
      BY ONLY <3>2
    <3>4. num_buckets' = XHASH_INITIAL_NUM_BUCKETS * Doubled[n + 1]
      BY ONLY <2>1, <3>1, <3>2, <3>3 DEF y
    <3> QED BY <3>4
  <2> QED BY ONLY <2>7, <2>8 DEF BoundInv
<1> QED
  BY ONLY [HashNext]_hashvars, <1>1, <1>2, <1>3, <1>4, <1>5, <1>6, <1>7, <1>8, <1>9, <1>10, <1>11, <1>12
     DEF HashNext

-----------------------------------------------------------------------------
\* However many threads find their rows too long at once, the table keeps every entry once, in
\* its key's row; who works on a row has it locked; and the rows exceed the limit by one
\* doubling for each thread at most.
THEOREM TableStaysSound == HashSpec => []TableSound
<1> DEFINE Inv == UserTypesInv /\ UserLockInv /\ KeysInv /\ BoundInv
<1>1. HashInit => Inv
  BY UserTypesInit, LockInit, KeysInit, BoundInit
<1>2. Inv /\ [HashNext]_hashvars => Inv'
  BY UserTypesStep, LockStep, KeysStep, BoundStep
<1>3. Inv => TableSound
  <2> SUFFICES ASSUME UserTypesInv, UserLockInv, KeysInv, BoundInv PROVE TableSound
    OBVIOUS
  <2>1. EntriesKept
    BY DEF KeysInv
  <2>2. RowStaysLocked
    <3> SUFFICES ASSUME NEW t \in User, user[t].pc \in Holding
                 PROVE  /\ expand_lock.writer = {} /\ t \in expand_lock.readers
                        /\ user[t].bkt = XHASH_TO_BKT(user[t].key, num_buckets)
                        /\ bucket_mutex[MutexOf(user[t].bkt)] = {t}
      BY DEF RowStaysLocked, Holding
    <3>1. t \in expand_lock.readers /\ user[t].bkt = XHASH_TO_BKT(user[t].key, num_buckets)
      BY DEF UserLockInv, Inside, Home
    <3>2. expand_lock.writer = {}
      BY <3>1 DEF UserLockInv
    <3>3. MutexOf(user[t].bkt) \in 0 .. XHASH_MAX_NUM_MUTEX - 1
      BY LockOfRow DEF UserTypesInv, UserState
    <3>4. bucket_mutex[MutexOf(user[t].bkt)] = {t}
      BY <3>3 DEF UserLockInv
    <3> QED BY <3>1, <3>2, <3>4
  <2>3. BackToBackBounded
    <3> DEFINE x == Doubled[Cardinality(Passed)]
               y == (XHASH_MAX_NUM_BUCKETS \div 2) * Doubled[Cardinality(User)]
    <3>1. x \in Nat \ {0} /\ num_buckets \in Nat /\ num_buckets * x <= y
      BY PassedFinite, DoubledDef DEF BoundInv, UserTypesInv
    <3>2. y \in Nat
      <4>1. XHASH_MAX_NUM_BUCKETS \div 2 \in Nat /\ Doubled[Cardinality(User)] \in Nat
        BY PassedFinite, DoubledDef, SizeAssumption
      <4> QED BY <4>1
    <3> HIDE DEF x, y
    <3>3. num_buckets <= num_buckets * x /\ num_buckets * x \in Nat
      BY ONLY <3>1
    <3>4. num_buckets <= y
      BY ONLY <3>1, <3>2, <3>3
    <3> QED BY <3>4 DEF BackToBackBounded, y
  <2> QED BY <2>1, <2>2, <2>3 DEF TableSound
<1> QED
  <2> HIDE DEF Inv
  <2> QED BY <1>1, <1>2, <1>3, PTL DEF HashSpec

=============================================================================
