--------------------------- MODULE Parallel_proofs ----------------------------
(***************************************************************************)
(* What the traversal of the engine is built from: the ring of queue.c     *)
(* implements a bounded first-in first-out queue, for every QUEUESIZE and  *)
(* every set of pointers; the pieces of transform_split_array are a        *)
(* partition of the array, for every SPLIT and every array length; and     *)
(* every visit_all of a disciplined program visits the generated roots and *)
(* the registered ones, each once, and no root that was deregistered, for  *)
(* every array of generated roots, every set of variables and every number *)
(* of calls.                                                               *)
(***************************************************************************)
EXTENDS RingQueue, ArraySplit, Roots, FiniteSetTheorems, SequenceTheorems, WellFoundedInduction, TLAPS

-----------------------------------------------------------------------------
(* The ring *)

\* The modulus of queue.c unfolded: one conditional wrap.
Succ(n) == IF n + 1 < QUEUESIZE THEN n + 1 ELSE 0

Pos(f, k) == IF f + k - 1 < QUEUESIZE THEN f + k - 1 ELSE f + k - 1 - QUEUESIZE

\* The slot after the last queued pointer is the one after rear.
Agree(f, r, c) == Pos(f, c + 1) = Succ(r)

RingInv == RingTypeOK /\ Agree(front, rear, count)

LEMMA Wrap ==
  /\ \A n \in Slot : (n + 1) % QUEUESIZE = Succ(n) /\ Succ(n) \in Slot
  /\ \A n \in Slot, c \in 0 .. QUEUESIZE : (n + c) % QUEUESIZE = Pos(n, c + 1)
  /\ \A n \in Slot, k \in 1 .. QUEUESIZE :
        (n + k - 1) % QUEUESIZE = Pos(n, k) /\ Pos(n, k) \in Slot
<1> USE QueueSizeAssumption DEF Slot, Succ, Pos
<1>1. ASSUME NEW n \in 0 .. (QUEUESIZE + QUEUESIZE - 1)
      PROVE  n % QUEUESIZE = IF n < QUEUESIZE THEN n ELSE n - QUEUESIZE
  OBVIOUS
<1>2. ASSUME NEW n \in Slot
      PROVE  (n + 1) % QUEUESIZE = Succ(n) /\ Succ(n) \in Slot
  <2>1. n + 1 \in 0 .. (QUEUESIZE + QUEUESIZE - 1)
    OBVIOUS
  <2> QED BY <1>1, <2>1
<1>3. ASSUME NEW n \in Slot, NEW c \in 0 .. QUEUESIZE
      PROVE  (n + c) % QUEUESIZE = Pos(n, c + 1)
  <2>1. n + c \in 0 .. (QUEUESIZE + QUEUESIZE - 1)
    OBVIOUS
  <2> QED BY <1>1, <2>1
<1>4. ASSUME NEW n \in Slot, NEW k \in 1 .. QUEUESIZE
      PROVE  (n + k - 1) % QUEUESIZE = Pos(n, k) /\ Pos(n, k) \in Slot
  <2>1. n + k - 1 \in 0 .. (QUEUESIZE + QUEUESIZE - 1)
    OBVIOUS
  <2> QED BY <1>1, <2>1
<1> QED BY <1>2, <1>3, <1>4

\* The inductive invariant holds initially and is kept by every step: the
\* indices init_queue, enqueue and dequeue leave are again count slots apart.
LEMMA RingInvAlways == RingSpec => []RingInv
<1>1. RingInit => RingInv
  <2> SUFFICES ASSUME RingInit PROVE RingTypeOK /\ Agree(front, rear, count)
    BY DEF RingInv
  <2>1. RingTypeOK
    <3>1. front \in Slot /\ rear \in Slot /\ count \in 0 .. QUEUESIZE
      BY QueueSizeAssumption DEF RingInit, Slot
    <3>2. /\ q \in [Slot -> Value \cup {NULL}]
          /\ x \in Value \cup {NULL}
      BY DEF RingInit
    <3>3. aborted \in BOOLEAN
      BY DEF RingInit
    <3> QED BY <3>1, <3>2, <3>3 DEF RingTypeOK
  <2>2. Agree(front, rear, count)
    BY QueueSizeAssumption DEF RingInit, Agree, Succ, Pos
  <2> QED BY <2>1, <2>2
<1>2. RingInv /\ [RingNext]_ringvars => RingInv'
  <2> SUFFICES ASSUME RingInv, [RingNext]_ringvars PROVE RingInv'
    OBVIOUS
  <2> USE QueueSizeAssumption DEF RingInv, RingTypeOK, Slot
  <2>1. CASE init_queue
    BY <2>1 DEF init_queue, Agree, Succ, Pos
  <2>2. ASSUME NEW v \in Value, enqueue(v) PROVE RingInv'
    <3>1. rear' = Succ(rear) /\ rear' \in Slot
      BY <2>2, Wrap DEF enqueue
    <3>2. RingTypeOK'
      BY <2>2, <3>1 DEF enqueue
    <3>3. Agree(front, rear, count)'
      BY <2>2, <3>1 DEF enqueue, Agree, Succ, Pos
    <3> QED BY <3>2, <3>3
  <2>3. CASE enqueue_full
    BY <2>3 DEF enqueue_full, Agree, Succ, Pos
  <2>4. CASE dequeue
    <3>1. front' = Succ(front) /\ front' \in Slot
      BY <2>4, Wrap DEF dequeue
    <3>2. RingTypeOK'
      BY <2>4, <3>1 DEF dequeue
    <3>3. Agree(front, rear, count)'
      BY <2>4, <3>1 DEF dequeue, Agree, Succ, Pos
    <3> QED BY <3>2, <3>3
  <2>5. CASE dequeue_empty
    BY <2>5 DEF dequeue_empty, Agree, Succ, Pos
  <2>6. CASE UNCHANGED ringvars
    BY <2>6 DEF ringvars, Agree, Succ, Pos
  <2> QED BY <2>1, <2>2, <2>3, <2>4, <2>5, <2>6 DEF RingNext
<1> QED BY <1>1, <1>2, PTL DEF RingSpec

\* front, rear and count agree in every reachable state of the ring, for every
\* size: what enqueue and dequeue of queue.c rely on without checking it.
THEOREM IndicesAlwaysAgree == RingSpec => []IndicesAgree
<1>1. RingInv => IndicesAgree
  <2> SUFFICES ASSUME RingInv PROVE (front + count) % QUEUESIZE = (rear + 1) % QUEUESIZE
    BY DEF IndicesAgree
  <2>1. (front + count) % QUEUESIZE = Pos(front, count + 1)
    BY Wrap DEF RingInv, RingTypeOK
  <2>2. (rear + 1) % QUEUESIZE = Succ(rear)
    BY Wrap DEF RingInv, RingTypeOK
  <2> QED BY <2>1, <2>2 DEF RingInv, Agree
<1> QED BY <1>1, RingInvAlways, PTL

-----------------------------------------------------------------------------
\* The queued pointers form a sequence of count pointers.
LEMMA ContentsType ==
  ASSUME RingInv
  PROVE  /\ Contents = [k \in 1 .. count |-> q[Pos(front, k)]]
         /\ Contents \in Seq(Value \cup {NULL})
         /\ Len(Contents) = count
         /\ Contents = << >> <=> count = 0
<1>1. \A k \in 1 .. count : /\ (front + k - 1) % QUEUESIZE = Pos(front, k)
                           /\ Pos(front, k) \in Slot
  BY Wrap, QueueSizeAssumption DEF RingInv, RingTypeOK
<1>2. Contents = [k \in 1 .. count |-> q[Pos(front, k)]]
  BY <1>1 DEF Contents
<1>3. /\ Contents \in [1 .. count -> Value \cup {NULL}]
      /\ count \in Nat
  BY <1>1, <1>2, QueueSizeAssumption DEF RingInv, RingTypeOK
<1>4. Contents \in Seq(Value \cup {NULL}) /\ Len(Contents) = count
  BY <1>3
<1> QED BY <1>2, <1>3, <1>4

\* Writing at rear + 1 appends to the queued pointers.
LEMMA EnqueueAppends ==
  ASSUME RingInv, RingInv', NEW v \in Value, enqueue(v)
  PROVE  Contents' = Append(Contents, v)
<1>1. /\ front \in Slot /\ rear \in Slot
      /\ count \in 0 .. QUEUESIZE /\ count < QUEUESIZE
      /\ q \in [Slot -> Value \cup {NULL}]
      /\ front' = front /\ count' = count + 1
      /\ rear' = Pos(front, count + 1) /\ rear' \in Slot
      /\ q' = [q EXCEPT ![rear'] = v]
  BY Wrap DEF RingInv, RingTypeOK, Agree, enqueue
<1>2. \A k \in 1 .. count : Pos(front, k) \in Slot /\ Pos(front, k) # rear'
  BY <1>1, QueueSizeAssumption DEF Pos, Slot
<1>3. Contents = [k \in 1 .. count |-> q[Pos(front, k)]]
  BY ContentsType
<1>4. Contents' = [k \in 1 .. count + 1 |-> q'[Pos(front, k)]]
  <2>1. Contents' = [k \in 1 .. count' |-> q'[(front' + k - 1) % QUEUESIZE]]
    BY DEF Contents
  <2>2. \A k \in 1 .. count + 1 : (front + k - 1) % QUEUESIZE = Pos(front, k)
    BY <1>1, Wrap, QueueSizeAssumption
  <2> QED BY <1>1, <2>1, <2>2
<1>5. \A k \in 1 .. count + 1 :
         q'[Pos(front, k)] = IF k = count + 1 THEN v ELSE Contents[k]
  BY <1>1, <1>2, <1>3, QueueSizeAssumption
<1>6. /\ Contents' \in Seq(Value \cup {NULL}) /\ Len(Contents') = count + 1
      /\ \A k \in 1 .. count + 1 :
           Contents'[k] = IF k = count + 1 THEN v ELSE Contents[k]
  <2>1. \A k \in 1 .. count + 1 : q'[Pos(front, k)] \in Value \cup {NULL}
    BY <1>1, <1>5, ContentsType, ElementOfSeq
  <2>2. Contents' \in [1 .. count + 1 -> Value \cup {NULL}] /\ count + 1 \in Nat
    BY <1>1, <1>4, <2>1
  <2> QED BY <1>4, <1>5, <2>2
<1>7. /\ Append(Contents, v) \in Seq(Value \cup {NULL})
      /\ Len(Append(Contents, v)) = count + 1
      /\ \A k \in 1 .. count + 1 :
           Append(Contents, v)[k] = IF k = count + 1 THEN v ELSE Contents[k]
  BY <1>1, ContentsType, AppendProperties
<1> QED BY <1>6, <1>7, SeqEqual

\* Reading at front takes the head of the queued pointers.
LEMMA DequeueTakesHead ==
  ASSUME RingInv, RingInv', dequeue
  PROVE  /\ Contents # << >>
         /\ x' = Head(Contents)
         /\ Contents' = Tail(Contents)
<1>1. /\ front \in Slot /\ count \in 1 .. QUEUESIZE
      /\ front' = Succ(front) /\ front' \in Slot
      /\ count' = count - 1 /\ q' = q /\ x' = q[front]
  BY Wrap, QueueSizeAssumption DEF RingInv, RingTypeOK, dequeue
<1>2. /\ Contents = [k \in 1 .. count |-> q[Pos(front, k)]]
      /\ Contents \in Seq(Value \cup {NULL})
      /\ Len(Contents) = count
      /\ Contents # << >>
  BY <1>1, ContentsType, QueueSizeAssumption
<1>3. Pos(front, 1) = front
  BY <1>1, QueueSizeAssumption DEF Pos, Slot
<1>4. x' = Head(Contents)
  BY <1>1, <1>2, <1>3, QueueSizeAssumption
<1>5. \A k \in 1 .. count - 1 : Pos(front', k) = Pos(front, k + 1)
  BY <1>1, QueueSizeAssumption DEF Pos, Succ, Slot
<1>6. Contents' = [k \in 1 .. count - 1 |-> q[Pos(front', k)]]
  <2>1. Contents' = [k \in 1 .. count' |-> q'[(front' + k - 1) % QUEUESIZE]]
    BY DEF Contents
  <2>2. \A k \in 1 .. count - 1 : (front' + k - 1) % QUEUESIZE = Pos(front', k)
    BY <1>1, Wrap, QueueSizeAssumption
  <2> QED BY <1>1, <2>1, <2>2
<1>7. Tail(Contents) = [k \in 1 .. count - 1 |-> Contents[k + 1]]
  BY <1>1, <1>2, QueueSizeAssumption
<1>8. \A k \in 1 .. count - 1 : Contents[k + 1] = q[Pos(front, k + 1)]
  BY <1>1, <1>2, QueueSizeAssumption
<1>9. \A k \in 1 .. count - 1 : q[Pos(front', k)] = Contents[k + 1]
  BY <1>5, <1>8
<1>10. Contents' = Tail(Contents)
  BY <1>6, <1>7, <1>9
<1> QED BY <1>2, <1>4, <1>10

\* Every step of the ring is a step of the bounded queue, or leaves it alone.
THEOREM RingImplementsFifo == RingSpec => ImplementsFifo
<1>1. RingInit => Fifo!Init
  BY DEF RingInit, Fifo!Init, Contents
<1>2. RingInv /\ RingInv' /\ [RingNext]_ringvars => [Fifo!Next]_Fifo!vars
  <2> SUFFICES ASSUME RingInv, RingInv', [RingNext]_ringvars PROVE [Fifo!Next]_Fifo!vars
    OBVIOUS
  <2>1. CASE init_queue
    <3>1. Contents' = << >>
      BY <2>1 DEF init_queue, Contents
    <3> QED BY <2>1, <3>1 DEF init_queue, Fifo!Next, Fifo!Reset
  <2>2. ASSUME NEW v \in Value, enqueue(v) PROVE Fifo!Next
    <3>1. Len(Contents) < QUEUESIZE
      BY <2>2, ContentsType DEF enqueue
    <3>2. Fifo!Enqueue(v)
      BY <2>2, <3>1, EnqueueAppends DEF enqueue, Fifo!Enqueue
    <3> QED BY <3>2 DEF Fifo!Next
  <2>3. CASE enqueue_full
    <3>1. Len(Contents) = QUEUESIZE
      BY <2>3, ContentsType, QueueSizeAssumption DEF enqueue_full, RingInv, RingTypeOK
    <3>2. Contents' = Contents
      BY <2>3 DEF enqueue_full, Contents
    <3> QED BY <2>3, <3>1, <3>2 DEF enqueue_full, Fifo!Next, Fifo!Fail
  <2>4. CASE dequeue
    <3>1. Fifo!Dequeue
      BY <2>4, DequeueTakesHead DEF dequeue, Fifo!Dequeue
    <3> QED BY <3>1 DEF Fifo!Next
  <2>5. CASE dequeue_empty
    <3>1. Contents = << >> /\ Contents' = Contents
      BY <2>5, ContentsType DEF dequeue_empty, Contents
    <3> QED BY <2>5, <3>1 DEF dequeue_empty, Fifo!Next, Fifo!DequeueNothing
  <2>6. CASE UNCHANGED ringvars
    BY <2>6 DEF ringvars, Fifo!vars, Contents
  <2> QED BY <2>1, <2>2, <2>3, <2>4, <2>5, <2>6 DEF RingNext
<1> QED BY <1>1, <1>2, RingInvAlways, PTL DEF RingSpec, ImplementsFifo, Fifo!Spec

-----------------------------------------------------------------------------
(* The pieces of an array *)

\* The pieces made so far lie side by side and end at element i * share.
Frontier ==
  /\ i < SPLIT
  /\ elems >= SPLIT
  /\ remainder = elems - i * share
  /\ \A p \in pieces : p.first + p.len <= i * share
  /\ \A e \in 0 .. i * share - 1 : \E p \in pieces : e \in Elements(p)

SplitInv ==
  /\ SplitTypeOK
  /\ PiecesApart
  /\ pc = "start" => i = 0 /\ pieces = {}
  /\ pc = "loop" => Frontier
  /\ AllVisited

-----------------------------------------------------------------------------
\* The pieces together are no longer than the array.
LEMMA ShareFits ==
  ASSUME NEW n \in Nat, NEW s \in Nat \ {0}
  PROVE  n \div s \in Nat /\ s * (n \div s) <= n
  OBVIOUS

\* Multiplication by a natural number keeps the order.
LEMMA TimesMonotone ==
  ASSUME NEW a \in Nat, NEW b \in Nat, NEW c \in Nat, a <= b
  PROVE  a * c \in Nat /\ b * c \in Nat /\ a * c <= b * c
  OBVIOUS

\* One more piece.
LEMMA TimesNext ==
  ASSUME NEW a \in Nat, NEW c \in Nat
  PROVE  (a + 1) * c = a * c + c
  OBVIOUS

\* What a step of the loop needs: the next piece ends inside the array.
LEMMA PieceFits ==
  ASSUME SplitTypeOK, Frontier
  PROVE  /\ share \in Nat
         /\ i * share \in Nat
         /\ i * share + share <= elems
  <1>1. share \in Nat /\ SPLIT * share <= elems
    BY ShareFits, SplitAssumption DEF SplitTypeOK, share
  <1>2. i \in Nat /\ i + 1 \in Nat /\ SPLIT \in Nat /\ i + 1 <= SPLIT
    BY SplitAssumption DEF SplitTypeOK, Frontier
  <1>3. i * share \in Nat /\ (i + 1) * share <= SPLIT * share
    BY <1>1, <1>2, TimesMonotone
  <1>4. (i + 1) * share = i * share + share
    BY <1>1, <1>2, TimesNext
  <1>5. SPLIT * share \in Nat
    BY <1>1, <1>2, TimesMonotone
  <1>6. elems \in Nat
    BY MaxCountAssumption DEF SplitTypeOK
  <1> QED
    BY <1>1, <1>3, <1>4, <1>5, <1>6

LEMMA SplitInvInit == SplitInit => SplitInv
  BY SplitAssumption, MaxCountAssumption DEF SplitInit, SplitInv, SplitTypeOK, PiecesApart, AllVisited, Piece

LEMMA SplitInvStep == SplitInv /\ [SplitNext]_splitvars => SplitInv'
  <1> SUFFICES ASSUME SplitInv, [SplitNext]_splitvars PROVE SplitInv'
    OBVIOUS
  <1> USE SplitAssumption, MaxCountAssumption
  <1>1. CASE transform_array
    <2>1. pieces' = {[id |-> 0, first |-> 0, len |-> elems]} /\ pc' = "done" /\ elems' = elems /\ elems \in Nat
      BY <1>1 DEF transform_array, SplitInv, SplitTypeOK
    <2>2. SplitTypeOK'
      BY <1>1, <2>1 DEF transform_array, SplitInv, SplitTypeOK, Piece
    <2>3. \A p \in pieces' : p = [id |-> 0, first |-> 0, len |-> elems] /\ Elements(p) = 0 .. elems - 1
      BY <2>1 DEF Elements
    <2>4. PiecesApart'
      BY <2>1, <2>3 DEF PiecesApart, Elements
    <2>5. AllVisited'
      BY <2>1, <2>3 DEF AllVisited, Elements
    <2> QED
      BY <2>1, <2>2, <2>4, <2>5 DEF SplitInv
  <1>2. CASE split_begin
    <2>1. i = 0 /\ pieces = {} /\ i' = 0 /\ pieces' = {} /\ elems' = elems /\ remainder' = elems /\ elems >= SPLIT /\ pc' = "loop"
      BY <1>2 DEF split_begin, SplitInv
    <2>2. share' \in Nat /\ elems \in Nat
      BY <2>1, ShareFits DEF SplitInv, SplitTypeOK, share
    <2>3. SplitTypeOK'
      BY <1>2, <2>1 DEF split_begin, SplitInv, SplitTypeOK
    <2>4. i' * share' = 0
      <3> DEFINE s == share'
      <3>1. s \in Nat /\ i' = 0
        BY <2>1, <2>2
      <3> HIDE DEF s
      <3>2. 0 * s = 0
        BY <3>1
      <3> QED
        BY <3>1, <3>2 DEF s
    <2>5. elems' - i' * share' = elems /\ 0 .. i' * share' - 1 = {}
      <3>1. elems' - 0 = elems /\ 0 .. 0 - 1 = {}
        BY <2>1, <2>2
      <3> QED
        BY <2>4, <3>1
    <2>6. i' < SPLIT /\ elems' >= SPLIT
      BY <2>1
    <2>7. Frontier'
      BY <2>1, <2>5, <2>6, Zenon DEF Frontier
    <2> QED
      BY <2>1, <2>3, <2>7 DEF SplitInv, PiecesApart, AllVisited
  <1>3. ASSUME NEW n \in Nat, pc = "loop", elems' = elems,
               i * share + n <= elems,
               pieces' = pieces \cup {[id |-> i, first |-> i * share, len |-> n]}
        PROVE  /\ pieces' \subseteq Piece
               /\ PiecesApart'
               /\ \A p \in pieces' : p.first + p.len <= i * share + n
               /\ \A e \in 0 .. i * share + n - 1 : \E p \in pieces' : e \in Elements(p)
    <2> DEFINE new == [id |-> i, first |-> i * share, len |-> n]
    <2>1. Frontier /\ SplitTypeOK /\ PiecesApart
      BY <1>3 DEF SplitInv
    <2>2. share \in Nat /\ i * share \in Nat /\ i \in Nat /\ elems \in Nat
      BY <2>1, PieceFits DEF SplitTypeOK
    <2>3. pieces' = pieces \cup {new} /\ new \in Piece /\ pieces' \subseteq Piece
      BY <1>3, <2>1, <2>2 DEF SplitTypeOK, Piece
    <2>4. new.first = i * share /\ new.len = n /\ Elements(new) = i * share .. i * share + n - 1
      BY DEF Elements
    <2> HIDE DEF new
    <2>5. \A p \in pieces : p.first \in Nat /\ p.len \in Nat /\ p.first + p.len <= i * share
      BY <2>1 DEF Frontier, SplitTypeOK, Piece
    <2>6. \A p \in pieces : Elements(p) \cap Elements(new) = {}
      BY <2>2, <2>4, <2>5 DEF Elements
    <2>7. Elements(new) \subseteq 0 .. elems - 1
      BY <1>3, <2>2, <2>4
    <2>8. \A p \in pieces' : Elements(p) \subseteq 0 .. elems' - 1
      BY <1>3, <2>1, <2>3, <2>7 DEF PiecesApart
    <2>9. \A p, o \in pieces' : p # o => Elements(p) \cap Elements(o) = {}
      BY <2>1, <2>3, <2>6 DEF PiecesApart
    <2>10. PiecesApart'
      BY <2>8, <2>9 DEF PiecesApart, Elements
    <2>11. \A p \in pieces' : p.first + p.len <= i * share + n
      BY <2>2, <2>3, <2>4, <2>5
    <2>12. \A e \in 0 .. i * share + n - 1 : \E p \in pieces' : e \in Elements(p)
      <3>1. TAKE e \in 0 .. i * share + n - 1
      <3>2. CASE e < i * share
        BY <2>1, <2>2, <2>3, <3>1, <3>2 DEF Frontier
      <3>3. CASE e >= i * share
        BY <2>2, <2>3, <2>4, <3>1, <3>3
      <3> QED
        BY <2>2, <3>1, <3>2, <3>3
    <2> QED
      BY <2>3, <2>10, <2>11, <2>12
  <1>4. CASE split_task
    <2>1. SplitTypeOK /\ Frontier /\ pc = "loop" /\ elems' = elems /\ share' = share
      BY <1>4 DEF split_task, SplitInv, share
    <2>2. share \in Nat /\ i * share \in Nat /\ i * share + share <= elems /\ i \in Nat /\ elems \in Nat
      BY <2>1, PieceFits DEF SplitTypeOK
    <2>3. /\ pieces' \subseteq Piece
          /\ PiecesApart'
          /\ \A p \in pieces' : p.first + p.len <= i * share + share
          /\ \A e \in 0 .. i * share + share - 1 : \E p \in pieces' : e \in Elements(p)
      BY <1>3, <1>4, <2>1, <2>2 DEF split_task
    <2>4. i' = i + 1 /\ i' * share' = i * share + share
      BY <1>4, <2>1, <2>2, TimesNext DEF split_task
    <2>5. remainder' = remainder - share /\ remainder = elems - i * share
      BY <1>4, <2>1 DEF split_task, Frontier
    <2>6. SplitTypeOK'
      BY <1>4, <2>1, <2>2, <2>3, <2>4, <2>5 DEF split_task, SplitTypeOK
    <2>7. i' < SPLIT /\ elems' >= SPLIT /\ remainder' = elems' - i' * share'
      BY <1>4, <2>1, <2>2, <2>4, <2>5 DEF split_task, Frontier
    <2>8. Frontier'
      <3>1. \A p \in pieces' : p.first + p.len <= i' * share'
        BY <2>3, <2>4
      <3>2. ASSUME NEW e \in 0 .. i' * share' - 1 PROVE \E p \in pieces' : e \in Elements(p)
        <4>1. e \in 0 .. i * share + share - 1
          BY <2>2, <2>4
        <4> QED
          BY <2>3, <4>1, Zenon
      <3> QED
        BY <2>7, <3>1, <3>2, Zenon DEF Frontier, Elements
    <2>9. pc' = "loop"
      BY <1>4 DEF split_task
    <2> QED
      BY <2>3, <2>6, <2>8, <2>9 DEF SplitInv, AllVisited
  <1>5. CASE split_last
    <2>1. SplitTypeOK /\ Frontier /\ pc = "loop" /\ elems' = elems /\ pc' = "done"
      BY <1>5 DEF split_last, SplitInv
    <2>2. share \in Nat /\ i * share \in Nat /\ i * share + share <= elems /\ i \in Nat /\ elems \in Nat
      BY <2>1, PieceFits DEF SplitTypeOK
    <2>3. remainder \in Nat /\ i * share + remainder = elems
      BY <2>1, <2>2 DEF Frontier
    <2>4. /\ pieces' \subseteq Piece
          /\ PiecesApart'
          /\ \A e \in 0 .. i * share + remainder - 1 : \E p \in pieces' : e \in Elements(p)
      BY <1>3, <1>5, <2>1, <2>2, <2>3 DEF split_last
    <2>5. SplitTypeOK'
      BY <1>5, <2>1, <2>4 DEF split_last, SplitTypeOK
    <2>6. AllVisited'
      <3>1. ASSUME NEW e \in 0 .. elems' - 1 PROVE \E p \in pieces' : e \in Elements(p)
        <4>1. e \in 0 .. i * share + remainder - 1
          BY <2>1, <2>2, <2>3
        <4> QED
          BY <2>4, <4>1, Zenon
      <3> QED
        BY <3>1, Zenon DEF AllVisited, Elements
    <2> QED
      BY <2>1, <2>4, <2>5, <2>6 DEF SplitInv
  <1>6. CASE UNCHANGED splitvars
    BY <1>6 DEF splitvars, SplitInv, SplitTypeOK, PiecesApart, AllVisited, Frontier, Elements, share
  <1> QED
    BY <1>1, <1>2, <1>4, <1>5, <1>6 DEF SplitNext

-----------------------------------------------------------------------------
\* For every SPLIT and every length, no two tasks that transform_split_array makes
\* visit the same element, and none leaves the array.
THEOREM PiecesStayApart == SplitSpec => []PiecesApart
  <1>1. SplitInv => PiecesApart
    BY DEF SplitInv
  <1> QED
    BY <1>1, SplitInvInit, SplitInvStep, PTL DEF SplitSpec

\* For every SPLIT and every length, the elements that elems/SPLIT leaves over
\* included, the pieces cover the array.
THEOREM EverythingVisited == SplitSpec => []AllVisited
  <1>1. SplitInv => AllVisited
    BY DEF SplitInv
  <1> QED
    BY <1>1, SplitInvInit, SplitInvStep, PTL DEF SplitSpec

-----------------------------------------------------------------------------
(* The roots *)

\* Each generated root is in its table once for every init since the last finish.  What is
\* said of a cell's entries is what RootsSound says of the visits.
TablesInv ==
  /\ RootsTypeOK
  /\ \A g \in Global : Occurs(visit_all_hash, g) = inits
  /\ \A c \in Cell :
       /\ c \notin twice =>
            Occurs(visit_all_registered_hash, c) = IF c \in wanted \ dropped THEN 1 ELSE 0
       /\ c \in wanted \ dropped => Occurs(visit_all_registered_hash, c) >= 1
  /\ fresh => visited = visit_all_hash \o visit_all_registered_hash

-----------------------------------------------------------------------------
(* How often something is in a sequence *)

\* It is a number.
LEMMA OccursNat ==
  ASSUME NEW S, NEW s \in Seq(S), NEW r
  PROVE  IsFiniteSet({n \in DOMAIN s : s[n] = r}) /\ Occurs(s, r) \in Nat
<1>1. IsFiniteSet(1 .. Len(s)) /\ {n \in DOMAIN s : s[n] = r} \in SUBSET (1 .. Len(s))
  BY FS_Interval
<1>2. IsFiniteSet({n \in DOMAIN s : s[n] = r})
  BY ONLY <1>1, FS_Subset
<1> QED BY ONLY <1>2, FS_CardinalityType DEF Occurs

\* What is not in it is there never, and what is in a sequence without repetitions once.
LEMMA OccursOnce ==
  ASSUME NEW S, NEW s \in Seq(S), IsInjective(s), NEW r
  PROVE  Occurs(s, r) = IF r \in ToSet(s) THEN 1 ELSE 0
<1>1. CASE r \in ToSet(s)
  <2>1. PICK k \in DOMAIN s : s[k] = r
    BY ONLY <1>1 DEF ToSet
  <2>2. {n \in DOMAIN s : s[n] = r} = {k}
    BY ONLY <2>1, IsInjective(s) DEF IsInjective
  <2> QED BY ONLY <1>1, <2>2, FS_Singleton DEF Occurs
<1>2. CASE r \notin ToSet(s)
  <2>1. {n \in DOMAIN s : s[n] = r} = {}
    BY ONLY <1>2 DEF ToSet
  <2> QED BY ONLY <1>2, <2>1, FS_EmptySet DEF Occurs
<1> QED BY ONLY <1>1, <1>2

\* There is nothing in the empty sequence.
LEMMA OccursEmpty == \A r : Occurs(<< >>, r) = 0
<1> TAKE r
<1>1. {n \in DOMAIN << >> : << >>[n] = r} = {}
  OBVIOUS
<1> QED BY ONLY <1>1, FS_EmptySet DEF Occurs

\* What is foreign to a sequence's elements is not in it.
LEMMA OccursNever ==
  ASSUME NEW S, NEW s \in Seq(S), NEW r, r \notin S
  PROVE  Occurs(s, r) = 0
<1>1. {n \in DOMAIN s : s[n] = r} = {}
  OBVIOUS
<1> QED BY ONLY <1>1, FS_EmptySet DEF Occurs

\* In two sequences together it is as often as in both.
LEMMA OccursConcat ==
  ASSUME NEW S, NEW s \in Seq(S), NEW u \in Seq(S), NEW r
  PROVE  Occurs(s \o u, r) = Occurs(s, r) + Occurs(u, r)
<1> DEFINE w == s \o u
           l == Len(s)
           A == {n \in DOMAIN s : s[n] = r}
           B == {n \in DOMAIN u : u[n] = r}
           C == {n + l : n \in B}
           W == {n \in DOMAIN w : w[n] = r}
<1>1. /\ l \in Nat /\ Len(u) \in Nat /\ DOMAIN w = 1 .. l + Len(u)
      /\ DOMAIN s = 1 .. l /\ DOMAIN u = 1 .. Len(u)
      /\ \A p \in 1 .. l + Len(u) : w[p] = IF p <= l THEN s[p] ELSE u[p - l]
  OBVIOUS
<1>2. IsFiniteSet(A) /\ IsFiniteSet(B) /\ Cardinality(A) \in Nat /\ Cardinality(B) \in Nat
  BY OccursNat, FS_CardinalityType
<1>3. B \subseteq 1 .. Len(u) /\ A \subseteq 1 .. l
  BY ONLY <1>1
<1>4. W = A \cup C
  <2> HIDE DEF w, l
  <2>1. ASSUME NEW p, p \in W PROVE p \in A \cup C
    <3>1. p \in 1 .. l + Len(u) /\ w[p] = r
      BY ONLY <1>1, <2>1
    <3>2. CASE p <= l
      BY ONLY <1>1, <3>1, <3>2
    <3>3. CASE ~(p <= l)
      <4>1. p - l \in 1 .. Len(u) /\ u[p - l] = r /\ p = (p - l) + l
        BY ONLY <1>1, <3>1, <3>3
      <4>2. p - l \in B
        BY ONLY <1>1, <4>1
      <4> QED BY ONLY <4>1, <4>2
    <3> QED BY ONLY <3>2, <3>3
  <2>2. ASSUME NEW p, p \in A PROVE p \in W
    BY ONLY <1>1, <2>2
  <2>3. ASSUME NEW n, n \in B PROVE n + l \in W
    <3>1. n \in 1 .. Len(u) /\ u[n] = r
      BY ONLY <1>1, <2>3
    <3>2. n + l \in 1 .. l + Len(u) /\ ~(n + l <= l) /\ (n + l) - l = n
      BY ONLY <1>1, <3>1
    <3> QED BY ONLY <1>1, <3>1, <3>2
  <2> QED BY ONLY <2>1, <2>2, <2>3
<1>5. ExistsBijection(B, C)
  <2> DEFINE f == [n \in B |-> n + l]
  <2>1. f \in [B -> C]
    OBVIOUS
  <2>2. \A m, n \in B : f[m] = f[n] => m = n
    BY ONLY <1>1, <1>3
  <2>3. \A p \in C : \E n \in B : f[n] = p
    OBVIOUS
  <2>4. f \in Bijection(B, C)
    BY ONLY <2>1, <2>2, <2>3 DEF Bijection, Injection, Surjection, IsInjective
  <2> QED BY ONLY <2>4 DEF ExistsBijection
<1>6. IsFiniteSet(C) /\ Cardinality(C) = Cardinality(B)
  BY ONLY <1>2, <1>5, FS_Bijection
<1>7. A \cap C = {}
  BY ONLY <1>1, <1>3
<1>8. Cardinality(A \cup C) = Cardinality(A) + Cardinality(C) - Cardinality(A \cap C)
  BY ONLY <1>2, <1>6, FS_Union
<1>9. Cardinality(W) = Cardinality(A) + Cardinality(B)
  <2> HIDE DEF A, B, C, W
  <2>1. Cardinality(A \cap C) = 0
    BY ONLY <1>7, FS_EmptySet
  <2> QED BY ONLY <1>2, <1>4, <1>6, <1>8, <2>1
<1> QED BY ONLY <1>9 DEF Occurs

\* A sequence of one.
LEMMA OccursSingle ==
  ASSUME NEW y, NEW r
  PROVE  Occurs(<<y>>, r) = IF r = y THEN 1 ELSE 0
<1>1. {n \in DOMAIN <<y>> : <<y>>[n] = r} = IF r = y THEN {1} ELSE {}
  OBVIOUS
<1> QED BY ONLY <1>1, FS_Singleton, FS_EmptySet DEF Occurs

\* register_root adds a key at the end.
LEMMA OccursAppend ==
  ASSUME NEW S, NEW s \in Seq(S), NEW y \in S, NEW r
  PROVE  Occurs(Append(s, y), r) = Occurs(s, r) + IF r = y THEN 1 ELSE 0
<1>1. Append(s, y) = s \o <<y>> /\ <<y>> \in Seq(S)
  OBVIOUS
<1> QED BY ONLY <1>1, OccursConcat, OccursSingle, s \in Seq(S)

\* deregister_root takes one entry away, wherever it is.
LEMMA OccursRemove ==
  ASSUME NEW S, NEW s \in Seq(S), NEW k \in DOMAIN s, NEW r
  PROVE  /\ RemoveAt(s, k) \in Seq(S)
         /\ Occurs(RemoveAt(s, k), r) = Occurs(s, r) - IF r = s[k] THEN 1 ELSE 0
<1> DEFINE f == SubSeq(s, 1, k - 1)
           g == SubSeq(s, k + 1, Len(s))
           h == f \o <<s[k]>>
<1>1. k \in 1 .. Len(s) /\ Len(s) \in Nat /\ s[k] \in S
  OBVIOUS
<1>2. /\ f \in Seq(S) /\ Len(f) = k - 1 /\ \A p \in 1 .. k - 1 : f[p] = s[p]
  OBVIOUS
<1>3. /\ g \in Seq(S) /\ Len(g) = Len(s) - k /\ \A p \in 1 .. Len(s) - k : g[p] = s[k + p]
  OBVIOUS
<1>4. RemoveAt(s, k) = f \o g
  BY DEF RemoveAt
<1> HIDE DEF f, g
<1>5. /\ h \in Seq(S) /\ Len(h) = k /\ \A p \in 1 .. k : h[p] = s[p]
  BY ONLY <1>1, <1>2
<1> HIDE DEF h
<1>6. s = h \o g
  <2>1. /\ h \o g \in Seq(S) /\ Len(h \o g) = Len(s)
        /\ \A p \in 1 .. Len(s) : (h \o g)[p] = IF p <= k THEN h[p] ELSE g[p - k]
    BY ONLY <1>1, <1>3, <1>5
  <2>2. \A p \in 1 .. Len(s) : (h \o g)[p] = s[p]
    <3> TAKE p \in 1 .. Len(s)
    <3>1. CASE p <= k
      <4>1. p \in 1 .. k
        BY ONLY <1>1, <3>1
      <4> QED BY ONLY <1>5, <2>1, <3>1, <4>1
    <3>2. CASE ~(p <= k)
      <4>1. p - k \in 1 .. Len(s) - k /\ k + (p - k) = p
        BY ONLY <1>1, <3>2
      <4> QED BY ONLY <1>3, <2>1, <3>2, <4>1
    <3> QED BY ONLY <3>1, <3>2
  <2> QED BY ONLY <2>1, <2>2, s \in Seq(S), SeqEqual
<1>7. /\ Occurs(f \o g, r) = Occurs(f, r) + Occurs(g, r)
      /\ Occurs(h \o g, r) = Occurs(h, r) + Occurs(g, r)
  BY ONLY <1>2, <1>3, <1>5, OccursConcat
<1>8. Occurs(h, r) = Occurs(f, r) + IF r = s[k] THEN 1 ELSE 0
  <2>1. <<s[k]>> \in Seq(S)
    BY ONLY <1>1
  <2>2. Occurs(f \o <<s[k]>>, r) = Occurs(f, r) + Occurs(<<s[k]>>, r)
    BY ONLY <1>2, <2>1, OccursConcat
  <2>3. Occurs(<<s[k]>>, r) = IF r = s[k] THEN 1 ELSE 0
    BY OccursSingle
  <2> QED BY ONLY <2>2, <2>3 DEF h
<1>9. Occurs(f, r) \in Nat /\ Occurs(g, r) \in Nat
  BY ONLY <1>2, <1>3, OccursNat
<1>10. f \o g \in Seq(S)
  BY ONLY <1>2, <1>3
<1> QED BY ONLY <1>4, <1>6, <1>7, <1>8, <1>9, <1>10

\* Of positions there is a last one.
LEMMA LastOf ==
  ASSUME NEW l \in Nat, NEW at, at \subseteq 1 .. l, at # {}
  PROVE  \E n \in at : \A j \in at : j <= n
<1> DEFINE Less == {ss \in Nat \X Nat : ss[1] < ss[2]}
           T == {l - n : n \in at}
<1>1. IsWellFoundedOn(Less, Nat)
  BY NatLessThanWellFounded DEF OpToRel
<1>2. T \subseteq Nat /\ T # {}
  <2>1. \A n \in at : n \in Int /\ n <= l /\ l - n \in Nat
    BY ONLY at \subseteq 1 .. l, l \in Nat
  <2> QED BY ONLY <2>1, at # {}
<1>3. PICK m \in T : \A y \in T : ~(<<y, m>> \in Less)
  <2> HIDE DEF Less, T
  <2> QED BY ONLY <1>1, <1>2, WFMin
<1>4. \A y \in T : ~(y < m)
  BY ONLY <1>2, <1>3
<1>5. PICK n \in at : m = l - n
  BY ONLY <1>3
<1>6. \A j \in at : ~(l - j < l - n)
  BY ONLY <1>4, <1>5
<1> QED BY ONLY <1>5, <1>6, at \subseteq 1 .. l, l \in Nat

-----------------------------------------------------------------------------
(* The tables *)

\* Before the first call both tables are empty.
LEMMA TablesInit == RootsInit => TablesInv
<1> SUFFICES ASSUME RootsInit PROVE TablesInv
  OBVIOUS
<1>1. << >> \in Seq(Cell) /\ << >> \in Seq(Global) /\ << >> \in Seq(Global \cup Cell)
  OBVIOUS
<1>2. \A r : Occurs(<< >>, r) = 0
  BY OccursEmpty
<1> QED BY <1>1, <1>2 DEF RootsInit, TablesInv, RootsTypeOK

\* Every call keeps them in order.
LEMMA TablesStep == TablesInv /\ [RootsNext]_rootsvars => TablesInv'
<1> SUFFICES ASSUME TablesInv, [RootsNext]_rootsvars PROVE TablesInv'
  OBVIOUS
<1> DEFINE s == visit_all_registered_hash
<1>0. /\ RootsTypeOK /\ s \in Seq(Cell) /\ visit_all_hash \in Seq(Global)
      /\ \A c \in Cell : Occurs(s, c) \in Nat
      /\ << >> \in Seq(Global \cup Cell) /\ << >> \in Seq(Global)
  <2>1. RootsTypeOK /\ s \in Seq(Cell) /\ visit_all_hash \in Seq(Global)
    BY DEF TablesInv, RootsTypeOK
  <2>2. \A c \in Cell : Occurs(s, c) \in Nat
    <3> HIDE DEF s
    <3> QED BY ONLY <2>1, OccursNat
  <2> QED BY ONLY <2>1, <2>2
<1>1. ASSUME NEW c \in Cell, assign(c) PROVE TablesInv'
  <2>1. content' \in [Cell -> Content]
    BY ONLY <1>0, <1>1 DEF assign, RootsTypeOK
  <2> QED BY ONLY <1>0, <1>1, <2>1, TablesInv DEF assign, tables, program, TablesInv, RootsTypeOK
<1>2. ASSUME NEW c \in Cell, register_root(c) PROVE TablesInv'
  <2>1. CASE Found(c)
    <3>1. /\ s' = s /\ wanted' = wanted \cup {c} /\ twice' = twice
          /\ dropped' = IF c \in wanted THEN dropped ELSE dropped \cup {c}
          /\ visit_all_hash' = visit_all_hash /\ content' = content
          /\ launched_helpers' = launched_helpers /\ inits' = inits /\ visited' = << >> /\ fresh' = FALSE
      BY ONLY <1>2, <2>1 DEF register_root, Changed
    <3>2. RootsTypeOK'
      BY ONLY <1>0, <3>1, c \in Cell DEF RootsTypeOK
    <3>3. wanted' \ dropped' = wanted \ dropped
      BY ONLY <1>0, <3>1 DEF RootsTypeOK
    <3> QED BY ONLY <3>1, <3>2, <3>3, TablesInv DEF TablesInv
  <2>2. CASE ~Found(c)
    <3>1. /\ s' = Append(s, c) /\ wanted' = wanted \cup {c} /\ dropped' = dropped \ {c}
          /\ twice' = IF c \in wanted \ dropped THEN twice \cup {c} ELSE twice
          /\ visit_all_hash' = visit_all_hash /\ content' = content
          /\ launched_helpers' = launched_helpers /\ inits' = inits /\ visited' = << >> /\ fresh' = FALSE
      BY ONLY <1>2, <2>2 DEF register_root, Changed
    <3>2. s' \in Seq(Cell)
      BY ONLY <1>0, <3>1, c \in Cell
    <3>3. RootsTypeOK'
      BY ONLY <1>0, <3>1, <3>2, c \in Cell DEF RootsTypeOK
    <3>4. \A d \in Cell : Occurs(s', d) = Occurs(s, d) + IF d = c THEN 1 ELSE 0
      BY ONLY <1>0, <3>1, OccursAppend, c \in Cell
    <3> HIDE DEF s
    <3>5. ASSUME NEW d \in Cell
          PROVE  /\ d \notin twice' => Occurs(s', d) = IF d \in wanted' \ dropped' THEN 1 ELSE 0
                 /\ d \in wanted' \ dropped' => Occurs(s', d) >= 1
      <4>1. /\ d \notin twice => Occurs(s, d) = IF d \in wanted \ dropped THEN 1 ELSE 0
            /\ d \in wanted \ dropped => Occurs(s, d) >= 1
            /\ Occurs(s, d) \in Nat
        BY ONLY <1>0, <3>5, TablesInv DEF TablesInv, s
      <4>2. CASE d = c
        BY ONLY <3>1, <3>4, <3>5, <4>1, <4>2
      <4>3. CASE d # c
        BY ONLY <3>1, <3>4, <3>5, <4>1, <4>3
      <4> QED BY ONLY <4>2, <4>3
    <3> QED BY ONLY <3>1, <3>3, <3>5, TablesInv DEF TablesInv, s
  <2> QED BY ONLY <2>1, <2>2
<1>3. ASSUME NEW c \in Cell, deregister_root(c) PROVE TablesInv'
  <2> DEFINE at == {n \in DOMAIN s : s[n] = c}
             k == CHOOSE n \in at : \A j \in at : j <= n
  <2>1. /\ s' = IF at = {} THEN s ELSE RemoveAt(s, k)
        /\ wanted' = wanted \ {c} /\ dropped' = dropped \ {c} /\ twice' = twice
        /\ visit_all_hash' = visit_all_hash /\ content' = content
        /\ launched_helpers' = launched_helpers /\ inits' = inits /\ visited' = << >> /\ fresh' = FALSE
    BY ONLY <1>3 DEF deregister_root, Changed
  <2>2. /\ s' \in Seq(Cell)
        /\ \A d \in Cell : /\ d # c => Occurs(s', d) = Occurs(s, d)
                           /\ d = c => Occurs(s', d) = IF Occurs(s, d) = 0 THEN 0 ELSE Occurs(s, d) - 1
    <3>1. CASE at = {}
      <4>1. s' = s /\ Occurs(s, c) = 0
        BY ONLY <2>1, <3>1, FS_EmptySet DEF Occurs
      <4> QED BY ONLY <1>0, <4>1
    <3>2. CASE at # {}
      <4>1. k \in at
        <5>1. at \subseteq 1 .. Len(s) /\ Len(s) \in Nat
          BY ONLY <1>0
        <5> HIDE DEF at
        <5>2. \E n \in at : \A j \in at : j <= n
          BY ONLY <3>2, <5>1, LastOf
        <5> QED BY ONLY <5>2
      <4>2. k \in DOMAIN s /\ s[k] = c
        BY ONLY <4>1
      <4> HIDE DEF k
      <4>3. /\ RemoveAt(s, k) \in Seq(Cell)
            /\ \A d \in Cell : Occurs(RemoveAt(s, k), d) = Occurs(s, d) - IF d = c THEN 1 ELSE 0
        BY ONLY <1>0, <4>2, OccursRemove
      <4>4. Occurs(s, c) # 0
        <5>1. IsFiniteSet(at)
          BY ONLY <1>0, OccursNat
        <5> QED BY ONLY <3>2, <5>1, FS_EmptySet DEF Occurs
      <4> QED BY ONLY <1>0, <2>1, <3>2, <4>3, <4>4
    <3> QED BY ONLY <3>1, <3>2
  <2>3. RootsTypeOK'
    BY ONLY <1>0, <2>1, <2>2 DEF RootsTypeOK
  <2> HIDE DEF s, at, k
  <2>4. ASSUME NEW d \in Cell
        PROVE  /\ d \notin twice' => Occurs(s', d) = IF d \in wanted' \ dropped' THEN 1 ELSE 0
               /\ d \in wanted' \ dropped' => Occurs(s', d) >= 1
    <3>1. /\ d \notin twice => Occurs(s, d) = IF d \in wanted \ dropped THEN 1 ELSE 0
          /\ d \in wanted \ dropped => Occurs(s, d) >= 1
          /\ Occurs(s, d) \in Nat
      BY ONLY <1>0, <2>4, TablesInv DEF TablesInv, s
    <3>2. CASE d = c
      BY ONLY <2>1, <2>2, <2>4, <3>1, <3>2
    <3>3. CASE d # c
      BY ONLY <2>1, <2>2, <2>4, <3>1, <3>3
    <3> QED BY ONLY <3>2, <3>3
  <2> QED BY ONLY <2>1, <2>3, <2>4, TablesInv DEF TablesInv, s
<1>4. CASE init
  <2>1. /\ visit_all_hash' = visit_all_hash \o visitalls /\ inits' = inits + 1
        /\ launched_helpers' = TRUE /\ visited' = << >> /\ fresh' = FALSE
        /\ s' = s /\ UNCHANGED <<content, wanted, dropped, twice>>
    BY ONLY <1>4 DEF init, Changed
  <2>2. visitalls \in Seq(Global) /\ IsInjective(visitalls) /\ Global = ToSet(visitalls)
    BY VisitallsAssumption DEF Global
  <2>3. visit_all_hash' \in Seq(Global)
    BY ONLY <1>0, <2>1, <2>2
  <2>4. \A g \in Global : Occurs(visit_all_hash', g) = inits'
    <3> TAKE g \in Global
    <3>1. Occurs(visit_all_hash', g) = Occurs(visit_all_hash, g) + Occurs(visitalls, g)
      BY ONLY <1>0, <2>1, <2>2, OccursConcat
    <3>2. Occurs(visitalls, g) = 1
      BY ONLY <2>2, OccursOnce, g \in Global
    <3> QED BY ONLY <2>1, <3>1, <3>2, TablesInv DEF TablesInv
  <2>5. RootsTypeOK'
    <3>1. inits' \in Nat
      BY ONLY <1>0, <2>1 DEF RootsTypeOK
    <3> QED BY ONLY <1>0, <2>1, <2>3, <3>1 DEF RootsTypeOK
  <2> QED BY ONLY <2>1, <2>4, <2>5, TablesInv DEF TablesInv
<1>5. CASE visit_all
  <2>1. visited' \in Seq(Global \cup Cell)
    BY ONLY <1>0, <1>5 DEF visit_all
  <2> QED BY ONLY <1>0, <1>5, <2>1, TablesInv DEF visit_all, tables, program, TablesInv, RootsTypeOK
<1>6. CASE finish
  <2>1. \A r : Occurs(<< >>, r) = 0
    BY OccursEmpty
  <2>2. /\ visit_all_hash' = << >> /\ inits' = 0
        /\ launched_helpers' = FALSE /\ visited' = << >> /\ fresh' = FALSE
        /\ s' = s /\ UNCHANGED <<content, wanted, dropped, twice>>
    BY ONLY <1>6 DEF finish, Changed
  <2> QED BY ONLY <1>0, <2>1, <2>2, TablesInv DEF TablesInv, RootsTypeOK
<1>7. CASE UNCHANGED rootsvars
  BY ONLY <1>0, <1>7, TablesInv DEF rootsvars, tables, program, TablesInv, RootsTypeOK
<1> QED BY ONLY [RootsNext]_rootsvars, <1>1, <1>2, <1>3, <1>4, <1>5, <1>6, <1>7 DEF RootsNext

\* What visit_all visits is both tables, which have no key in common.
LEMMA VisitedAsEntered == TablesInv => RootsSound
<1> SUFFICES ASSUME TablesInv PROVE RootsSound
  OBVIOUS
<1>1. RootsTypeOK
  BY DEF TablesInv
<1>2. CASE fresh
  <2> DEFINE s == visit_all_registered_hash
  <2>1. /\ visited = visit_all_hash \o s /\ Global \cap Cell = {}
        /\ visit_all_hash \in Seq(Global) /\ s \in Seq(Cell)
        /\ visit_all_hash \in Seq(Global \cup Cell) /\ s \in Seq(Global \cup Cell)
    BY <1>2, VisitallsAssumption DEF TablesInv, RootsTypeOK
  <2>2. \A r : Times(r) = Occurs(visit_all_hash, r) + Occurs(s, r)
    BY ONLY <2>1, OccursConcat DEF Times
  <2>3. \A g \in Global : Occurs(s, g) = 0
    BY ONLY <2>1, OccursNever
  <2>4. \A c \in Cell : Occurs(visit_all_hash, c) = 0
    BY ONLY <2>1, OccursNever
  <2>5. \A c \in Cell : Occurs(s, c) \in Nat
    BY ONLY <2>1, OccursNat
  <2>6. \A c \in Cell : Times(c) = Occurs(s, c)
    BY ONLY <2>2, <2>4, <2>5
  <2>7. \A g \in Global : Times(g) = inits
    <3>1. \A g \in Global : Occurs(visit_all_hash, g) = inits /\ inits \in Nat
      BY ONLY <1>1, TablesInv DEF TablesInv, RootsTypeOK
    <3> QED BY ONLY <2>2, <2>3, <3>1
  <2>8. ASSUME NEW c \in Cell
        PROVE  /\ c \notin twice => Times(c) = IF c \in wanted \ dropped THEN 1 ELSE 0
               /\ c \in wanted \ dropped => Times(c) >= 1
    BY ONLY <2>6, <2>8, TablesInv DEF TablesInv
  <2>9. wanted \subseteq Cell
    BY ONLY <1>1 DEF RootsTypeOK
  <2> QED BY ONLY <1>1, <2>7, <2>8, <2>9
          DEF RootsSound, GlobalsOnce, RegisteredVisited, DeregisteredNotVisited
<1>3. CASE ~fresh
  BY ONLY <1>1, <1>3 DEF RootsSound, GlobalsOnce, RegisteredVisited, DeregisteredNotVisited
<1> QED BY ONLY <1>2, <1>3

\* However the program registers and deregisters roots between its traversals, whatever it
\* stores in them and however often it calls init and finish: a visit_all visits each
\* generated root once for every init since the last finish, and a cell that was neither
\* dropped by register_root nor added twice once if it is registered, and else never.
THEOREM RootsVisitedOnce == RootsSpec => []RootsSound
<1>1. TablesInv /\ [RootsNext]_rootsvars => TablesInv'
  BY TablesStep
<1> QED BY TablesInit, <1>1, VisitedAsEntered, PTL DEF RootsSpec
=============================================================================
