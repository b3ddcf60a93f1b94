---------------------------- MODULE Visit_proofs ----------------------------
(***************************************************************************)
(* The parallel traversal copies the heap: for every heap, every number of *)
(* threads and fields, every hash function and every service that does not *)
(* move what it visits in place, each object is entered once, old memory   *)
(* is freed once and when nobody reads it, the rows of the mapping table   *)
(* are freed once, and when the first thread leaves the new version of     *)
(* every struct points to the new versions of what the old one pointed to. *)
(***************************************************************************)
EXTENDS Visit, TLAPS

\* The structs that the traversal reads.
Source == Object \cup {Root}

\* What the services of the repository keep to: a struct that is traversed in place does not
\* point to an object that is moved.  (VisitInPlace shows what happens otherwise.)
Disciplined ==
  \A s \in Source : NewVersion(s) = s => \A f \in Field : heap[s][f] \notin service.moved

\* Where a thread has a task, and where it knows that the traversal is over.
Working == {"visit", "wrlock", "lookup", "add_mapping", "enqueue"}
Leaving == {"freeing", "rows", "left", "wild"}

\* A task is a struct of the old heap with its new version.
IsTask(x) == x.in \in Source /\ x.out = NewVersion(x.in)

\* A thread in visit has a struct and its new version, and in_elem is the pointer
\* that it read, whatever was written since.
ControlInv ==
  /\ \A x \in queued : IsTask(x)
  /\ \A t \in Thread :
       /\ pc[t] \in Working => IsTask(task[t])
       /\ pc[t] \notin Working => task[t] = NoTask /\ field[t] = 1
       /\ pc[t] \in Working \ {"visit"} =>
            in_elem[t] = heap[task[t].in][field[t]] /\ in_elem[t] \in Object

\* The old heap stays as it was.
MemInv == \A s \in Source, f \in Field : mem[s][f] = heap[s][f]

\* Field f of the new version of s has its final value.
Written(s, f) == mem[NewVersion(s)][f] = Image(heap[s][f])

\* perfaction_ptr has set what add_mapping and the new task read from out.
OutInv ==
  \A t \in Thread : pc[t] \in {"add_mapping", "enqueue"} => Written(task[t].in, field[t])

\* Between the lookup and the new entry a thread holds the lock of the row.
LockInv ==
  \A t \in Thread : pc[t] \in {"lookup", "add_mapping"} => lock[BucketOf[in_elem[t]]] = t

\* An entry of the mapping table is the new version of its key.
TableInv == \A a \in Addr : table[a] # NULL => table[a] = Image(a)

\* perfaction_ptr was called for the addresses in the table and those about to be added.
CallsInv ==
  \A a \in Addr :
    /\ calls[a] \in {0, 1}
    /\ calls[a] = 1 <=> \/ table[a] # NULL
                        \/ \E t \in Thread : pc[t] = "add_mapping" /\ in_elem[t] = a

\* Old memory is on one list, then freed.
FreeInv ==
  /\ \A a \in freed : calls[a] > 0
  /\ \A t \in Thread : \A a \in freelater[t] :
       /\ calls[a] > 0 /\ a \notin freed
       /\ \A u \in Thread : a \in freelater[u] => u = t

\* Memory and rows are freed only when the traversal is over.
QuietInv ==
  /\ (\E t \in Thread : pc[t] \in Leaving) => queued = {} /\ \A t \in Thread : pc[t] \notin Working
  /\ freed # {} \/ (\E b \in Bucket : rowfrees[b] > 0) => \E t \in Thread : pc[t] \in Leaving

-----------------------------------------------------------------------------
(* New versions *)

\* The names of structs and of fresh memory are different.
LEMMA Names ==
  /\ Main \in Thread /\ NULL \notin Thread /\ NULL \notin Addr /\ NULL \notin Source
  /\ Object \subseteq Addr /\ Addr \subseteq Struct /\ Source \subseteq Struct
  /\ Root \in Source /\ NewRoot \in Struct /\ NewRoot \notin Source
  /\ NULL \notin Object /\ Root \notin Object
  /\ \A o \in Object : Fresh(o) \in Addr /\ Fresh(o) \notin Source /\ Fresh(o) # NewRoot
  /\ \A o, q \in Object : Fresh(o) = Fresh(q) => o = q
  /\ 1 \in Field
<1>1. Main \in Thread /\ 1 \in Field
  BY NumThreadsAssumption, NumFieldsAssumption DEF Main, Thread, Field
<1>2. \A o, q \in Object : Fresh(o) = Fresh(q) => o = q
  BY DEF Fresh
<1>3. \A o \in Object : Fresh(o) \in Addr
  BY DEF Addr
<1> QED
  BY <1>1, <1>2, <1>3, NullAssumption, FreshAssumption, RootAssumption DEF Addr, Struct, Source

\* Every struct of the old heap has a new version of its own.
LEMMA Versions ==
  ASSUME TypeOK
  PROVE  /\ service.moved \subseteq Object
         /\ \A s \in Source : NewVersion(s) \in Struct
         /\ \A r, s \in Source : NewVersion(r) = NewVersion(s) => r = s
         /\ \A r, s \in Source : NewVersion(r) = s => r = s
         /\ \A o \in Object : Image(o) \in Addr /\ NewVersion(o) = Image(o)
         /\ Image(NULL) = NULL
<1>1. service.moved \subseteq Object
  BY ServiceAssumption DEF TypeOK
<1> QED BY <1>1, Names DEF NewVersion, Image, Source

\* What visit reads is the field of the old struct.
LEMMA Reads ==
  ASSUME TypeOK, ControlInv, MemInv, NEW t \in Thread, pc[t] \in Working
  PROVE  /\ task[t].in \in Source /\ task[t].out = NewVersion(task[t].in) /\ field[t] \in Field
         /\ in(t) = heap[task[t].in][field[t]]
         /\ in(t) \in Object \cup {NULL}
<1>1. task[t].in \in Source /\ task[t].out = NewVersion(task[t].in) /\ field[t] \in Field
  BY DEF ControlInv, IsTask, TypeOK
<1> QED BY <1>1 DEF MemInv, in, TypeOK, Source

\* What a write of the new version does: it leaves the old heap, and every field that
\* has its final value.
LEMMA Writes ==
  ASSUME TypeOK, Disciplined, ControlInv, MemInv, NEW t \in Thread, pc[t] \in Working,
         SetOut(t, Image(in(t))), UNCHANGED given
  PROVE  /\ mem' \in [Struct -> [Field -> Addr \cup {NULL, Wild}]]
         /\ MemInv'
         /\ \A s \in Source, f \in Field : Written(s, f) => Written(s, f)'
         /\ \A s \in Source, f \in Field : s = task[t].in /\ f = field[t] => Written(s, f)'
<1> DEFINE r == task[t].in
           g == field[t]
           v == Image(heap[r][g])
<1>1. /\ r \in Source /\ g \in Field /\ NewVersion(r) \in Struct /\ heap[r][g] \in Object \cup {NULL}
      /\ heap' = heap /\ service' = service
  BY Reads, Versions DEF given
<1>2. v \in Addr \cup {NULL}
  BY <1>1, Versions
<1>3. mem' = [mem EXCEPT ![NewVersion(r)][g] = v]
  BY Reads DEF SetOut
<1>4. mem \in [Struct -> [Field -> Addr \cup {NULL, Wild}]]
  BY DEF TypeOK
<1>5. NewVersion(r) = r => v = heap[r][g]
  BY <1>1 DEF Disciplined, Image
<1>6. \A s \in Source : NewVersion(s)' = NewVersion(s) /\ \A f \in Field : Image(heap[s][f])' = Image(heap[s][f])
  BY <1>1 DEF NewVersion, Image
<1>7. \A s \in Source : NewVersion(s) \in Struct /\ s \in Struct
  BY Versions, Names
<1>8. \A s \in Source : /\ NewVersion(s) = NewVersion(r) => s = r
                        /\ s = NewVersion(r) => s = r
  BY <1>1, Versions
<1> HIDE DEF r, g, v
<1>9. mem' \in [Struct -> [Field -> Addr \cup {NULL, Wild}]]
  BY ONLY <1>1, <1>2, <1>3, <1>4
<1>10. \A s \in Struct, f \in Field :
         mem'[s][f] = IF s = NewVersion(r) /\ f = g THEN v ELSE mem[s][f]
  BY ONLY <1>1, <1>3, <1>4
<1>11. MemInv'
  BY ONLY <1>1, <1>5, <1>7, <1>8, <1>10, MemInv DEF MemInv
<1>12. ASSUME NEW s \in Source, NEW f \in Field, Written(s, f) \/ (s = r /\ f = g)
       PROVE  Written(s, f)'
  <2>1. mem'[NewVersion(s)][f] = Image(heap[s][f])
    BY ONLY <1>7, <1>8, <1>10, <1>12 DEF Written, v
  <2> QED BY ONLY <1>6, <2>1, s \in Source, f \in Field DEF Written
<1> QED BY ONLY <1>9, <1>11, <1>12 DEF r, g

\* visit returns to the struct's code, which goes on or is at its end.
LEMMA Nexts ==
  ASSUME TypeOK, NEW t \in Thread, NextField(t)
  PROVE  /\ pc' \in [Thread -> Label] /\ field' \in [Thread -> Field] /\ task' \in [Thread -> Task \cup {NoTask}]
         /\ \A u \in Thread : u # t => pc'[u] = pc[u] /\ field'[u] = field[u] /\ task'[u] = task[u]
         /\ \/ pc'[t] = "visit" /\ task'[t] = task[t] /\ field'[t] = field[t] + 1
            \/ pc'[t] = "idle" /\ task'[t] = NoTask /\ field'[t] = 1 /\ field[t] = NumFields
<1>0. /\ pc \in [Thread -> Label] /\ field \in [Thread -> Field] /\ task \in [Thread -> Task \cup {NoTask}]
  BY DEF TypeOK
<1>1. "visit" \in Label /\ "idle" \in Label /\ 1 \in Field
  BY Names DEF Label
<1>2. field[t] \in Nat /\ NumFields \in Nat /\ field[t] <= NumFields /\ (field[t] < NumFields => field[t] + 1 \in Field)
  BY NumFieldsAssumption, <1>0 DEF Field
<1>3. CASE field[t] < NumFields
  <2>1. /\ field' = [field EXCEPT ![t] = @ + 1] /\ pc' = [pc EXCEPT ![t] = "visit"] /\ task' = task
    BY ONLY <1>3, NextField(t) DEF NextField
  <2> QED BY ONLY <1>0, <1>1, <1>2, <1>3, <2>1, t \in Thread
<1>4. CASE ~(field[t] < NumFields)
  <2>1. /\ field' = [field EXCEPT ![t] = 1] /\ pc' = [pc EXCEPT ![t] = "idle"]
        /\ task' = [task EXCEPT ![t] = NoTask]
    BY ONLY <1>4, NextField(t) DEF NextField
  <2>2. field[t] = NumFields
    BY ONLY <1>2, <1>4
  <2>3. pc' \in [Thread -> Label] /\ field' \in [Thread -> Field] /\ task' \in [Thread -> Task \cup {NoTask}]
    BY ONLY <1>0, <1>1, <2>1
  <2> QED BY ONLY <1>0, <2>1, <2>2, <2>3, t \in Thread
<1> QED BY ONLY <1>3, <1>4

-----------------------------------------------------------------------------
(* The heap as it was, and the threads' place in visit *)

\* A step leaves the heap and the service alone.
LEMMA GivenStep ==
  ASSUME Disciplined, [Next]_vars
  PROVE  /\ UNCHANGED given /\ heap' = heap /\ service' = service
         /\ Disciplined'
         /\ \A s \in Source : NewVersion(s)' = NewVersion(s)
         /\ \A s \in Source, f \in Field : Image(heap[s][f])' = Image(heap[s][f])
         /\ \A a : Image(a)' = Image(a)
<1>1. heap' = heap /\ service' = service
  <2>1. CASE UNCHANGED vars
    BY <2>1 DEF vars, given
  <2>2. ASSUME NEW t \in Thread, ThreadStep(t) PROVE heap' = heap /\ service' = service
    BY ONLY <2>2
       DEF given, ThreadStep, OwnStep, visit, visit_null, transform_map_wrlock, visit_mapped, perfaction_ptr,
           add_mapping, addtoqueue, callxformer, allqempty, perform_delayedfree,
           perform_delayedfree_end, FREE_ALL_MALLOCED_ENTRIES
  <2> QED BY ONLY <2>1, <2>2, [Next]_vars DEF Next
<1> QED BY <1>1 DEF given, Disciplined, NewVersion, Image

\* The rows of the mapping table that a thread frees: Share of them, from Lo to Hi - 1.
Share == NumBuckets \div NumThreads
Lo(t) == t * Share
Hi(t) == Share * (t + 1)

\* The shares are in the table and disjoint, and no row is outside of all.
LEMMA Shares ==
  /\ \A t \in Thread : Lo(t) \in Nat /\ Hi(t) \in Nat /\ Lo(t) <= Hi(t) /\ Hi(t) <= NumBuckets
  /\ \A t, u \in Thread : t < u => Hi(t) <= Lo(u)
  /\ \A b \in Bucket : \E t \in Thread : Lo(t) <= b /\ b < Hi(t)
<1>1. /\ NumThreads \in Nat /\ NumThreads > 0 /\ NumBuckets \in Nat /\ Share \in Nat
      /\ NumBuckets = NumThreads * Share
  BY NumThreadsAssumption, NumBucketsAssumption DEF Share
<1>2. \A t \in Thread : t \in Nat /\ t + 1 <= NumThreads
  BY <1>1 DEF Thread
<1>3. \A m, n \in Nat : m <= n => m * Share <= n * Share
  BY ONLY <1>1
<1>4. \A t \in Thread : Lo(t) \in Nat /\ Hi(t) \in Nat /\ Hi(t) = (t + 1) * Share /\ Hi(t) = Lo(t) + Share
  BY ONLY <1>1, <1>2 DEF Lo, Hi
<1>5. \A t \in Thread : Hi(t) <= NumBuckets
  <2> TAKE t \in Thread
  <2>1. (t + 1) * Share <= NumThreads * Share
    BY ONLY <1>1, <1>2, <1>3
  <2> QED BY ONLY <1>1, <1>4, <2>1
<1>6. \A t, u \in Thread : t < u => Hi(t) <= Lo(u)
  <2> SUFFICES ASSUME NEW t \in Thread, NEW u \in Thread, t < u PROVE Hi(t) <= Lo(u)
    OBVIOUS
  <2>1. (t + 1) * Share <= u * Share
    BY ONLY <1>1, <1>2, <1>3, t < u
  <2> QED BY ONLY <1>4, <2>1 DEF Lo
<1>7. ASSUME NEW b \in Bucket PROVE \E t \in Thread : Lo(t) <= b /\ b < Hi(t)
  <2>1. b \in Nat /\ b < NumThreads * Share /\ Share > 0
    BY ONLY <1>1, b \in Bucket DEF Bucket
  <2> DEFINE t == b \div Share
  <2>2. t \in Nat /\ t * Share <= b /\ b < (t + 1) * Share
    BY ONLY <1>1, <2>1
  <2>3. t < NumThreads
    <3>1. CASE NumThreads <= t
      <4>1. NumThreads * Share <= t * Share
        BY ONLY <1>1, <1>3, <2>2, <3>1
      <4>2. t * Share \in Nat /\ NumThreads * Share \in Nat
        BY ONLY <1>1, <2>2
      <4> HIDE DEF t
      <4> QED BY ONLY <2>1, <2>2, <4>1, <4>2
    <3> QED BY ONLY <1>1, <2>2, <3>1
  <2> HIDE DEF t
  <2>4. t \in Thread
    BY ONLY <1>1, <2>2, <2>3 DEF Thread
  <2> QED BY ONLY <1>4, <2>2, <2>4 DEF Lo
<1> QED
  BY ONLY <1>1, <1>4, <1>5, <1>6, <1>7

\* Every step keeps the types.
LEMMA TypeStep ==
  ASSUME TypeOK, Disciplined, ControlInv, MemInv, OutInv, TableInv, [Next]_vars
  PROVE  TypeOK'
<1> USE Names
<1>0. /\ "visit" \in Label /\ "idle" \in Label /\ "wrlock" \in Label /\ "lookup" \in Label
      /\ "add_mapping" \in Label /\ "enqueue" \in Label /\ "freeing" \in Label /\ "rows" \in Label
      /\ "left" \in Label /\ "wild" \in Label
  BY DEF Label
<1>1. CASE UNCHANGED vars
  BY <1>1 DEF vars, given, TypeOK
<1>2. ASSUME NEW t \in Thread, ThreadStep(t) PROVE TypeOK'
  <2>1. CASE visit(t)
    <3>1. in_elem' \in [Thread -> Addr \cup {NULL}]
      BY ONLY <2>1, TypeOK DEF TypeOK, visit
    <3>2. pc' \in [Thread -> Label]
      BY ONLY <2>1, <1>0, TypeOK DEF TypeOK, visit
    <3> QED BY ONLY <2>1, <3>1, <3>2, TypeOK DEF TypeOK, visit, given
  <2>2. CASE visit_null(t)
    <3>0. pc[t] \in Working
      BY ONLY <2>2 DEF visit_null, Working
    <3>1. SetOut(t, Image(in(t))) /\ UNCHANGED given /\ NextField(t)
      BY <2>2, Versions DEF visit_null
    <3>2. mem' \in [Struct -> [Field -> Addr \cup {NULL, Wild}]]
      BY ONLY <3>0, <3>1, TypeOK, Disciplined, ControlInv, MemInv, Writes, t \in Thread
    <3>3. pc' \in [Thread -> Label] /\ field' \in [Thread -> Field] /\ task' \in [Thread -> Task \cup {NoTask}]
      BY ONLY <3>1, TypeOK, Nexts, t \in Thread
    <3> QED BY ONLY <2>2, <3>2, <3>3, TypeOK DEF TypeOK, visit_null, given
  <2>3. CASE transform_map_wrlock(t)
    <3>1. lock' \in [Bucket -> Thread \cup {NULL}]
      BY ONLY <2>3, TypeOK, t \in Thread DEF TypeOK, transform_map_wrlock
    <3>2. pc' \in [Thread -> Label]
      BY ONLY <2>3, <1>0, TypeOK DEF TypeOK, transform_map_wrlock
    <3> QED BY ONLY <2>3, <3>1, <3>2, TypeOK DEF TypeOK, transform_map_wrlock, given
  <2>4. CASE visit_mapped(t)
    <3>0. pc[t] \in Working
      BY ONLY <2>4 DEF visit_mapped, Working
    <3>1. in(t) \in Addr /\ table[in(t)] = Image(in(t))
      BY <2>4, <3>0, Reads DEF visit_mapped, TableInv, ControlInv, Working
    <3>2. SetOut(t, Image(in(t))) /\ UNCHANGED given /\ NextField(t)
      BY <2>4, <3>1 DEF visit_mapped
    <3>3. mem' \in [Struct -> [Field -> Addr \cup {NULL, Wild}]]
      BY ONLY <3>0, <3>2, TypeOK, Disciplined, ControlInv, MemInv, Writes, t \in Thread
    <3>4. pc' \in [Thread -> Label] /\ field' \in [Thread -> Field] /\ task' \in [Thread -> Task \cup {NoTask}]
      BY ONLY <3>2, TypeOK, Nexts, t \in Thread
    <3>5. lock' \in [Bucket -> Thread \cup {NULL}]
      BY ONLY <2>4, TypeOK DEF TypeOK, visit_mapped, transform_map_unlock
    <3> QED BY ONLY <2>4, <3>3, <3>4, <3>5, TypeOK DEF TypeOK, visit_mapped, given
  <2>5. CASE perfaction_ptr(t)
    <3>0. pc[t] \in Working
      BY ONLY <2>5 DEF perfaction_ptr, Working
    <3>1. SetOut(t, Image(in(t))) /\ UNCHANGED given
      BY ONLY <2>5 DEF perfaction_ptr
    <3>2. mem' \in [Struct -> [Field -> Addr \cup {NULL, Wild}]]
      BY ONLY <3>0, <3>1, TypeOK, Disciplined, ControlInv, MemInv, Writes, t \in Thread
    <3>3. in(t) \in Addr
      BY <2>5, <3>0, Reads DEF perfaction_ptr, ControlInv, Working
    <3>4. calls' \in [Addr -> Nat]
      BY ONLY <2>5, <3>3, TypeOK DEF TypeOK, perfaction_ptr
    <3>5. freelater' \in [Thread -> SUBSET Addr]
      BY ONLY <2>5, <3>3, TypeOK DEF TypeOK, perfaction_ptr
    <3>6. pc' \in [Thread -> Label]
      BY ONLY <2>5, <1>0, TypeOK DEF TypeOK, perfaction_ptr
    <3> QED BY ONLY <2>5, <3>2, <3>4, <3>5, <3>6, TypeOK DEF TypeOK, perfaction_ptr, given
  <2>6. CASE add_mapping(t)
    <3>0. pc[t] \in Working
      BY ONLY <2>6 DEF add_mapping, Working
    <3>1. /\ in(t) = in_elem[t] /\ in(t) \in Object /\ out(t) = Image(in(t))
      BY <2>6, <3>0, Reads DEF add_mapping, ControlInv, OutInv, Written, Working, out
    <3>2. table' \in [Addr -> Addr \cup {NULL}]
      <4>1. Image(in(t)) \in Addr /\ in(t) \in Addr
        BY <3>1, Versions
      <4> QED BY ONLY <2>6, <3>1, <4>1, TypeOK DEF TypeOK, add_mapping
    <3>3. lock' \in [Bucket -> Thread \cup {NULL}]
      BY ONLY <2>6, TypeOK DEF TypeOK, add_mapping, transform_map_unlock
    <3>4. pc' \in [Thread -> Label] /\ field' \in [Thread -> Field] /\ task' \in [Thread -> Task \cup {NoTask}]
      <4>1. CASE NextField(t)
        BY ONLY <4>1, TypeOK, Nexts, t \in Thread
      <4>2. CASE pc' = [pc EXCEPT ![t] = "enqueue"] /\ UNCHANGED <<task, field>>
        BY ONLY <4>2, <1>0, TypeOK DEF TypeOK
      <4> QED BY ONLY <2>6, <4>1, <4>2 DEF add_mapping
    <3> QED BY ONLY <2>6, <3>2, <3>3, <3>4, TypeOK DEF TypeOK, add_mapping, given
  <2>7. CASE addtoqueue(t)
    <3>0. pc[t] \in Working
      BY ONLY <2>7 DEF addtoqueue, Working
    <3>1. pc' \in [Thread -> Label] /\ field' \in [Thread -> Field] /\ task' \in [Thread -> Task \cup {NoTask}]
      BY ONLY <2>7, TypeOK, Nexts, t \in Thread DEF addtoqueue
    <3>2. /\ in(t) \in Object /\ out(t) = Image(in(t))
      BY <2>7, <3>0, Reads DEF addtoqueue, ControlInv, OutInv, Written, Working, out
    <3>3. [in |-> in(t), out |-> out(t)] \in Task
      BY <3>2, Versions DEF Task
    <3> QED BY ONLY <2>7, <3>1, <3>3, TypeOK DEF TypeOK, addtoqueue, given
  <2>8. CASE callxformer(t)
    <3>1. PICK x \in queued : task' = [task EXCEPT ![t] = x] /\ queued' = queued \ {x}
      BY ONLY <2>8 DEF callxformer
    <3>2. task' \in [Thread -> Task \cup {NoTask}] /\ queued' \subseteq Task
      BY ONLY <3>1, TypeOK DEF TypeOK
    <3>3. pc' \in [Thread -> Label]
      BY ONLY <2>8, <1>0, TypeOK DEF TypeOK, callxformer
    <3> QED BY ONLY <2>8, <3>2, <3>3, TypeOK DEF TypeOK, callxformer, given
  <2>9. CASE allqempty(t)
    <3>1. pc' \in [Thread -> Label]
      BY ONLY <2>9, <1>0, TypeOK DEF TypeOK, allqempty
    <3> QED BY ONLY <2>9, <3>1, TypeOK DEF TypeOK, allqempty, given
  <2>10. CASE perform_delayedfree(t)
    <3>1. freed' \subseteq Addr
      BY ONLY <2>10, TypeOK, t \in Thread DEF TypeOK, perform_delayedfree
    <3>2. freelater' \in [Thread -> SUBSET Addr]
      <4>1. PICK a \in freelater[t] : freelater' = [freelater EXCEPT ![t] = @ \ {a}]
        BY ONLY <2>10 DEF perform_delayedfree
      <4> QED BY ONLY <4>1, TypeOK DEF TypeOK
    <3> QED BY ONLY <2>10, <3>1, <3>2, TypeOK DEF TypeOK, perform_delayedfree, given
  <2>11. CASE perform_delayedfree_end(t)
    <3>1. pc' \in [Thread -> Label]
      BY ONLY <2>11, <1>0, TypeOK DEF TypeOK, perform_delayedfree_end
    <3>2. row' \in [Thread -> Nat]
      <4>1. Lo(t) \in Nat /\ row' = [row EXCEPT ![t] = Lo(t)]
        BY ONLY <2>11, Shares, t \in Thread DEF perform_delayedfree_end, Lo, Share
      <4> QED BY ONLY <4>1, TypeOK DEF TypeOK
    <3> QED BY ONLY <2>11, <3>1, <3>2, TypeOK DEF TypeOK, perform_delayedfree_end, given
  <2>12. CASE FREE_ALL_MALLOCED_ENTRIES(t)
    <3>1. pc' \in [Thread -> Label]
      BY ONLY <2>12, <1>0, TypeOK DEF TypeOK, FREE_ALL_MALLOCED_ENTRIES
    <3>2. row' \in [Thread -> Nat]
      BY ONLY <2>12, TypeOK DEF TypeOK, FREE_ALL_MALLOCED_ENTRIES
    <3>3. rowfrees' \in [Bucket -> Nat]
      BY ONLY <2>12, TypeOK DEF TypeOK, FREE_ALL_MALLOCED_ENTRIES
    <3> QED BY ONLY <2>12, <3>1, <3>2, <3>3, TypeOK DEF TypeOK, FREE_ALL_MALLOCED_ENTRIES, given
  <2> QED
    BY ONLY <1>2, <2>1, <2>2, <2>3, <2>4, <2>5, <2>6, <2>7, <2>8, <2>9, <2>10, <2>11, <2>12
    DEF ThreadStep, OwnStep
<1> QED BY ONLY [Next]_vars, <1>1, <1>2 DEF Next

\* Every step leaves a thread with what its place in visit calls for.
LEMMA ControlStep ==
  ASSUME TypeOK, Disciplined, ControlInv, MemInv, OutInv, [Next]_vars
  PROVE  ControlInv'
<1> USE Names
<1>0. heap' = heap /\ service' = service
  BY ONLY Disciplined, [Next]_vars, GivenStep
<1>1. CASE UNCHANGED vars
  BY ONLY <1>0, <1>1, ControlInv DEF vars, given, ControlInv, IsTask, NewVersion, Image
<1>2. ASSUME NEW t \in Thread, ThreadStep(t) PROVE ControlInv'
  <2>1. CASE visit(t)
    <3>0. pc \in [Thread -> Label] /\ in_elem \in [Thread -> Addr \cup {NULL}] /\ pc[t] \in Working
      BY ONLY <2>1, TypeOK DEF TypeOK, visit, Working
    <3>1. /\ \A u \in Thread : u # t => pc'[u] = pc[u] /\ in_elem'[u] = in_elem[u]
          /\ task' = task /\ field' = field
          /\ queued' = queued
      BY ONLY <2>1, <3>0 DEF visit
    <3>2. pc[t] \in Working /\ pc'[t] = "wrlock" /\ in_elem'[t] = heap[task[t].in][field[t]] /\ in_elem'[t] \in Object
      BY <2>1, <3>0, Reads DEF visit
    <3> QED BY ONLY <1>0, <3>1, <3>2, ControlInv, t \in Thread DEF ControlInv, IsTask, Working, NewVersion, Image
  <2>2. CASE visit_null(t)
    <3>0. pc[t] \in Working /\ NextField(t)
      BY ONLY <2>2 DEF visit_null, Working
    <3>1. /\ \A u \in Thread : u # t => /\ pc'[u] = pc[u] /\ field'[u] = field[u] /\ task'[u] = task[u]
          /\ in_elem' = in_elem
          /\ \/ pc'[t] = "visit" /\ task'[t] = task[t]
             \/ pc'[t] = "idle" /\ task'[t] = NoTask /\ field'[t] = 1
      BY <2>2, <3>0, Nexts DEF visit_null
    <3>2. queued' = queued
      BY ONLY <2>2 DEF visit_null
    <3> QED BY ONLY <1>0, <3>0, <3>1, <3>2, ControlInv, t \in Thread DEF ControlInv, IsTask, Working, NewVersion, Image
  <2>3. CASE transform_map_wrlock(t)
    <3>0. pc \in [Thread -> Label] /\ in_elem \in [Thread -> Addr \cup {NULL}]
      BY ONLY TypeOK DEF TypeOK
    <3>1. /\ \A u \in Thread : u # t => pc'[u] = pc[u] /\ in_elem'[u] = in_elem[u]
          /\ task' = task /\ field' = field
          /\ queued' = queued
      BY ONLY <2>3, <3>0 DEF transform_map_wrlock
    <3>2. pc[t] = "wrlock" /\ pc'[t] = "lookup" /\ in_elem'[t] = in_elem[t]
      BY <2>3, <3>0 DEF transform_map_wrlock, Working
    <3> QED BY ONLY <1>0, <3>1, <3>2, ControlInv, t \in Thread DEF ControlInv, IsTask, Working, NewVersion, Image
  <2>4. CASE visit_mapped(t)
    <3>0. pc[t] \in Working /\ NextField(t)
      BY ONLY <2>4 DEF visit_mapped, Working
    <3>1. /\ \A u \in Thread : u # t => /\ pc'[u] = pc[u] /\ field'[u] = field[u] /\ task'[u] = task[u]
          /\ in_elem' = in_elem
          /\ \/ pc'[t] = "visit" /\ task'[t] = task[t]
             \/ pc'[t] = "idle" /\ task'[t] = NoTask /\ field'[t] = 1
      BY <2>4, <3>0, Nexts DEF visit_mapped
    <3>2. queued' = queued
      BY ONLY <2>4 DEF visit_mapped
    <3> QED BY ONLY <1>0, <3>0, <3>1, <3>2, ControlInv, t \in Thread DEF ControlInv, IsTask, Working, NewVersion, Image
  <2>5. CASE perfaction_ptr(t)
    <3>0. pc \in [Thread -> Label] /\ in_elem \in [Thread -> Addr \cup {NULL}]
      BY ONLY TypeOK DEF TypeOK
    <3>1. /\ \A u \in Thread : u # t => pc'[u] = pc[u] /\ in_elem'[u] = in_elem[u]
          /\ task' = task /\ field' = field
          /\ queued' = queued
      BY ONLY <2>5, <3>0 DEF perfaction_ptr
    <3>2. pc[t] = "lookup" /\ pc'[t] = "add_mapping" /\ in_elem'[t] = in_elem[t]
      BY <2>5, <3>0 DEF perfaction_ptr, Working
    <3> QED BY ONLY <1>0, <3>1, <3>2, ControlInv, t \in Thread DEF ControlInv, IsTask, Working, NewVersion, Image
  <2>6. CASE add_mapping(t)
    <3>0. pc[t] = "add_mapping" /\ pc \in [Thread -> Label]
      BY ONLY <2>6, TypeOK DEF add_mapping, TypeOK
    <3>1. /\ \A u \in Thread : u # t => /\ pc'[u] = pc[u] /\ field'[u] = field[u] /\ task'[u] = task[u]
          /\ in_elem' = in_elem
          /\ \/ pc'[t] = "visit" /\ task'[t] = task[t]
             \/ pc'[t] = "idle" /\ task'[t] = NoTask /\ field'[t] = 1
             \/ pc'[t] = "enqueue" /\ task'[t] = task[t] /\ field'[t] = field[t]
      <4>1. CASE NextField(t)
        BY <2>6, <4>1, Nexts DEF add_mapping
      <4>2. CASE pc' = [pc EXCEPT ![t] = "enqueue"] /\ UNCHANGED <<task, field>>
        BY ONLY <2>6, <3>0, <4>2, t \in Thread DEF add_mapping
      <4> QED BY ONLY <2>6, <4>1, <4>2 DEF add_mapping
    <3>2. queued' = queued
      BY ONLY <2>6 DEF add_mapping
    <3> QED BY ONLY <1>0, <3>0, <3>1, <3>2, ControlInv, t \in Thread DEF ControlInv, IsTask, Working, NewVersion, Image
  <2>7. CASE addtoqueue(t)
    <3>0. pc[t] \in Working /\ NextField(t)
      BY ONLY <2>7 DEF addtoqueue, Working
    <3>1. /\ \A u \in Thread : u # t => /\ pc'[u] = pc[u] /\ field'[u] = field[u] /\ task'[u] = task[u]
          /\ in_elem' = in_elem
          /\ \/ pc'[t] = "visit" /\ task'[t] = task[t]
             \/ pc'[t] = "idle" /\ task'[t] = NoTask /\ field'[t] = 1
      BY <2>7, <3>0, Nexts DEF addtoqueue
    <3>2. /\ in(t) \in Object /\ out(t) = Image(in(t)) /\ queued' = queued \cup {[in |-> in(t), out |-> out(t)]}
      BY <2>7, <3>0, Reads DEF addtoqueue, ControlInv, OutInv, Written, Working, out
    <3>3. \A x \in queued' : IsTask(x)
      <4>1. IsTask([in |-> in(t), out |-> out(t)])
        BY <3>2, Versions DEF IsTask, Source
      <4> QED BY ONLY <3>2, <4>1, ControlInv DEF ControlInv
    <3> QED BY ONLY <1>0, <3>0, <3>1, <3>3, ControlInv, t \in Thread DEF ControlInv, IsTask, Working, NewVersion, Image
  <2>8. CASE callxformer(t)
    <3>0. pc \in [Thread -> Label] /\ task \in [Thread -> Task \cup {NoTask}]
      BY ONLY TypeOK DEF TypeOK
    <3>1. PICK x \in queued : task' = [task EXCEPT ![t] = x] /\ queued' = queued \ {x}
      BY ONLY <2>8 DEF callxformer
    <3>2. /\ \A u \in Thread : u # t => pc'[u] = pc[u] /\ task'[u] = task[u]
          /\ in_elem' = in_elem /\ field' = field
          /\ pc[t] = "idle" /\ pc'[t] = "visit" /\ task'[t] = x
      BY ONLY <2>8, <3>0, <3>1, t \in Thread DEF callxformer
    <3> QED BY ONLY <1>0, <3>1, <3>2, ControlInv, t \in Thread DEF ControlInv, IsTask, Working, NewVersion, Image
  <2>9. CASE allqempty(t)
    <3>0. pc \in [Thread -> Label] /\ in_elem \in [Thread -> Addr \cup {NULL}]
      BY ONLY TypeOK DEF TypeOK
    <3>1. /\ \A u \in Thread : u # t => pc'[u] = pc[u] /\ in_elem'[u] = in_elem[u]
          /\ task' = task /\ field' = field
          /\ queued' = queued
      BY ONLY <2>9, <3>0 DEF allqempty
    <3>2. pc[t] = "idle" /\ pc'[t] = "freeing" /\ in_elem'[t] = in_elem[t]
      BY <2>9, <3>0 DEF allqempty, Working
    <3> QED BY ONLY <1>0, <3>1, <3>2, ControlInv, t \in Thread DEF ControlInv, IsTask, Working, NewVersion, Image
  <2>10. CASE perform_delayedfree(t)
    <3>1. pc' = pc /\ task' = task /\ field' = field /\ in_elem' = in_elem
      BY ONLY <2>10 DEF perform_delayedfree
    <3>2. queued' = queued
      BY ONLY <2>10 DEF perform_delayedfree
    <3> QED BY ONLY <1>0, <3>1, <3>2, ControlInv, t \in Thread DEF ControlInv, IsTask, Working, NewVersion, Image
  <2>11. CASE perform_delayedfree_end(t)
    <3>0. pc \in [Thread -> Label] /\ in_elem \in [Thread -> Addr \cup {NULL}]
      BY ONLY TypeOK DEF TypeOK
    <3>1. /\ \A u \in Thread : u # t => pc'[u] = pc[u] /\ in_elem'[u] = in_elem[u]
          /\ task' = task /\ field' = field
          /\ queued' = queued
      BY ONLY <2>11, <3>0 DEF perform_delayedfree_end
    <3>2. pc[t] = "freeing" /\ pc'[t] = "rows" /\ in_elem'[t] = in_elem[t]
      BY <2>11, <3>0 DEF perform_delayedfree_end, Working
    <3> QED BY ONLY <1>0, <3>1, <3>2, ControlInv, t \in Thread DEF ControlInv, IsTask, Working, NewVersion, Image
  <2>12. CASE FREE_ALL_MALLOCED_ENTRIES(t)
    <3>0. pc \in [Thread -> Label] /\ in_elem \in [Thread -> Addr \cup {NULL}]
      BY ONLY TypeOK DEF TypeOK
    <3>1. /\ \A u \in Thread : u # t => pc'[u] = pc[u] /\ in_elem'[u] = in_elem[u]
          /\ task' = task /\ field' = field
          /\ queued' = queued
      BY ONLY <2>12, <3>0 DEF FREE_ALL_MALLOCED_ENTRIES
    <3>2. pc[t] = "rows" /\ pc'[t] \in {"rows", "left", "wild"} /\ in_elem'[t] = in_elem[t]
      BY <2>12, <3>0 DEF FREE_ALL_MALLOCED_ENTRIES, Working
    <3> QED BY ONLY <1>0, <3>1, <3>2, ControlInv, t \in Thread DEF ControlInv, IsTask, Working, NewVersion, Image
  <2> QED
    BY ONLY <1>2, <2>1, <2>2, <2>3, <2>4, <2>5, <2>6, <2>7, <2>8, <2>9, <2>10, <2>11, <2>12
    DEF ThreadStep, OwnStep
<1> QED BY ONLY [Next]_vars, <1>1, <1>2 DEF Next

\* No step touches the old heap, or a new field that has its value.
LEMMA MemStep ==
  ASSUME TypeOK, Disciplined, ControlInv, MemInv, OutInv, TableInv, [Next]_vars
  PROVE  MemInv' /\ OutInv'
<1> USE Names
<1>0. heap' = heap /\ service' = service /\ UNCHANGED given
  BY ONLY Disciplined, [Next]_vars, GivenStep
<1>3. ASSUME mem' = mem, NEW t \in Thread, pc'[t] # "add_mapping",
             \A u \in Thread : u # t => pc'[u] = pc[u] /\ task'[u] = task[u] /\ field'[u] = field[u],
             pc'[t] = "enqueue" => pc[t] = "add_mapping" /\ task'[t] = task[t] /\ field'[t] = field[t]
      PROVE  MemInv' /\ OutInv'
  BY ONLY <1>0, <1>3, MemInv, OutInv DEF MemInv, OutInv, Written, NewVersion, Image
<1>4. ASSUME NEW t \in Thread, pc[t] \in Working, SetOut(t, Image(in(t))),
             \A u \in Thread : u # t => pc'[u] = pc[u] /\ task'[u] = task[u] /\ field'[u] = field[u],
             pc'[t] # "enqueue",
             pc'[t] = "add_mapping" => task'[t] = task[t] /\ field'[t] = field[t]
      PROVE  MemInv' /\ OutInv'
  <2>1. /\ MemInv'
        /\ \A s \in Source, f \in Field : Written(s, f) => Written(s, f)'
        /\ \A s \in Source, f \in Field : s = task[t].in /\ f = field[t] => Written(s, f)'
    BY ONLY <1>0, <1>4, TypeOK, Disciplined, ControlInv, MemInv, Writes
  <2>2. \A u \in Thread : pc[u] \in Working => task[u].in \in Source /\ field[u] \in Field
    BY ONLY TypeOK, ControlInv DEF TypeOK, ControlInv, IsTask
  <2>3. ASSUME NEW u \in Thread, pc'[u] \in {"add_mapping", "enqueue"}
        PROVE  Written(task[u].in, field[u])'
    <3>1. CASE u = t
      <4>1. PICK s \in Source, f \in Field : s = task[t].in /\ f = field[t]
        BY ONLY <1>4, <2>2
      <4>2. Written(s, f)' /\ task'[u].in = s /\ field'[u] = f
        BY ONLY <1>4, <2>1, <2>3, <3>1, <4>1
      <4> QED BY ONLY <4>2 DEF Written
    <3>2. CASE u # t
      <4>1. pc[u] \in {"add_mapping", "enqueue"} /\ task'[u] = task[u] /\ field'[u] = field[u]
        BY ONLY <1>4, <2>3, <3>2
      <4>2. PICK s \in Source, f \in Field : s = task[u].in /\ f = field[u]
        BY ONLY <2>2, <4>1 DEF Working
      <4>3. Written(s, f)
        BY ONLY <4>1, <4>2, OutInv DEF OutInv
      <4>4. Written(s, f)'
        BY ONLY <2>1, <4>3
      <4> QED BY ONLY <4>1, <4>2, <4>4 DEF Written
    <3> QED BY ONLY <3>1, <3>2
  <2> QED BY ONLY <2>1, <2>3 DEF OutInv
<1>1. CASE UNCHANGED vars
  BY ONLY <1>0, <1>1, MemInv, OutInv DEF vars, MemInv, OutInv, Written, NewVersion, Image
<1>2. ASSUME NEW t \in Thread, ThreadStep(t) PROVE MemInv' /\ OutInv'
  <2>1. CASE visit(t)
    <3>1. /\ \A u \in Thread : u # t => pc'[u] = pc[u] /\ task'[u] = task[u] /\ field'[u] = field[u]
          /\ mem' = mem /\ pc'[t] \notin {"add_mapping", "enqueue"}
      BY <2>1 DEF visit, TypeOK
    <3> QED BY ONLY <1>3, <3>1, t \in Thread
  <2>2. CASE visit_null(t)
    <3>1. SetOut(t, Image(in(t))) /\ pc[t] \in Working
      BY <2>2, Versions DEF visit_null, Working
    <3>2. /\ \A u \in Thread : u # t => pc'[u] = pc[u] /\ task'[u] = task[u] /\ field'[u] = field[u]
          /\ pc'[t] \in {"visit", "idle"}
      BY <2>2, Nexts DEF visit_null
    <3> QED BY ONLY <1>4, <3>1, <3>2, t \in Thread
  <2>3. CASE transform_map_wrlock(t)
    <3>1. /\ \A u \in Thread : u # t => pc'[u] = pc[u] /\ task'[u] = task[u] /\ field'[u] = field[u]
          /\ mem' = mem /\ pc'[t] \notin {"add_mapping", "enqueue"}
      BY <2>3 DEF transform_map_wrlock, TypeOK
    <3> QED BY ONLY <1>3, <3>1, t \in Thread
  <2>4. CASE visit_mapped(t)
    <3>1. SetOut(t, Image(in(t))) /\ pc[t] \in Working
      <4>1. pc[t] \in Working
        BY ONLY <2>4 DEF visit_mapped, Working
      <4>2. in(t) \in Addr
        BY <2>4, <4>1, Reads DEF visit_mapped, ControlInv, Working
      <4> QED BY ONLY <2>4, <4>1, <4>2, TableInv DEF visit_mapped, TableInv
    <3>2. /\ \A u \in Thread : u # t => pc'[u] = pc[u] /\ task'[u] = task[u] /\ field'[u] = field[u]
          /\ pc'[t] \in {"visit", "idle"}
      BY <2>4, Nexts DEF visit_mapped
    <3> QED BY ONLY <1>4, <3>1, <3>2, t \in Thread
  <2>5. CASE perfaction_ptr(t)
    <3>1. SetOut(t, Image(in(t))) /\ pc[t] \in Working
      BY ONLY <2>5 DEF perfaction_ptr, Working
    <3>2. /\ \A u \in Thread : u # t => pc'[u] = pc[u] /\ task'[u] = task[u] /\ field'[u] = field[u]
          /\ pc'[t] = "add_mapping" /\ task'[t] = task[t] /\ field'[t] = field[t]
      BY <2>5 DEF perfaction_ptr, TypeOK
    <3> QED BY ONLY <1>4, <3>1, <3>2, t \in Thread
  <2>6. CASE add_mapping(t)
    <3>1. pc[t] = "add_mapping" /\ mem' = mem
      BY ONLY <2>6 DEF add_mapping
    <3>2. CASE NextField(t)
      <4>1. /\ \A u \in Thread : u # t => pc'[u] = pc[u] /\ task'[u] = task[u] /\ field'[u] = field[u]
            /\ pc'[t] \in {"visit", "idle"}
        BY <3>2, Nexts
      <4> QED BY ONLY <1>3, <3>1, <4>1, t \in Thread
    <3>3. CASE pc' = [pc EXCEPT ![t] = "enqueue"] /\ UNCHANGED <<task, field>>
      <4>1. /\ \A u \in Thread : u # t => pc'[u] = pc[u] /\ task'[u] = task[u] /\ field'[u] = field[u]
            /\ pc'[t] = "enqueue" /\ task'[t] = task[t] /\ field'[t] = field[t]
        BY <3>3 DEF TypeOK
      <4> QED BY ONLY <1>3, <3>1, <4>1, t \in Thread
    <3> QED BY ONLY <2>6, <3>2, <3>3 DEF add_mapping
  <2>7. CASE addtoqueue(t)
    <3>1. /\ \A u \in Thread : u # t => pc'[u] = pc[u] /\ task'[u] = task[u] /\ field'[u] = field[u]
          /\ mem' = mem /\ pc'[t] \in {"visit", "idle"}
      BY <2>7, Nexts DEF addtoqueue
    <3> QED BY ONLY <1>3, <3>1, t \in Thread
  <2>8. CASE callxformer(t)
    <3>1. PICK x \in queued : task' = [task EXCEPT ![t] = x]
      BY ONLY <2>8 DEF callxformer
    <3>2. /\ \A u \in Thread : u # t => pc'[u] = pc[u] /\ task'[u] = task[u] /\ field'[u] = field[u]
          /\ mem' = mem /\ pc'[t] = "visit"
      BY <2>8, <3>1 DEF callxformer, TypeOK
    <3> QED BY ONLY <1>3, <3>2, t \in Thread
  <2>9. CASE allqempty(t)
    <3>1. /\ \A u \in Thread : u # t => pc'[u] = pc[u] /\ task'[u] = task[u] /\ field'[u] = field[u]
          /\ mem' = mem /\ pc'[t] \notin {"add_mapping", "enqueue"}
      BY <2>9 DEF allqempty, TypeOK
    <3> QED BY ONLY <1>3, <3>1, t \in Thread
  <2>10. CASE perform_delayedfree(t)
    <3>1. /\ \A u \in Thread : u # t => pc'[u] = pc[u] /\ task'[u] = task[u] /\ field'[u] = field[u]
          /\ mem' = mem /\ pc'[t] \notin {"add_mapping", "enqueue"}
      BY <2>10 DEF perform_delayedfree, TypeOK
    <3> QED BY ONLY <1>3, <3>1, t \in Thread
  <2>11. CASE perform_delayedfree_end(t)
    <3>1. /\ \A u \in Thread : u # t => pc'[u] = pc[u] /\ task'[u] = task[u] /\ field'[u] = field[u]
          /\ mem' = mem /\ pc'[t] \notin {"add_mapping", "enqueue"}
      BY <2>11 DEF perform_delayedfree_end, TypeOK
    <3> QED BY ONLY <1>3, <3>1, t \in Thread
  <2>12. CASE FREE_ALL_MALLOCED_ENTRIES(t)
    <3>1. /\ \A u \in Thread : u # t => pc'[u] = pc[u] /\ task'[u] = task[u] /\ field'[u] = field[u]
          /\ mem' = mem /\ pc'[t] \notin {"add_mapping", "enqueue"}
      BY <2>12 DEF FREE_ALL_MALLOCED_ENTRIES, TypeOK
    <3> QED BY ONLY <1>3, <3>1, t \in Thread
  <2> QED
    BY ONLY <1>2, <2>1, <2>2, <2>3, <2>4, <2>5, <2>6, <2>7, <2>8, <2>9, <2>10, <2>11, <2>12
    DEF ThreadStep, OwnStep
<1> QED BY ONLY [Next]_vars, <1>1, <1>2 DEF Next

-----------------------------------------------------------------------------
(* The lock of a row, the entries, and what is freed when *)

\* A thread keeps the lock of its row from the lookup to the new entry.
LEMMA LockStep ==
  ASSUME TypeOK, ControlInv, LockInv, [Next]_vars
  PROVE  LockInv'
<1> USE Names
<1>3. ASSUME lock' = lock, NEW t \in Thread,
             \A u \in Thread : u # t => pc'[u] = pc[u] /\ in_elem'[u] = in_elem[u],
             pc'[t] \in {"lookup", "add_mapping"} =>
               pc[t] \in {"lookup", "add_mapping"} /\ in_elem'[t] = in_elem[t]
      PROVE  LockInv'
  BY ONLY <1>3, LockInv DEF LockInv
<1>4. ASSUME NEW t \in Thread, transform_map_unlock(t), pc[t] \in {"lookup", "add_mapping"},
             \A u \in Thread : u # t => pc'[u] = pc[u] /\ in_elem'[u] = in_elem[u],
             pc'[t] \notin {"lookup", "add_mapping"}
      PROVE  LockInv'
  <2>1. lock' = [lock EXCEPT ![BucketOf[in_elem[t]]] = NULL] /\ lock[BucketOf[in_elem[t]]] = t
    BY ONLY <1>4, LockInv DEF LockInv, transform_map_unlock
  <2>2. \A b : b # BucketOf[in_elem[t]] => lock'[b] = lock[b]
    BY ONLY <2>1, TypeOK DEF TypeOK
  <2> QED BY ONLY <1>4, <2>1, <2>2, LockInv DEF LockInv
<1>1. CASE UNCHANGED vars
  BY ONLY <1>1, LockInv DEF vars, LockInv
<1>2. ASSUME NEW t \in Thread, ThreadStep(t) PROVE LockInv'
  <2>1. CASE visit(t)
    <3>1. /\ \A u \in Thread : u # t => pc'[u] = pc[u] /\ in_elem'[u] = in_elem[u]
          /\ pc'[t] \notin {"lookup", "add_mapping"}
      BY <2>1 DEF visit, TypeOK
    <3> QED BY ONLY <2>1, <1>3, <3>1, t \in Thread DEF visit
  <2>2. CASE visit_null(t)
    <3>1. /\ \A u \in Thread : u # t => pc'[u] = pc[u] /\ in_elem'[u] = in_elem[u]
          /\ pc'[t] \in {"visit", "idle"}
      BY <2>2, Nexts DEF visit_null
    <3> QED BY ONLY <2>2, <1>3, <3>1, t \in Thread DEF visit_null
  <2>3. CASE transform_map_wrlock(t)
    <3>1. /\ \A u \in Thread : u # t => pc'[u] = pc[u]
          /\ in_elem' = in_elem /\ pc[t] = "wrlock"
          /\ lock[BucketOf[in_elem[t]]] = NULL /\ lock' = [lock EXCEPT ![BucketOf[in_elem[t]]] = t]
      BY <2>3 DEF transform_map_wrlock, TypeOK
    <3>2. BucketOf[in_elem[t]] \in Bucket
      BY <3>1, BucketAssumption DEF ControlInv, Working
    <3>3. lock'[BucketOf[in_elem[t]]] = t /\ \A c : c # BucketOf[in_elem[t]] => lock'[c] = lock[c]
      BY ONLY <3>1, <3>2, TypeOK DEF TypeOK
    <3>4. \A u \in Thread : u # NULL
      BY ONLY Names
    <3> QED BY ONLY <3>1, <3>3, <3>4, LockInv, t \in Thread DEF LockInv
  <2>4. CASE visit_mapped(t)
    <3>1. /\ \A u \in Thread : u # t => pc'[u] = pc[u] /\ in_elem'[u] = in_elem[u]
          /\ pc'[t] \in {"visit", "idle"}
      BY <2>4, Nexts DEF visit_mapped
    <3> QED BY ONLY <2>4, <1>4, <3>1, t \in Thread DEF visit_mapped
  <2>5. CASE perfaction_ptr(t)
    <3>1. /\ \A u \in Thread : u # t => pc'[u] = pc[u] /\ in_elem'[u] = in_elem[u]
          /\ pc[t] = "lookup" /\ in_elem'[t] = in_elem[t] /\ lock' = lock
      BY <2>5 DEF perfaction_ptr, TypeOK
    <3> QED BY ONLY <1>3, <3>1, t \in Thread
  <2>6. CASE add_mapping(t)
    <3>0. pc[t] = "add_mapping" /\ transform_map_unlock(t) /\ in_elem' = in_elem
      BY ONLY <2>6 DEF add_mapping
    <3>1. /\ \A u \in Thread : u # t => pc'[u] = pc[u] /\ in_elem'[u] = in_elem[u]
          /\ pc'[t] \notin {"lookup", "add_mapping"}
      BY <2>6, Nexts DEF add_mapping, TypeOK
    <3> QED BY ONLY <1>4, <3>0, <3>1, t \in Thread
  <2>7. CASE addtoqueue(t)
    <3>1. /\ \A u \in Thread : u # t => pc'[u] = pc[u] /\ in_elem'[u] = in_elem[u]
          /\ pc'[t] \in {"visit", "idle"}
      BY <2>7, Nexts DEF addtoqueue
    <3> QED BY ONLY <2>7, <1>3, <3>1, t \in Thread DEF addtoqueue
  <2>8. CASE callxformer(t)
    <3>1. /\ \A u \in Thread : u # t => pc'[u] = pc[u] /\ in_elem'[u] = in_elem[u]
          /\ pc'[t] \notin {"lookup", "add_mapping"}
      BY <2>8 DEF callxformer, TypeOK
    <3> QED BY ONLY <2>8, <1>3, <3>1, t \in Thread DEF callxformer
  <2>9. CASE allqempty(t)
    <3>1. /\ \A u \in Thread : u # t => pc'[u] = pc[u] /\ in_elem'[u] = in_elem[u]
          /\ pc'[t] \notin {"lookup", "add_mapping"}
      BY <2>9 DEF allqempty, TypeOK
    <3> QED BY ONLY <2>9, <1>3, <3>1, t \in Thread DEF allqempty
  <2>10. CASE perform_delayedfree(t)
    <3>1. /\ \A u \in Thread : u # t => pc'[u] = pc[u] /\ in_elem'[u] = in_elem[u]
          /\ pc'[t] \notin {"lookup", "add_mapping"}
      BY <2>10 DEF perform_delayedfree, TypeOK
    <3> QED BY ONLY <2>10, <1>3, <3>1, t \in Thread DEF perform_delayedfree
  <2>11. CASE perform_delayedfree_end(t)
    <3>1. /\ \A u \in Thread : u # t => pc'[u] = pc[u] /\ in_elem'[u] = in_elem[u]
          /\ pc'[t] \notin {"lookup", "add_mapping"}
      BY <2>11 DEF perform_delayedfree_end, TypeOK
    <3> QED BY ONLY <2>11, <1>3, <3>1, t \in Thread DEF perform_delayedfree_end
  <2>12. CASE FREE_ALL_MALLOCED_ENTRIES(t)
    <3>1. /\ \A u \in Thread : u # t => pc'[u] = pc[u] /\ in_elem'[u] = in_elem[u]
          /\ pc'[t] \notin {"lookup", "add_mapping"}
      BY <2>12 DEF FREE_ALL_MALLOCED_ENTRIES, TypeOK
    <3> QED BY ONLY <2>12, <1>3, <3>1, t \in Thread DEF FREE_ALL_MALLOCED_ENTRIES
  <2> QED
    BY ONLY <1>2, <2>1, <2>2, <2>3, <2>4, <2>5, <2>6, <2>7, <2>8, <2>9, <2>10, <2>11, <2>12
    DEF ThreadStep, OwnStep
<1> QED BY ONLY [Next]_vars, <1>1, <1>2 DEF Next

\* An address has a new entry, or is about to have one, once perfaction_ptr was called for it.
LEMMA CallsStep ==
  ASSUME TypeOK, Disciplined, ControlInv, MemInv, OutInv, LockInv, TableInv, CallsInv, [Next]_vars
  PROVE  TableInv' /\ CallsInv'
<1> USE Names
<1>0. heap' = heap /\ service' = service
  BY ONLY Disciplined, [Next]_vars, GivenStep
<1>3. ASSUME table' = table, calls' = calls, NEW t \in Thread,
             \A u \in Thread : u # t => pc'[u] = pc[u] /\ in_elem'[u] = in_elem[u],
             pc[t] # "add_mapping", pc'[t] # "add_mapping"
      PROVE  TableInv' /\ CallsInv'
  <2>1. TableInv'
    BY ONLY <1>0, <1>3, TableInv DEF TableInv, Image
  <2>2. \A a : (\E u \in Thread : pc'[u] = "add_mapping" /\ in_elem'[u] = a)
                 <=> (\E u \in Thread : pc[u] = "add_mapping" /\ in_elem[u] = a)
    BY ONLY <1>3
  <2> QED BY ONLY <1>3, <2>1, <2>2, CallsInv DEF CallsInv
<1>1. CASE UNCHANGED vars
  BY ONLY <1>0, <1>1, TableInv, CallsInv DEF vars, TableInv, CallsInv, Image
<1>2. ASSUME NEW t \in Thread, ThreadStep(t) PROVE TableInv' /\ CallsInv'
  <2>1. CASE visit(t)
    <3>1. /\ \A u \in Thread : u # t => pc'[u] = pc[u] /\ in_elem'[u] = in_elem[u]
          /\ pc[t] # "add_mapping" /\ pc'[t] # "add_mapping"
      BY <2>1 DEF visit, TypeOK
    <3> QED BY ONLY <2>1, <1>3, <3>1, t \in Thread DEF visit
  <2>2. CASE visit_null(t)
    <3>1. /\ \A u \in Thread : u # t => pc'[u] = pc[u] /\ in_elem'[u] = in_elem[u]
          /\ pc'[t] \in {"visit", "idle"}
      BY <2>2, Nexts DEF visit_null
    <3> QED BY ONLY <2>2, <1>3, <3>1, t \in Thread DEF visit_null
  <2>3. CASE transform_map_wrlock(t)
    <3>1. /\ \A u \in Thread : u # t => pc'[u] = pc[u] /\ in_elem'[u] = in_elem[u]
          /\ pc[t] # "add_mapping" /\ pc'[t] # "add_mapping"
      BY <2>3 DEF transform_map_wrlock, TypeOK
    <3> QED BY ONLY <2>3, <1>3, <3>1, t \in Thread DEF transform_map_wrlock
  <2>4. CASE visit_mapped(t)
    <3>1. /\ \A u \in Thread : u # t => pc'[u] = pc[u] /\ in_elem'[u] = in_elem[u]
          /\ pc'[t] \in {"visit", "idle"}
      BY <2>4, Nexts DEF visit_mapped
    <3> QED BY ONLY <2>4, <1>3, <3>1, t \in Thread DEF visit_mapped
  <2>5. CASE perfaction_ptr(t)
    <3> DEFINE a == in_elem[t]
    <3>1. /\ \A u \in Thread : u # t => pc'[u] = pc[u] /\ in_elem'[u] = in_elem[u]
          /\ pc[t] = "lookup" /\ pc'[t] = "add_mapping" /\ in_elem'[t] = a /\ table' = table
      BY <2>5 DEF perfaction_ptr, TypeOK
    <3>2. in(t) = a /\ a \in Addr
      BY <3>1, Reads DEF ControlInv, Working
    <3>3. table[a] = NULL /\ calls' = [calls EXCEPT ![a] = @ + 1]
      BY ONLY <2>5, <3>2 DEF perfaction_ptr
    <3>4. \A u \in Thread : ~(pc[u] = "add_mapping" /\ in_elem[u] = a)
      BY ONLY <3>1, LockInv, t \in Thread DEF LockInv
    <3>5. calls[a] = 0
      BY ONLY <3>2, <3>3, <3>4, CallsInv DEF CallsInv
    <3>6. calls'[a] = 1 /\ \A c \in Addr : c # a => calls'[c] = calls[c]
      BY ONLY <3>2, <3>3, <3>5, TypeOK DEF TypeOK
    <3> HIDE DEF a
    <3>7. \A c \in Addr : c # a => ((\E u \in Thread : pc'[u] = "add_mapping" /\ in_elem'[u] = c)
                                      <=> (\E u \in Thread : pc[u] = "add_mapping" /\ in_elem[u] = c))
      BY ONLY <3>1
    <3>8. CallsInv'
      BY ONLY <3>1, <3>6, <3>7, CallsInv, t \in Thread DEF CallsInv
    <3> QED BY ONLY <1>0, <3>1, <3>8, TableInv DEF TableInv, Image
  <2>6. CASE add_mapping(t)
    <3> DEFINE a == in_elem[t]
    <3>1. /\ \A u \in Thread : u # t => pc'[u] = pc[u] /\ in_elem'[u] = in_elem[u]
          /\ pc[t] = "add_mapping" /\ pc'[t] # "add_mapping" /\ calls' = calls
      BY <2>6, Nexts DEF add_mapping, TypeOK
    <3>2. in(t) = a /\ a \in Addr /\ out(t) = Image(a) /\ Image(a) # NULL
      BY <3>1, Reads, Versions DEF ControlInv, OutInv, Written, Working, out
    <3>3. table' = [table EXCEPT ![a] = IF @ = NULL THEN Image(a) ELSE @]
      BY ONLY <2>6, <3>2 DEF add_mapping
    <3>4. /\ table'[a] # NULL /\ (table[a] = NULL => table'[a] = Image(a)) /\ (table[a] # NULL => table'[a] = table[a])
          /\ \A c \in Addr : c # a => table'[c] = table[c]
      BY ONLY <3>2, <3>3, TypeOK DEF TypeOK
    <3>5. calls[a] = 1
      BY ONLY <3>1, <3>2, CallsInv, t \in Thread DEF CallsInv
    <3>6. TableInv'
      BY ONLY <1>0, <3>2, <3>4, TableInv DEF TableInv, Image
    <3> HIDE DEF a
    <3>7. \A c \in Addr : c # a => ((\E u \in Thread : pc'[u] = "add_mapping" /\ in_elem'[u] = c)
                                      <=> (\E u \in Thread : pc[u] = "add_mapping" /\ in_elem[u] = c))
      BY ONLY <3>1 DEF a
    <3>8. CallsInv'
      BY ONLY <3>1, <3>4, <3>5, <3>7, CallsInv DEF CallsInv
    <3> QED BY ONLY <3>6, <3>8
  <2>7. CASE addtoqueue(t)
    <3>1. /\ \A u \in Thread : u # t => pc'[u] = pc[u] /\ in_elem'[u] = in_elem[u]
          /\ pc'[t] \in {"visit", "idle"}
      BY <2>7, Nexts DEF addtoqueue
    <3> QED BY ONLY <2>7, <1>3, <3>1, t \in Thread DEF addtoqueue
  <2>8. CASE callxformer(t)
    <3>1. /\ \A u \in Thread : u # t => pc'[u] = pc[u] /\ in_elem'[u] = in_elem[u]
          /\ pc[t] # "add_mapping" /\ pc'[t] # "add_mapping"
      BY <2>8 DEF callxformer, TypeOK
    <3> QED BY ONLY <2>8, <1>3, <3>1, t \in Thread DEF callxformer
  <2>9. CASE allqempty(t)
    <3>1. /\ \A u \in Thread : u # t => pc'[u] = pc[u] /\ in_elem'[u] = in_elem[u]
          /\ pc[t] # "add_mapping" /\ pc'[t] # "add_mapping"
      BY <2>9 DEF allqempty, TypeOK
    <3> QED BY ONLY <2>9, <1>3, <3>1, t \in Thread DEF allqempty
  <2>10. CASE perform_delayedfree(t)
    <3>1. pc' = pc /\ in_elem' = in_elem /\ table' = table /\ calls' = calls /\ pc[t] = "freeing"
      BY ONLY <2>10 DEF perform_delayedfree
    <3> QED BY ONLY <1>3, <3>1, t \in Thread
  <2>11. CASE perform_delayedfree_end(t)
    <3>1. /\ \A u \in Thread : u # t => pc'[u] = pc[u] /\ in_elem'[u] = in_elem[u]
          /\ pc[t] # "add_mapping" /\ pc'[t] # "add_mapping"
      BY <2>11 DEF perform_delayedfree_end, TypeOK
    <3> QED BY ONLY <2>11, <1>3, <3>1, t \in Thread DEF perform_delayedfree_end
  <2>12. CASE FREE_ALL_MALLOCED_ENTRIES(t)
    <3>1. /\ \A u \in Thread : u # t => pc'[u] = pc[u] /\ in_elem'[u] = in_elem[u]
          /\ pc[t] # "add_mapping" /\ pc'[t] # "add_mapping"
      BY <2>12 DEF FREE_ALL_MALLOCED_ENTRIES, TypeOK
    <3> QED BY ONLY <2>12, <1>3, <3>1, t \in Thread DEF FREE_ALL_MALLOCED_ENTRIES
  <2> QED
    BY ONLY <1>2, <2>1, <2>2, <2>3, <2>4, <2>5, <2>6, <2>7, <2>8, <2>9, <2>10, <2>11, <2>12
    DEF ThreadStep, OwnStep
<1> QED BY ONLY [Next]_vars, <1>1, <1>2 DEF Next

\* The old memory of an object goes to one list, and from there to free.
LEMMA FreeStep ==
  ASSUME TypeOK, ControlInv, MemInv, LockInv, CallsInv, FreeInv, [Next]_vars
  PROVE  FreeInv'
<1>3. ASSUME calls' = calls, freed' = freed, freelater' = freelater PROVE FreeInv'
  BY ONLY <1>3, FreeInv DEF FreeInv
<1>1. CASE UNCHANGED vars
  BY ONLY <1>1, <1>3 DEF vars
<1>2. ASSUME NEW t \in Thread, ThreadStep(t) PROVE FreeInv'
  <2>1. CASE visit(t)
    BY ONLY <2>1, <1>3 DEF visit
  <2>2. CASE visit_null(t)
    BY ONLY <2>2, <1>3 DEF visit_null
  <2>3. CASE transform_map_wrlock(t)
    BY ONLY <2>3, <1>3 DEF transform_map_wrlock
  <2>4. CASE visit_mapped(t)
    BY ONLY <2>4, <1>3 DEF visit_mapped
  <2>5. CASE perfaction_ptr(t)
    <3> DEFINE a == in(t)
    <3>1. /\ calls' = [calls EXCEPT ![a] = @ + 1] /\ freed' = freed /\ table[a] = NULL /\ pc[t] = "lookup"
          /\ freelater' = [freelater EXCEPT ![t] = IF a \in service.moved THEN @ \cup {a} ELSE @]
      BY ONLY <2>5 DEF perfaction_ptr
    <3>2. a \in Addr /\ a = in_elem[t]
      BY <3>1, Reads, Names DEF ControlInv, Working
    <3>3. calls[a] = 0
      BY ONLY <3>1, <3>2, CallsInv, LockInv, t \in Thread DEF CallsInv, LockInv
    <3> HIDE DEF a
    <3>4. calls'[a] = 1 /\ \A c \in Addr : c # a => calls'[c] = calls[c]
      BY ONLY <3>1, <3>2, <3>3, TypeOK DEF TypeOK
    <3>5. a \notin freed /\ \A u \in Thread : a \notin freelater[u]
      BY ONLY <3>3, FreeInv DEF FreeInv
    <3>6. \A u \in Thread : /\ freelater'[u] \subseteq freelater[u] \cup {a}
                            /\ (u # t => freelater'[u] = freelater[u])
      BY ONLY <3>1, TypeOK, t \in Thread DEF TypeOK
    <3>7. freed \subseteq Addr /\ \A u \in Thread : freelater[u] \subseteq Addr
      BY ONLY TypeOK DEF TypeOK
    <3>8. \A c \in freed' : calls'[c] > 0
      BY ONLY <3>1, <3>4, <3>7, FreeInv DEF FreeInv
    <3>9. ASSUME NEW u \in Thread, NEW c \in freelater'[u]
          PROVE  calls'[c] > 0 /\ c \notin freed' /\ \A w \in Thread : c \in freelater'[w] => w = u
      <4>1. CASE c = a
        BY ONLY <3>1, <3>4, <3>5, <3>6, <3>9, <4>1
      <4>2. CASE c # a
        <5>1. c \in freelater[u] /\ c \in Addr
          BY ONLY <3>6, <3>7, <3>9, <4>2
        <5> QED BY ONLY <3>1, <3>4, <3>6, <4>2, <5>1, FreeInv DEF FreeInv
      <4> QED BY ONLY <4>1, <4>2
    <3> QED BY ONLY <3>8, <3>9 DEF FreeInv
  <2>6. CASE add_mapping(t)
    BY ONLY <2>6, <1>3 DEF add_mapping
  <2>7. CASE addtoqueue(t)
    BY ONLY <2>7, <1>3 DEF addtoqueue
  <2>8. CASE callxformer(t)
    BY ONLY <2>8, <1>3 DEF callxformer
  <2>9. CASE allqempty(t)
    BY ONLY <2>9, <1>3 DEF allqempty
  <2>10. CASE perform_delayedfree(t)
    <3>1. PICK a \in freelater[t] : /\ freed' = freed \cup {a}
                                    /\ freelater' = [freelater EXCEPT ![t] = @ \ {a}]
      BY ONLY <2>10 DEF perform_delayedfree
    <3>2. calls' = calls
      BY ONLY <2>10 DEF perform_delayedfree
    <3>3. /\ freelater'[t] = freelater[t] \ {a}
          /\ \A u \in Thread : u # t => freelater'[u] = freelater[u]
      BY ONLY <3>1, TypeOK, t \in Thread DEF TypeOK
    <3> QED BY ONLY <3>1, <3>2, <3>3, FreeInv, t \in Thread DEF FreeInv
  <2>11. CASE perform_delayedfree_end(t)
    BY ONLY <2>11, <1>3 DEF perform_delayedfree_end
  <2>12. CASE FREE_ALL_MALLOCED_ENTRIES(t)
    BY ONLY <2>12, <1>3 DEF FREE_ALL_MALLOCED_ENTRIES
  <2> QED
    BY ONLY <1>2, <2>1, <2>2, <2>3, <2>4, <2>5, <2>6, <2>7, <2>8, <2>9, <2>10, <2>11, <2>12
    DEF ThreadStep, OwnStep
<1> QED BY ONLY [Next]_vars, <1>1, <1>2 DEF Next

\* Once a thread has found the queues empty no thread works or gets work again.
LEMMA QuietStep ==
  ASSUME TypeOK, ControlInv, QuietInv, [Next]_vars
  PROVE  QuietInv'
<1>3. ASSUME NEW t \in Thread, \A u \in Thread : pc[u] \notin Leaving,
             \A u \in Thread : u # t => pc'[u] = pc[u], pc'[t] \notin Leaving,
             UNCHANGED <<freed, rowfrees>>
      PROVE  QuietInv'
  BY ONLY <1>3, QuietInv DEF QuietInv
<1>4. ASSUME NEW t \in Thread, \A u \in Thread : u # t => pc'[u] = pc[u],
             pc[t] \in Leaving, pc'[t] \in Leaving, queued' = queued
      PROVE  QuietInv'
  <2>1. "freeing" \notin Working /\ "rows" \notin Working /\ "left" \notin Working /\ "wild" \notin Working
    BY DEF Working
  <2> QED BY ONLY <1>4, <2>1, QuietInv DEF QuietInv, Leaving
<1>1. CASE UNCHANGED vars
  BY ONLY <1>1, QuietInv DEF vars, QuietInv
<1>2. ASSUME NEW t \in Thread, ThreadStep(t) PROVE QuietInv'
  <2>1. CASE visit(t)
    <3>1. pc[t] \in Working /\ UNCHANGED <<freed, rowfrees>>
      BY ONLY <2>1 DEF visit, Working
    <3>2. \A u \in Thread : pc[u] \notin Leaving
      BY ONLY <3>1, QuietInv, t \in Thread DEF QuietInv
    <3>3. /\ \A u \in Thread : u # t => pc'[u] = pc[u]
          /\ pc'[t] \notin Leaving
      BY <2>1 DEF visit, TypeOK, Leaving
    <3> QED BY ONLY <1>3, <3>1, <3>2, <3>3, t \in Thread
  <2>2. CASE visit_null(t)
    <3>1. pc[t] \in Working /\ UNCHANGED <<freed, rowfrees>>
      BY ONLY <2>2 DEF visit_null, Working
    <3>2. \A u \in Thread : pc[u] \notin Leaving
      BY ONLY <3>1, QuietInv, t \in Thread DEF QuietInv
    <3>3. /\ \A u \in Thread : u # t => pc'[u] = pc[u]
          /\ pc'[t] \notin Leaving
      BY <2>2, Nexts DEF visit_null, TypeOK, Leaving
    <3> QED BY ONLY <1>3, <3>1, <3>2, <3>3, t \in Thread
  <2>3. CASE transform_map_wrlock(t)
    <3>1. pc[t] \in Working /\ UNCHANGED <<freed, rowfrees>>
      BY ONLY <2>3 DEF transform_map_wrlock, Working
    <3>2. \A u \in Thread : pc[u] \notin Leaving
      BY ONLY <3>1, QuietInv, t \in Thread DEF QuietInv
    <3>3. /\ \A u \in Thread : u # t => pc'[u] = pc[u]
          /\ pc'[t] \notin Leaving
      BY <2>3 DEF transform_map_wrlock, TypeOK, Leaving
    <3> QED BY ONLY <1>3, <3>1, <3>2, <3>3, t \in Thread
  <2>4. CASE visit_mapped(t)
    <3>1. pc[t] \in Working /\ UNCHANGED <<freed, rowfrees>>
      BY ONLY <2>4 DEF visit_mapped, Working
    <3>2. \A u \in Thread : pc[u] \notin Leaving
      BY ONLY <3>1, QuietInv, t \in Thread DEF QuietInv
    <3>3. /\ \A u \in Thread : u # t => pc'[u] = pc[u]
          /\ pc'[t] \notin Leaving
      BY <2>4, Nexts DEF visit_mapped, TypeOK, Leaving
    <3> QED BY ONLY <1>3, <3>1, <3>2, <3>3, t \in Thread
  <2>5. CASE perfaction_ptr(t)
    <3>1. pc[t] \in Working /\ UNCHANGED <<freed, rowfrees>>
      BY ONLY <2>5 DEF perfaction_ptr, Working
    <3>2. \A u \in Thread : pc[u] \notin Leaving
      BY ONLY <3>1, QuietInv, t \in Thread DEF QuietInv
    <3>3. /\ \A u \in Thread : u # t => pc'[u] = pc[u]
          /\ pc'[t] \notin Leaving
      BY <2>5 DEF perfaction_ptr, TypeOK, Leaving
    <3> QED BY ONLY <1>3, <3>1, <3>2, <3>3, t \in Thread
  <2>6. CASE add_mapping(t)
    <3>1. pc[t] \in Working /\ UNCHANGED <<freed, rowfrees>>
      BY ONLY <2>6 DEF add_mapping, Working
    <3>2. \A u \in Thread : pc[u] \notin Leaving
      BY ONLY <3>1, QuietInv, t \in Thread DEF QuietInv
    <3>3. /\ \A u \in Thread : u # t => pc'[u] = pc[u]
          /\ pc'[t] \notin Leaving
      BY <2>6, Nexts DEF add_mapping, TypeOK, Leaving
    <3> QED BY ONLY <1>3, <3>1, <3>2, <3>3, t \in Thread
  <2>7. CASE addtoqueue(t)
    <3>1. pc[t] \in Working /\ UNCHANGED <<freed, rowfrees>>
      BY ONLY <2>7 DEF addtoqueue, Working
    <3>2. \A u \in Thread : pc[u] \notin Leaving
      BY ONLY <3>1, QuietInv, t \in Thread DEF QuietInv
    <3>3. /\ \A u \in Thread : u # t => pc'[u] = pc[u]
          /\ pc'[t] \notin Leaving
      BY <2>7, Nexts DEF addtoqueue, TypeOK, Leaving
    <3> QED BY ONLY <1>3, <3>1, <3>2, <3>3, t \in Thread
  <2>8. CASE callxformer(t)
    <3>1. UNCHANGED <<freed, rowfrees>> /\ queued # {}
      BY ONLY <2>8 DEF callxformer
    <3>2. \A u \in Thread : pc[u] \notin Leaving
      BY ONLY <3>1, QuietInv DEF QuietInv
    <3>3. /\ \A u \in Thread : u # t => pc'[u] = pc[u]
          /\ pc'[t] \notin Leaving
      BY <2>8 DEF callxformer, TypeOK, Leaving
    <3> QED BY ONLY <1>3, <3>1, <3>2, <3>3, t \in Thread
  <2>9. CASE allqempty(t)
    <3>1. /\ queued' = queued /\ queued = {} /\ \A u \in Thread : task[u] = NoTask
          /\ \A u \in Thread : u # t => pc'[u] = pc[u]
          /\ pc'[t] = "freeing"
      BY <2>9 DEF allqempty, TypeOK
    <3>2. \A u \in Thread : pc[u] \notin Working
      BY ONLY <3>1, ControlInv, Names DEF ControlInv, IsTask, NoTask
    <3> QED BY ONLY <3>1, <3>2, t \in Thread DEF QuietInv, Working, Leaving
  <2>10. CASE perform_delayedfree(t)
    <3>1. /\ \A u \in Thread : u # t => pc'[u] = pc[u]
          /\ pc[t] \in Leaving /\ pc'[t] \in Leaving /\ queued' = queued
      BY <2>10 DEF perform_delayedfree, TypeOK, Leaving
    <3> QED BY ONLY <1>4, <3>1, t \in Thread
  <2>11. CASE perform_delayedfree_end(t)
    <3>1. /\ \A u \in Thread : u # t => pc'[u] = pc[u]
          /\ pc[t] \in Leaving /\ pc'[t] \in Leaving /\ queued' = queued
      BY <2>11 DEF perform_delayedfree_end, TypeOK, Leaving
    <3> QED BY ONLY <1>4, <3>1, t \in Thread
  <2>12. CASE FREE_ALL_MALLOCED_ENTRIES(t)
    <3>1. /\ \A u \in Thread : u # t => pc'[u] = pc[u]
          /\ pc[t] \in Leaving /\ pc'[t] \in Leaving /\ queued' = queued
      BY <2>12 DEF FREE_ALL_MALLOCED_ENTRIES, TypeOK, Leaving
    <3> QED BY ONLY <1>4, <3>1, t \in Thread
  <2> QED
    BY ONLY <1>2, <2>1, <2>2, <2>3, <2>4, <2>5, <2>6, <2>7, <2>8, <2>9, <2>10, <2>11, <2>12
    DEF ThreadStep, OwnStep
<1> QED BY ONLY [Next]_vars, <1>1, <1>2 DEF Next

-----------------------------------------------------------------------------
(* Nothing is forgotten, and the rows are freed once *)

\* Field f of the new version of s is final and what it points to was entered.
Done(s, f) == Written(s, f) /\ (heap[s][f] = NULL \/ heap[s][f] \in Entered)

\* Somebody still has s to traverse, from field f or an earlier one.
Pending(s, f) ==
  \/ \E x \in queued : x.in = s
  \/ \E t \in Thread : pc[t] \in Working /\ task[t].in = s /\ field[t] <= f
  \/ \E t \in Thread : pc[t] \in {"add_mapping", "enqueue"} /\ in_elem[t] = s

\* No object that was entered is forgotten, and no field of it.
CellsInv == \A s \in Traversed, f \in Field : Done(s, f) \/ Pending(s, f)

\* The rows that a thread has freed are those of its share up to the one it is at.
Gone(b) ==
  \E t \in Thread : /\ Lo(t) <= b /\ b < Hi(t)
                    /\ pc[t] = "left" \/ (pc[t] \in {"rows", "wild"} /\ b < row[t])

\* A thread is within its share, and a row was freed once if its thread is past it.
RowsInv ==
  /\ \A t \in Thread : pc[t] = "rows" => Lo(t) <= row[t] /\ row[t] <= Hi(t)
  /\ \A b \in Bucket : rowfrees[b] = IF Gone(b) THEN 1 ELSE 0

\* What is done stays done.
LEMMA DoneStep ==
  ASSUME TypeOK, Disciplined, ControlInv, MemInv, TableInv, [Next]_vars
  PROVE  \A s \in Source, f \in Field : Done(s, f) => Done(s, f)'
<1> USE Names
<1>0. heap' = heap /\ service' = service /\ UNCHANGED given
  BY ONLY Disciplined, [Next]_vars, GivenStep
<1>3. ASSUME mem' = mem, calls' = calls PROVE \A s \in Source, f \in Field : Done(s, f) => Done(s, f)'
  BY ONLY <1>0, <1>3 DEF Done, Written, Entered, NewVersion, Image
<1>4. ASSUME NEW t \in Thread, pc[t] \in Working, SetOut(t, Image(in(t))),
             \A o \in Object : calls[o] > 0 => calls'[o] > 0
      PROVE  \A s \in Source, f \in Field : Done(s, f) => Done(s, f)'
  <2>1. \A s \in Source, f \in Field : Written(s, f) => Written(s, f)'
    BY ONLY <1>0, <1>4, TypeOK, Disciplined, ControlInv, MemInv, Writes
  <2> QED BY ONLY <1>0, <1>4, <2>1 DEF Done, Entered
<1>1. CASE UNCHANGED vars
  BY ONLY <1>1, <1>3 DEF vars
<1>2. ASSUME NEW t \in Thread, ThreadStep(t) PROVE \A s \in Source, f \in Field : Done(s, f) => Done(s, f)'
  <2>1. CASE visit(t)
    BY ONLY <2>1, <1>3 DEF visit
  <2>2. CASE visit_null(t)
    <3>1. SetOut(t, Image(in(t))) /\ pc[t] \in Working /\ calls' = calls
      BY <2>2, Versions DEF visit_null, Working
    <3> QED BY ONLY <1>4, <3>1, t \in Thread
  <2>3. CASE transform_map_wrlock(t)
    BY ONLY <2>3, <1>3 DEF transform_map_wrlock
  <2>4. CASE visit_mapped(t)
    <3>1. pc[t] \in Working /\ calls' = calls
      BY ONLY <2>4 DEF visit_mapped, Working
    <3>2. in(t) \in Addr
      BY <2>4, <3>1, Reads DEF visit_mapped, ControlInv, Working
    <3>3. SetOut(t, Image(in(t)))
      BY ONLY <2>4, <3>2, TableInv DEF visit_mapped, TableInv
    <3> QED BY ONLY <1>4, <3>1, <3>3, t \in Thread
  <2>5. CASE perfaction_ptr(t)
    <3>1. SetOut(t, Image(in(t))) /\ pc[t] \in Working /\ calls' = [calls EXCEPT ![in(t)] = @ + 1]
      BY ONLY <2>5 DEF perfaction_ptr, Working
    <3>2. \A o \in Object : calls[o] > 0 => calls'[o] > 0
      BY <3>1 DEF TypeOK
    <3> QED BY ONLY <1>4, <3>1, <3>2, t \in Thread
  <2>6. CASE add_mapping(t)
    BY ONLY <2>6, <1>3 DEF add_mapping
  <2>7. CASE addtoqueue(t)
    BY ONLY <2>7, <1>3 DEF addtoqueue
  <2>8. CASE callxformer(t)
    BY ONLY <2>8, <1>3 DEF callxformer
  <2>9. CASE allqempty(t)
    BY ONLY <2>9, <1>3 DEF allqempty
  <2>10. CASE perform_delayedfree(t)
    BY ONLY <2>10, <1>3 DEF perform_delayedfree
  <2>11. CASE perform_delayedfree_end(t)
    BY ONLY <2>11, <1>3 DEF perform_delayedfree_end
  <2>12. CASE FREE_ALL_MALLOCED_ENTRIES(t)
    BY ONLY <2>12, <1>3 DEF FREE_ALL_MALLOCED_ENTRIES
  <2> QED
    BY ONLY <1>2, <2>1, <2>2, <2>3, <2>4, <2>5, <2>6, <2>7, <2>8, <2>9, <2>10, <2>11, <2>12
    DEF ThreadStep, OwnStep
<1> QED BY ONLY [Next]_vars, <1>1, <1>2 DEF Next

\* What a thread is about to enqueue was entered.
EnterInv == \A t \in Thread : pc[t] = "enqueue" => calls[in_elem[t]] > 0

\* perfaction_ptr has been called for what is about to be enqueued.
LEMMA EnterStep ==
  ASSUME TypeOK, ControlInv, CallsInv, EnterInv, [Next]_vars
  PROVE  EnterInv'
<1>3. ASSUME NEW t \in Thread, \A u \in Thread : u # t => pc'[u] = pc[u] /\ in_elem'[u] = in_elem[u],
             pc'[t] # "enqueue", calls' = calls
      PROVE  EnterInv'
  BY ONLY <1>3, EnterInv DEF EnterInv
<1>1. CASE UNCHANGED vars
  BY ONLY <1>1, EnterInv DEF vars, EnterInv
<1>2. ASSUME NEW t \in Thread, ThreadStep(t) PROVE EnterInv'
  <2>1. CASE visit(t)
    <3>1. /\ \A u \in Thread : u # t => pc'[u] = pc[u] /\ in_elem'[u] = in_elem[u]
          /\ pc'[t] # "enqueue" /\ calls' = calls
      BY <2>1 DEF visit, TypeOK
    <3> QED BY ONLY <1>3, <3>1, t \in Thread
  <2>2. CASE visit_null(t)
    <3>1. /\ \A u \in Thread : u # t => pc'[u] = pc[u] /\ in_elem'[u] = in_elem[u]
          /\ pc'[t] # "enqueue" /\ calls' = calls
      BY <2>2, Nexts DEF visit_null, TypeOK
    <3> QED BY ONLY <1>3, <3>1, t \in Thread
  <2>3. CASE transform_map_wrlock(t)
    <3>1. /\ \A u \in Thread : u # t => pc'[u] = pc[u] /\ in_elem'[u] = in_elem[u]
          /\ pc'[t] # "enqueue" /\ calls' = calls
      BY <2>3 DEF transform_map_wrlock, TypeOK
    <3> QED BY ONLY <1>3, <3>1, t \in Thread
  <2>4. CASE visit_mapped(t)
    <3>1. /\ \A u \in Thread : u # t => pc'[u] = pc[u] /\ in_elem'[u] = in_elem[u]
          /\ pc'[t] # "enqueue" /\ calls' = calls
      BY <2>4, Nexts DEF visit_mapped, TypeOK
    <3> QED BY ONLY <1>3, <3>1, t \in Thread
  <2>5. CASE perfaction_ptr(t)
    <3>1. /\ \A u \in Thread : u # t => pc'[u] = pc[u]
          /\ in_elem' = in_elem /\ pc'[t] # "enqueue"
      BY <2>5 DEF perfaction_ptr, TypeOK
    <3>2. \A a \in Addr : calls[a] > 0 => calls'[a] > 0
      BY <2>5 DEF perfaction_ptr, TypeOK
    <3>3. \A u \in Thread : pc[u] = "enqueue" => in_elem[u] \in Addr
      BY Names DEF ControlInv, Working
    <3> QED BY ONLY <3>1, <3>2, <3>3, EnterInv DEF EnterInv
  <2>6. CASE add_mapping(t)
    <3>1. /\ \A u \in Thread : u # t => pc'[u] = pc[u]
          /\ in_elem' = in_elem /\ calls' = calls /\ pc[t] = "add_mapping"
      BY <2>6, Nexts DEF add_mapping, TypeOK
    <3>2. in_elem[t] \in Addr
      BY <3>1, Names DEF ControlInv, Working
    <3>3. calls[in_elem[t]] = 1
      BY ONLY <3>1, <3>2, CallsInv, t \in Thread DEF CallsInv
    <3> QED BY <3>1, <3>3 DEF EnterInv
  <2>7. CASE addtoqueue(t)
    <3>1. /\ \A u \in Thread : u # t => pc'[u] = pc[u] /\ in_elem'[u] = in_elem[u]
          /\ pc'[t] # "enqueue" /\ calls' = calls
      BY <2>7, Nexts DEF addtoqueue, TypeOK
    <3> QED BY ONLY <1>3, <3>1, t \in Thread
  <2>8. CASE callxformer(t)
    <3>1. /\ \A u \in Thread : u # t => pc'[u] = pc[u] /\ in_elem'[u] = in_elem[u]
          /\ pc'[t] # "enqueue" /\ calls' = calls
      BY <2>8 DEF callxformer, TypeOK
    <3> QED BY ONLY <1>3, <3>1, t \in Thread
  <2>9. CASE allqempty(t)
    <3>1. /\ \A u \in Thread : u # t => pc'[u] = pc[u] /\ in_elem'[u] = in_elem[u]
          /\ pc'[t] # "enqueue" /\ calls' = calls
      BY <2>9 DEF allqempty, TypeOK
    <3> QED BY ONLY <1>3, <3>1, t \in Thread
  <2>10. CASE perform_delayedfree(t)
    <3>1. /\ \A u \in Thread : u # t => pc'[u] = pc[u] /\ in_elem'[u] = in_elem[u]
          /\ pc'[t] # "enqueue" /\ calls' = calls
      BY <2>10 DEF perform_delayedfree, TypeOK
    <3> QED BY ONLY <1>3, <3>1, t \in Thread
  <2>11. CASE perform_delayedfree_end(t)
    <3>1. /\ \A u \in Thread : u # t => pc'[u] = pc[u] /\ in_elem'[u] = in_elem[u]
          /\ pc'[t] # "enqueue" /\ calls' = calls
      BY <2>11 DEF perform_delayedfree_end, TypeOK
    <3> QED BY ONLY <1>3, <3>1, t \in Thread
  <2>12. CASE FREE_ALL_MALLOCED_ENTRIES(t)
    <3>1. /\ \A u \in Thread : u # t => pc'[u] = pc[u] /\ in_elem'[u] = in_elem[u]
          /\ pc'[t] # "enqueue" /\ calls' = calls
      BY <2>12 DEF FREE_ALL_MALLOCED_ENTRIES, TypeOK
    <3> QED BY ONLY <1>3, <3>1, t \in Thread
  <2> QED
    BY ONLY <1>2, <2>1, <2>2, <2>3, <2>4, <2>5, <2>6, <2>7, <2>8, <2>9, <2>10, <2>11, <2>12
    DEF ThreadStep, OwnStep
<1> QED BY ONLY [Next]_vars, <1>1, <1>2 DEF Next

\* No step forgets a field that is still to be visited.
LEMMA CellsStep ==
  ASSUME TypeOK, Disciplined, ControlInv, MemInv, OutInv, TableInv, CallsInv, EnterInv, CellsInv, [Next]_vars
  PROVE  CellsInv'
<1> USE Names
<1>0. heap' = heap /\ service' = service
  BY ONLY Disciplined, [Next]_vars, GivenStep
<1>a. \A s \in Source, f \in Field : Done(s, f) => Done(s, f)'
  BY ONLY TypeOK, Disciplined, ControlInv, MemInv, TableInv, [Next]_vars, DoneStep
<1>b. Traversed \subseteq Source /\ (calls' = calls => Traversed' = Traversed)
  BY ONLY <1>0 DEF Traversed, Entered, Source
<1>3. ASSUME NEW t \in Thread, queued' = queued, calls' = calls,
             \A u \in Thread : u # t => /\ pc'[u] = pc[u] /\ task'[u] = task[u]
                                        /\ field'[u] = field[u] /\ in_elem'[u] = in_elem[u],
             task'[t] = task[t], field'[t] = field[t],
             pc[t] \in Working => pc'[t] \in Working,
             pc[t] \in {"add_mapping", "enqueue"} =>
               pc'[t] \in {"add_mapping", "enqueue"} /\ in_elem'[t] = in_elem[t]
      PROVE  CellsInv'
  <2>1. \A s, f : Pending(s, f) => Pending(s, f)'
    BY ONLY <1>3 DEF Pending
  <2> QED BY ONLY <1>3, <1>a, <1>b, <2>1, CellsInv DEF CellsInv
<1>4. ASSUME NEW t \in Thread, pc[t] \in Working, NextField(t), in_elem' = in_elem,
             queued \subseteq queued', calls' = calls,
             \A s \in Source, f \in Field : s = task[t].in /\ f = field[t] => Done(s, f)',
             \A s \in Traversed : pc[t] \in {"add_mapping", "enqueue"} /\ in_elem[t] = s =>
               \E x \in queued' : x.in = s
      PROVE  CellsInv'
  <2>1. /\ \A u \in Thread : u # t => /\ pc'[u] = pc[u] /\ field'[u] = field[u] /\ task'[u] = task[u]
        /\ \/ pc'[t] = "visit" /\ task'[t] = task[t] /\ field'[t] = field[t] + 1
           \/ pc'[t] = "idle" /\ task'[t] = NoTask /\ field'[t] = 1 /\ field[t] = NumFields
    BY ONLY <1>4, TypeOK, Nexts
  <2>2. field[t] \in Nat /\ \A f \in Field : f \in Nat /\ f <= NumFields
    BY NumFieldsAssumption DEF TypeOK, Field
  <2>3. ASSUME NEW s \in Traversed, NEW f \in Field PROVE Done(s, f)' \/ Pending(s, f)'
    <3>1. CASE Done(s, f)
      BY ONLY <1>a, <1>b, <3>1, s \in Traversed, f \in Field
    <3>2. CASE \E x \in queued : x.in = s
      BY ONLY <1>4, <3>2 DEF Pending
    <3>3. CASE \E u \in Thread : pc[u] \in {"add_mapping", "enqueue"} /\ in_elem[u] = s
      <4>1. PICK u \in Thread : pc[u] \in {"add_mapping", "enqueue"} /\ in_elem[u] = s
        BY ONLY <3>3
      <4>2. CASE u = t
        BY ONLY <1>4, <4>1, <4>2, s \in Traversed DEF Pending
      <4>3. CASE u # t
        BY ONLY <1>4, <2>1, <4>1, <4>3 DEF Pending
      <4> QED BY ONLY <4>2, <4>3
    <3>4. CASE \E u \in Thread : pc[u] \in Working /\ task[u].in = s /\ field[u] <= f
      <4>1. PICK u \in Thread : pc[u] \in Working /\ task[u].in = s /\ field[u] <= f
        BY ONLY <3>4
      <4>2. CASE u # t
        BY ONLY <2>1, <4>1, <4>2 DEF Pending
      <4>3. CASE u = t /\ f = field[t]
        BY ONLY <1>4, <1>b, <4>1, <4>3, s \in Traversed
      <4>4. CASE u = t /\ f # field[t]
        <5>1. pc'[t] = "visit" /\ task'[t].in = s /\ field'[t] <= f
          BY ONLY <2>1, <2>2, <4>1, <4>4, f \in Field
        <5>2. pc'[t] \in Working
          BY ONLY <5>1 DEF Working
        <5> QED BY ONLY <5>1, <5>2, t \in Thread DEF Pending
      <4> QED BY ONLY <4>2, <4>3, <4>4
    <3> QED BY ONLY <3>1, <3>2, <3>3, <3>4, CellsInv, s \in Traversed, f \in Field DEF CellsInv, Pending
  <2> QED BY ONLY <1>4, <1>b, <2>3 DEF CellsInv
<1>1. CASE UNCHANGED vars
  <2>1. calls' = calls /\ queued' = queued /\ pc' = pc /\ task' = task /\ field' = field /\ in_elem' = in_elem
    BY ONLY <1>1 DEF vars
  <2>2. \A s, f : Pending(s, f) => Pending(s, f)'
    BY ONLY <2>1 DEF Pending
  <2> QED BY ONLY <1>a, <1>b, <2>1, <2>2, CellsInv DEF CellsInv
<1>2. ASSUME NEW t \in Thread, ThreadStep(t) PROVE CellsInv'
  <2>1. CASE visit(t)
    <3>1. /\ \A u \in Thread : u # t => /\ pc'[u] = pc[u] /\ task'[u] = task[u]
                                        /\ field'[u] = field[u] /\ in_elem'[u] = in_elem[u]
          /\ task'[t] = task[t] /\ field'[t] = field[t] /\ queued' = queued /\ calls' = calls
          /\ pc[t] \in Working => pc'[t] \in Working
          /\ pc[t] \notin {"add_mapping", "enqueue"}
      BY <2>1 DEF visit, TypeOK, Working
    <3> QED BY ONLY <1>3, <3>1, t \in Thread
  <2>2. CASE visit_null(t)
    <3>1. /\ pc[t] \in Working /\ NextField(t) /\ in_elem' = in_elem /\ queued' = queued /\ calls' = calls
          /\ pc[t] \notin {"add_mapping", "enqueue"} /\ in(t) = NULL
      BY ONLY <2>2 DEF visit_null, Working
    <3>2. task[t].in \in Source /\ field[t] \in Field /\ in(t) = heap[task[t].in][field[t]]
      BY <3>1, Reads
    <3>3. SetOut(t, Image(in(t))) /\ UNCHANGED given
      BY <2>2, Versions DEF visit_null
    <3>4. \A s \in Source, f \in Field : s = task[t].in /\ f = field[t] => Written(s, f)'
      BY ONLY <3>1, <3>3, TypeOK, Disciplined, ControlInv, MemInv, Writes, t \in Thread
    <3>5. \A s \in Source, f \in Field : s = task[t].in /\ f = field[t] => Done(s, f)'
      BY ONLY <1>0, <3>1, <3>2, <3>4 DEF Done
    <3> QED BY ONLY <1>4, <3>1, <3>5, t \in Thread
  <2>3. CASE transform_map_wrlock(t)
    <3>1. /\ \A u \in Thread : u # t => /\ pc'[u] = pc[u] /\ task'[u] = task[u]
                                        /\ field'[u] = field[u] /\ in_elem'[u] = in_elem[u]
          /\ task'[t] = task[t] /\ field'[t] = field[t] /\ queued' = queued /\ calls' = calls
          /\ pc[t] \in Working => pc'[t] \in Working
          /\ pc[t] \notin {"add_mapping", "enqueue"}
      BY <2>3 DEF transform_map_wrlock, TypeOK, Working
    <3> QED BY ONLY <1>3, <3>1, t \in Thread
  <2>4. CASE visit_mapped(t)
    <3>1. /\ pc[t] \in Working /\ NextField(t) /\ in_elem' = in_elem /\ queued' = queued /\ calls' = calls
          /\ pc[t] \notin {"add_mapping", "enqueue"} /\ table[in(t)] # NULL /\ pc[t] = "lookup"
      BY ONLY <2>4 DEF visit_mapped, Working
    <3>0. in(t) \in Object
      BY <3>1, Reads DEF ControlInv, Working
    <3>2. task[t].in \in Source /\ field[t] \in Field /\ in(t) = heap[task[t].in][field[t]]
      BY <3>1, Reads
    <3>3. SetOut(t, Image(in(t))) /\ UNCHANGED given
      BY <2>4, <3>0 DEF visit_mapped, TableInv
    <3>4. \A s \in Source, f \in Field : s = task[t].in /\ f = field[t] => Written(s, f)'
      BY ONLY <3>1, <3>3, TypeOK, Disciplined, ControlInv, MemInv, Writes, t \in Thread
    <3>6. in(t) \in Entered
      <4>1. calls[in(t)] = 1
        BY <3>0, <3>1 DEF CallsInv
      <4> QED BY <3>0, <4>1 DEF Entered
    <3>7. Entered' = Entered
      BY ONLY <3>1 DEF Entered
    <3>5. \A s \in Source, f \in Field : s = task[t].in /\ f = field[t] => Done(s, f)'
      BY ONLY <1>0, <3>2, <3>4, <3>6, <3>7 DEF Done
    <3> QED BY ONLY <1>4, <3>1, <3>5, t \in Thread
  <2>5. CASE perfaction_ptr(t)
    <3>1. /\ \A u \in Thread : u # t => pc'[u] = pc[u]
          /\ in_elem' = in_elem /\ task' = task /\ field' = field /\ queued' = queued
          /\ pc[t] = "lookup" /\ pc'[t] = "add_mapping" /\ calls' = [calls EXCEPT ![in(t)] = @ + 1]
      BY <2>5 DEF perfaction_ptr, TypeOK
    <3>2. in(t) = in_elem[t]
      BY <3>1, Reads DEF ControlInv, Working
    <3>3. \A o \in Object : o # in_elem[t] => calls'[o] = calls[o]
      BY ONLY <3>1, <3>2, Names, TypeOK DEF TypeOK
    <3>4. \A s \in Traversed' : s \in Traversed \/ s = in_elem[t]
      BY ONLY <1>0, <3>3 DEF Traversed, Entered
    <3>5. \A s, f : Pending(s, f) => Pending(s, f)'
      BY ONLY <3>1, t \in Thread DEF Pending, Working
    <3>6. \A s, f : s = in_elem[t] => Pending(s, f)'
      BY ONLY <3>1, t \in Thread DEF Pending
    <3> QED BY ONLY <1>a, <1>b, <3>4, <3>5, <3>6, CellsInv DEF CellsInv
  <2>6. CASE add_mapping(t)
    <3>1. pc[t] = "add_mapping" /\ in_elem' = in_elem /\ queued' = queued /\ calls' = calls
      BY ONLY <2>6 DEF add_mapping
    <3>2. task[t].in \in Source /\ field[t] \in Field /\ in(t) = heap[task[t].in][field[t]] /\ in(t) = in_elem[t] /\ in_elem[t] \in Object
      BY <3>1, Reads DEF ControlInv, Working
    <3>3. in_elem[t] \in Entered
      <4>1. calls[in_elem[t]] > 0
        BY <3>1, <3>2 DEF CallsInv
      <4> QED BY <3>2, <4>1 DEF Entered
    <3>4. \A s \in Source, f \in Field : s = task[t].in /\ f = field[t] => Done(s, f)
      BY ONLY <3>1, <3>2, <3>3, OutInv, t \in Thread DEF Done, OutInv
    <3>5. \A s \in Source, f \in Field : s = task[t].in /\ f = field[t] => Done(s, f)'
      BY ONLY <1>a, <3>4
    <3>6. CASE NextField(t) /\ in_elem[t] \in service.stop
      <4>1. in_elem[t] \notin Traversed
        BY ONLY <3>2, <3>6, Names DEF Traversed
      <4>2. pc[t] \in Working
        BY ONLY <3>1 DEF Working
      <4> QED BY ONLY <1>4, <3>1, <3>5, <3>6, <4>1, <4>2, t \in Thread
    <3>7. CASE pc' = [pc EXCEPT ![t] = "enqueue"] /\ UNCHANGED <<task, field>>
      <4>1. /\ \A u \in Thread : u # t => pc'[u] = pc[u]
            /\ pc'[t] = "enqueue"
        BY <3>7 DEF TypeOK
      <4>2. pc'[t] \in Working
        BY ONLY <4>1 DEF Working
      <4> QED BY ONLY <1>3, <3>1, <3>7, <4>1, <4>2, t \in Thread
    <3> QED BY ONLY <2>6, <3>6, <3>7 DEF add_mapping
  <2>7. CASE addtoqueue(t)
    <3>1. /\ pc[t] = "enqueue" /\ in_elem' = in_elem /\ calls' = calls /\ NextField(t)
          /\ queued' = queued \cup {[in |-> in(t), out |-> out(t)]}
      BY ONLY <2>7 DEF addtoqueue
    <3>2. task[t].in \in Source /\ field[t] \in Field /\ in(t) = heap[task[t].in][field[t]] /\ in(t) = in_elem[t] /\ in_elem[t] \in Object
      BY <3>1, Reads DEF ControlInv, Working
    <3>3. in_elem[t] \in Entered
      <4>1. calls[in_elem[t]] > 0
        BY ONLY <3>1, EnterInv, t \in Thread DEF EnterInv
      <4> QED BY <3>2, <4>1 DEF Entered
    <3>4. \A s \in Source, f \in Field : s = task[t].in /\ f = field[t] => Done(s, f)
      BY ONLY <3>1, <3>2, <3>3, OutInv, t \in Thread DEF Done, OutInv
    <3>5. \A s \in Source, f \in Field : s = task[t].in /\ f = field[t] => Done(s, f)'
      BY ONLY <1>a, <3>4
    <3>6. queued \subseteq queued' /\ \E x \in queued' : x.in = in_elem[t]
      <4> DEFINE y == [in |-> in(t), out |-> out(t)]
      <4>1. y \in queued' /\ queued \subseteq queued'
        BY ONLY <3>1
      <4>2. y.in = in_elem[t]
        BY ONLY <3>2
      <4> QED BY ONLY <4>1, <4>2
    <3>7. pc[t] \in Working
      BY ONLY <3>1 DEF Working
    <3> QED BY ONLY <1>4, <3>1, <3>5, <3>6, <3>7, t \in Thread
  <2>8. CASE callxformer(t)
    <3>1. PICK x \in queued : task' = [task EXCEPT ![t] = x] /\ queued' = queued \ {x}
      BY ONLY <2>8 DEF callxformer
    <3>2. /\ \A u \in Thread : u # t => pc'[u] = pc[u] /\ task'[u] = task[u]
          /\ in_elem' = in_elem /\ field' = field /\ calls' = calls
          /\ pc[t] = "idle" /\ pc'[t] = "visit" /\ task'[t] = x /\ field[t] = 1
      BY <2>8, <3>1 DEF callxformer, TypeOK, ControlInv, Working
    <3>3. pc'[t] \in Working /\ pc[t] \notin Working
      BY ONLY <3>2 DEF Working
    <3>4. \A f \in Field : 1 <= f
      BY NumFieldsAssumption DEF Field
    <3>5. \A s, f : Pending(s, f) /\ f \in Field => Pending(s, f)'
      BY ONLY <3>1, <3>2, <3>3, <3>4, t \in Thread DEF Pending
    <3> QED BY ONLY <1>a, <1>b, <3>2, <3>5, CellsInv DEF CellsInv
  <2>9. CASE allqempty(t)
    <3>1. /\ \A u \in Thread : u # t => /\ pc'[u] = pc[u] /\ task'[u] = task[u]
                                        /\ field'[u] = field[u] /\ in_elem'[u] = in_elem[u]
          /\ task'[t] = task[t] /\ field'[t] = field[t] /\ queued' = queued /\ calls' = calls
          /\ pc[t] \in Working => pc'[t] \in Working
          /\ pc[t] \notin {"add_mapping", "enqueue"}
      BY <2>9 DEF allqempty, TypeOK, Working
    <3> QED BY ONLY <1>3, <3>1, t \in Thread
  <2>10. CASE perform_delayedfree(t)
    <3>1. /\ pc' = pc /\ task' = task /\ field' = field /\ in_elem' = in_elem
          /\ queued' = queued /\ calls' = calls
      BY ONLY <2>10 DEF perform_delayedfree
    <3> QED BY ONLY <1>3, <3>1, t \in Thread
  <2>11. CASE perform_delayedfree_end(t)
    <3>1. /\ \A u \in Thread : u # t => /\ pc'[u] = pc[u] /\ task'[u] = task[u]
                                        /\ field'[u] = field[u] /\ in_elem'[u] = in_elem[u]
          /\ task'[t] = task[t] /\ field'[t] = field[t] /\ queued' = queued /\ calls' = calls
          /\ pc[t] \in Working => pc'[t] \in Working
          /\ pc[t] \notin {"add_mapping", "enqueue"}
      BY <2>11 DEF perform_delayedfree_end, TypeOK, Working
    <3> QED BY ONLY <1>3, <3>1, t \in Thread
  <2>12. CASE FREE_ALL_MALLOCED_ENTRIES(t)
    <3>1. /\ \A u \in Thread : u # t => /\ pc'[u] = pc[u] /\ task'[u] = task[u]
                                        /\ field'[u] = field[u] /\ in_elem'[u] = in_elem[u]
          /\ task'[t] = task[t] /\ field'[t] = field[t] /\ queued' = queued /\ calls' = calls
          /\ pc[t] \in Working => pc'[t] \in Working
          /\ pc[t] \notin {"add_mapping", "enqueue"}
      BY <2>12 DEF FREE_ALL_MALLOCED_ENTRIES, TypeOK, Working
    <3> QED BY ONLY <1>3, <3>1, t \in Thread
  <2> QED
    BY ONLY <1>2, <2>1, <2>2, <2>3, <2>4, <2>5, <2>6, <2>7, <2>8, <2>9, <2>10, <2>11, <2>12
    DEF ThreadStep, OwnStep
<1> QED BY ONLY [Next]_vars, <1>1, <1>2 DEF Next

\* Each thread frees the rows of its share one after the other.
LEMMA RowsStep ==
  ASSUME TypeOK, RowsInv, [Next]_vars
  PROVE  RowsInv'
<1>0. TypeOK => \A t \in Thread : row[t] \in Nat
  BY DEF TypeOK
<1>3. ASSUME NEW t \in Thread, \A u \in Thread : u # t => pc'[u] = pc[u],
             pc[t] \notin {"rows", "left", "wild"}, pc'[t] \notin {"rows", "left", "wild"}, UNCHANGED <<row, rowfrees>>
      PROVE  RowsInv'
  BY ONLY <1>3, RowsInv DEF RowsInv, Gone, Lo, Hi, Share
<1>1. CASE UNCHANGED vars
  BY ONLY <1>1, RowsInv DEF vars, RowsInv, Gone, Lo, Hi, Share
<1>2. ASSUME NEW t \in Thread, ThreadStep(t) PROVE RowsInv'
  <2>1. CASE visit(t)
    <3>1. /\ \A u \in Thread : u # t => pc'[u] = pc[u]
          /\ pc[t] \notin {"rows", "left", "wild"} /\ pc'[t] \notin {"rows", "left", "wild"} /\ UNCHANGED <<row, rowfrees>>
      BY <2>1 DEF visit, TypeOK
    <3> QED BY ONLY <1>3, <3>1, t \in Thread
  <2>2. CASE visit_null(t)
    <3>1. /\ \A u \in Thread : u # t => pc'[u] = pc[u]
          /\ pc[t] \notin {"rows", "left", "wild"} /\ pc'[t] \notin {"rows", "left", "wild"} /\ UNCHANGED <<row, rowfrees>>
      BY <2>2, Nexts DEF visit_null, TypeOK
    <3> QED BY ONLY <1>3, <3>1, t \in Thread
  <2>3. CASE transform_map_wrlock(t)
    <3>1. /\ \A u \in Thread : u # t => pc'[u] = pc[u]
          /\ pc[t] \notin {"rows", "left", "wild"} /\ pc'[t] \notin {"rows", "left", "wild"} /\ UNCHANGED <<row, rowfrees>>
      BY <2>3 DEF transform_map_wrlock, TypeOK
    <3> QED BY ONLY <1>3, <3>1, t \in Thread
  <2>4. CASE visit_mapped(t)
    <3>1. /\ \A u \in Thread : u # t => pc'[u] = pc[u]
          /\ pc[t] \notin {"rows", "left", "wild"} /\ pc'[t] \notin {"rows", "left", "wild"} /\ UNCHANGED <<row, rowfrees>>
      BY <2>4, Nexts DEF visit_mapped, TypeOK
    <3> QED BY ONLY <1>3, <3>1, t \in Thread
  <2>5. CASE perfaction_ptr(t)
    <3>1. /\ \A u \in Thread : u # t => pc'[u] = pc[u]
          /\ pc[t] \notin {"rows", "left", "wild"} /\ pc'[t] \notin {"rows", "left", "wild"} /\ UNCHANGED <<row, rowfrees>>
      BY <2>5 DEF perfaction_ptr, TypeOK
    <3> QED BY ONLY <1>3, <3>1, t \in Thread
  <2>6. CASE add_mapping(t)
    <3>1. /\ \A u \in Thread : u # t => pc'[u] = pc[u]
          /\ pc[t] \notin {"rows", "left", "wild"} /\ pc'[t] \notin {"rows", "left", "wild"} /\ UNCHANGED <<row, rowfrees>>
      BY <2>6, Nexts DEF add_mapping, TypeOK
    <3> QED BY ONLY <1>3, <3>1, t \in Thread
  <2>7. CASE addtoqueue(t)
    <3>1. /\ \A u \in Thread : u # t => pc'[u] = pc[u]
          /\ pc[t] \notin {"rows", "left", "wild"} /\ pc'[t] \notin {"rows", "left", "wild"} /\ UNCHANGED <<row, rowfrees>>
      BY <2>7, Nexts DEF addtoqueue, TypeOK
    <3> QED BY ONLY <1>3, <3>1, t \in Thread
  <2>8. CASE callxformer(t)
    <3>1. /\ \A u \in Thread : u # t => pc'[u] = pc[u]
          /\ pc[t] \notin {"rows", "left", "wild"} /\ pc'[t] \notin {"rows", "left", "wild"} /\ UNCHANGED <<row, rowfrees>>
      BY <2>8 DEF callxformer, TypeOK
    <3> QED BY ONLY <1>3, <3>1, t \in Thread
  <2>9. CASE allqempty(t)
    <3>1. /\ \A u \in Thread : u # t => pc'[u] = pc[u]
          /\ pc[t] \notin {"rows", "left", "wild"} /\ pc'[t] \notin {"rows", "left", "wild"} /\ UNCHANGED <<row, rowfrees>>
      BY <2>9 DEF allqempty, TypeOK
    <3> QED BY ONLY <1>3, <3>1, t \in Thread
  <2>10. CASE perform_delayedfree(t)
    BY ONLY <2>10, RowsInv DEF perform_delayedfree, RowsInv, Gone, Lo, Hi, Share
  <2>11. CASE perform_delayedfree_end(t)
    <3>1. /\ \A u \in Thread : u # t => pc'[u] = pc[u] /\ row'[u] = row[u]
          /\ pc[t] = "freeing" /\ pc'[t] = "rows" /\ row'[t] = Lo(t) /\ rowfrees' = rowfrees
      BY <2>11 DEF perform_delayedfree_end, TypeOK, Lo, Share
    <3>2. Lo(t) \in Nat /\ Hi(t) \in Nat /\ Lo(t) <= Hi(t)
      BY Shares
    <3>3. \A b \in Bucket : ~(Lo(t) <= b /\ b < Lo(t))
      BY <3>2, NumBucketsAssumption DEF Bucket
    <3>4. \A b \in Bucket : Gone(b)' <=> Gone(b)
      <4> TAKE b \in Bucket
      <4>1. ASSUME NEW u \in Thread
            PROVE  (/\ Lo(u) <= b /\ b < Hi(u)
                    /\ pc'[u] = "left" \/ (pc'[u] \in {"rows", "wild"} /\ b < row'[u]))
                     <=> (/\ Lo(u) <= b /\ b < Hi(u)
                          /\ pc[u] = "left" \/ (pc[u] \in {"rows", "wild"} /\ b < row[u]))
        BY ONLY <3>1, <3>3, <4>1, b \in Bucket
      <4> QED BY ONLY <4>1 DEF Gone, Lo, Hi, Share
    <3>5. \A u \in Thread : pc'[u] = "rows" => Lo(u) <= row'[u] /\ row'[u] <= Hi(u)
      BY ONLY <3>1, <3>2, RowsInv DEF RowsInv
    <3> QED BY ONLY <3>1, <3>4, <3>5, RowsInv DEF RowsInv, Lo, Hi, Share
  <2>12. CASE FREE_ALL_MALLOCED_ENTRIES(t)
    <3>0. /\ Lo(t) \in Nat /\ Hi(t) \in Nat /\ Hi(t) <= NumBuckets /\ row[t] \in Nat /\ NumBuckets \in Nat
          /\ \A u \in Thread : Lo(u) \in Nat /\ Hi(u) \in Nat
      BY <1>0, Shares, NumBucketsAssumption
    <3>1. Lo(t) <= row[t] /\ row[t] <= Hi(t) /\ pc[t] = "rows" /\ pc \in [Thread -> Label] /\ row \in [Thread -> Nat]
      BY <2>12 DEF FREE_ALL_MALLOCED_ENTRIES, RowsInv, TypeOK
    <3>2. CASE row[t] < Hi(t) /\ pc' = pc
      <4>1. rowfrees' = [rowfrees EXCEPT ![row[t]] = @ + 1] /\ row' = [row EXCEPT ![t] = @ + 1] /\ pc' = pc
        BY ONLY <2>12, <3>1, <3>2, t \in Thread DEF FREE_ALL_MALLOCED_ENTRIES, Hi, Share
      <4>2. row'[t] = row[t] + 1 /\ \A u \in Thread : u # t => row'[u] = row[u]
        BY ONLY <3>1, <4>1, t \in Thread
      <4>3. row[t] \in Bucket
        BY ONLY <3>0, <3>2 DEF Bucket
      <4>4. \A u \in Thread : u # t => ~(Lo(u) <= row[t] /\ row[t] < Hi(u))
        <5> TAKE u \in Thread
        <5>1. t \in Int /\ u \in Int
          BY NumThreadsAssumption DEF Thread
        <5>2. u < t => Hi(u) <= Lo(t)
          BY ONLY Shares, t \in Thread, u \in Thread
        <5>3. t < u => Hi(t) <= Lo(u)
          BY ONLY Shares, t \in Thread, u \in Thread
        <5> QED BY ONLY <3>0, <3>1, <3>2, <5>1, <5>2, <5>3
      <4>5. ~Gone(row[t])
        BY ONLY <3>0, <3>1, <4>4 DEF Gone
      <4>7. rowfrees'[row[t]] = 1 /\ \A b \in Bucket : b # row[t] => rowfrees'[b] = rowfrees[b]
        BY ONLY <4>1, <4>3, <4>5, RowsInv, TypeOK DEF RowsInv, TypeOK
      <4>8. \A b \in Bucket : b \in Nat
        BY NumBucketsAssumption DEF Bucket
      <4>9. \A b \in Bucket : b # row[t] => (b < row[t] + 1 <=> b < row[t])
        BY ONLY <3>0, <4>8
      <4>10. \A b \in Bucket : b # row[t] => (Gone(b)' <=> Gone(b))
        BY ONLY <4>1, <4>2, <4>9 DEF Gone, Lo, Hi, Share
      <4>11. \A u \in Thread : pc'[u] = "rows" => Lo(u) <= row'[u] /\ row'[u] <= Hi(u)
        BY ONLY <3>0, <3>1, <3>2, <4>1, <4>2, RowsInv DEF RowsInv
      <4>12. \A b \in Bucket : rowfrees'[b] = IF Gone(b)' THEN 1 ELSE 0
        <5>1. \A b \in Bucket : b = row[t] => rowfrees'[b] = 1
          BY ONLY <4>7
        <5>2. \A b \in Bucket : b = row[t] => Gone(b)'
          BY ONLY <3>0, <3>1, <3>2, <4>1, <4>2, t \in Thread DEF Gone, Lo, Hi, Share
        <5>3. \A b \in Bucket : b # row[t] => rowfrees'[b] = IF Gone(b)' THEN 1 ELSE 0
          BY ONLY <4>7, <4>10, RowsInv DEF RowsInv
        <5> QED BY ONLY <5>1, <5>2, <5>3
      <4> QED BY ONLY <4>11, <4>12 DEF RowsInv, Lo, Hi, Share
    <3>3. CASE ~(row[t] < Hi(t)) /\ pc' = [pc EXCEPT ![t] = "left"]
      <4>1. pc' = [pc EXCEPT ![t] = "left"] /\ UNCHANGED <<row, rowfrees>>
        BY ONLY <2>12, <3>1, <3>3, t \in Thread DEF FREE_ALL_MALLOCED_ENTRIES, Hi, Share
      <4>2. row[t] = Hi(t)
        BY ONLY <3>0, <3>1, <3>3
      <4>3. pc'[t] = "left" /\ \A u \in Thread : u # t => pc'[u] = pc[u]
        BY ONLY <3>1, <4>1, t \in Thread
      <4>4. \A b : Gone(b)' <=> Gone(b)
        BY ONLY <3>1, <4>1, <4>2, <4>3, t \in Thread DEF Gone, Lo, Hi, Share
      <4> QED BY ONLY <4>1, <4>3, <4>4, RowsInv DEF RowsInv, Lo, Hi, Share
    <3>4. CASE pc' = [pc EXCEPT ![t] = "wild"]
      <4>1. UNCHANGED <<row, rowfrees>>
        BY ONLY <2>12, <3>1, <3>4, t \in Thread DEF FREE_ALL_MALLOCED_ENTRIES, Hi, Share
      <4>2. pc'[t] = "wild" /\ \A u \in Thread : u # t => pc'[u] = pc[u]
        BY ONLY <3>1, <3>4, t \in Thread
      <4>3. \A b : Gone(b)' <=> Gone(b)
        BY ONLY <3>1, <4>1, <4>2, t \in Thread DEF Gone, Lo, Hi, Share
      <4> QED BY ONLY <4>1, <4>2, <4>3, RowsInv DEF RowsInv, Lo, Hi, Share
    <3>5. \/ row[t] < Hi(t) /\ pc' = pc
          \/ ~(row[t] < Hi(t)) /\ pc' = [pc EXCEPT ![t] = "left"]
          \/ pc' = [pc EXCEPT ![t] = "wild"]
      BY ONLY <2>12, <3>0 DEF FREE_ALL_MALLOCED_ENTRIES, Hi, Share
    <3> QED BY ONLY <3>2, <3>3, <3>4, <3>5
  <2> QED
    BY ONLY <1>2, <2>1, <2>2, <2>3, <2>4, <2>5, <2>6, <2>7, <2>8, <2>9, <2>10, <2>11, <2>12
    DEF ThreadStep, OwnStep
<1> QED BY ONLY [Next]_vars, <1>1, <1>2 DEF Next

-----------------------------------------------------------------------------
(* The inductive invariant *)

\* All that the arguments above keep.
VInv ==
  /\ TypeOK /\ Disciplined /\ ControlInv /\ MemInv /\ OutInv /\ LockInv /\ TableInv /\ CallsInv
  /\ EnterInv /\ FreeInv /\ QuietInv /\ CellsInv /\ RowsInv

\* The calling thread starts with the roots, and everything else is empty.
LEMMA InitVInv == Init /\ Disciplined => VInv
<1> SUFFICES ASSUME Init, Disciplined PROVE VInv
  OBVIOUS
<1> USE Names
<1>1. TypeOK
  <2>1. mem \in [Struct -> [Field -> Addr \cup {NULL, Wild}]]
    <3>1. /\ heap \in [Object \cup {Root} -> [Field -> Object \cup {NULL}]]
          /\ mem = [s \in Struct |-> IF s \in DOMAIN heap THEN heap[s] ELSE [f \in Field |-> Wild]]
      BY DEF Init
    <3>2. \A s \in Object \cup {Root} : heap[s] \in [Field -> Addr \cup {NULL, Wild}]
      BY <3>1
    <3>3. [f \in Field |-> Wild] \in [Field -> Addr \cup {NULL, Wild}]
      OBVIOUS
    <3> QED BY ONLY <3>1, <3>2, <3>3
  <2>2. task \in [Thread -> Task \cup {NoTask}]
    <3>1. Root \in Struct /\ NewRoot \in Struct
      BY DEF Struct
    <3> QED BY ONLY Init, <3>1 DEF Init, Task
  <2>3. pc \in [Thread -> Label]
    BY ONLY Init DEF Init, Label
  <2>4. /\ heap \in [Object \cup {Root} -> [Field -> Object \cup {NULL}]]
        /\ service \in Service /\ table \in [Addr -> Addr \cup {NULL}]
        /\ lock \in [Bucket -> Thread \cup {NULL}] /\ queued \subseteq Task
        /\ calls \in [Addr -> Nat] /\ freelater \in [Thread -> SUBSET Addr]
        /\ freed \subseteq Addr /\ row \in [Thread -> Nat] /\ rowfrees \in [Bucket -> Nat]
        /\ in_elem \in [Thread -> Addr \cup {NULL}]
    BY ONLY Init DEF Init
  <2>5. field \in [Thread -> Field]
    BY DEF Init
  <2> QED BY ONLY <2>1, <2>2, <2>3, <2>4, <2>5 DEF TypeOK
<1>2. /\ pc[Main] = "visit" /\ task[Main].in = Root /\ task[Main].out = NewVersion(Root) /\ field[Main] = 1
      /\ \A t \in Thread : t # Main => pc[t] = "idle" /\ task[t] = NoTask /\ field[t] = 1
  BY DEF Init, NewVersion
<1>3. \A t \in Thread : pc[t] \in {"visit", "idle"}
  BY ONLY <1>2
<1>4. ControlInv
  BY ONLY <1>2, <1>3, Init, Names DEF Init, ControlInv, IsTask, Working
<1>5. MemInv
  BY DEF Init, MemInv, Source
<1>6. OutInv /\ LockInv /\ EnterInv
  BY ONLY <1>3 DEF OutInv, LockInv, EnterInv
<1>7. TableInv /\ CallsInv
  <2>1. \A a \in Addr : table[a] = NULL /\ calls[a] = 0
    BY ONLY Init DEF Init
  <2> QED BY ONLY <1>3, <2>1 DEF TableInv, CallsInv
<1>8. FreeInv /\ QuietInv
  BY ONLY <1>3, Init DEF Init, FreeInv, QuietInv, Leaving
<1>9. CellsInv
  <2>1. Traversed = {Root}
    BY DEF Init, Traversed, Entered
  <2>2. \A f \in Field : 1 <= f
    BY NumFieldsAssumption DEF Field
  <2> QED BY ONLY <1>2, <2>1, <2>2, Names DEF CellsInv, Pending, Working
<1>10. RowsInv
  <2>1. \A b \in Bucket : rowfrees[b] = 0
    BY DEF Init
  <2> QED BY ONLY <1>3, <2>1 DEF RowsInv, Gone
<1> QED BY ONLY <1>1, Disciplined, <1>4, <1>5, <1>6, <1>7, <1>8, <1>9, <1>10 DEF VInv

\* Every step of a thread keeps it.
LEMMA NextVInv == VInv /\ [Next]_vars => VInv'
<1> SUFFICES ASSUME VInv, [Next]_vars PROVE VInv'
  OBVIOUS
<1>1. /\ TypeOK /\ Disciplined /\ ControlInv /\ MemInv /\ OutInv /\ LockInv /\ TableInv /\ CallsInv
      /\ EnterInv /\ FreeInv /\ QuietInv /\ CellsInv /\ RowsInv
  BY ONLY VInv DEF VInv
<1>2. TypeOK'
  BY ONLY <1>1, [Next]_vars, TypeStep
<1>3. Disciplined'
  BY ONLY <1>1, [Next]_vars, GivenStep
<1>4. ControlInv'
  BY ONLY <1>1, [Next]_vars, ControlStep
<1>5. MemInv' /\ OutInv'
  BY ONLY <1>1, [Next]_vars, MemStep
<1>6. LockInv'
  BY ONLY <1>1, [Next]_vars, LockStep
<1>7. TableInv' /\ CallsInv'
  BY ONLY <1>1, [Next]_vars, CallsStep
<1>8. EnterInv'
  BY ONLY <1>1, [Next]_vars, EnterStep
<1>9. FreeInv'
  BY ONLY <1>1, [Next]_vars, FreeStep
<1>10. QuietInv'
  BY ONLY <1>1, [Next]_vars, QuietStep
<1>11. CellsInv'
  BY ONLY <1>1, [Next]_vars, CellsStep
<1>12. RowsInv'
  BY ONLY <1>1, [Next]_vars, RowsStep
<1> QED BY ONLY <1>2, <1>3, <1>4, <1>5, <1>6, <1>7, <1>8, <1>9, <1>10, <1>11, <1>12 DEF VInv

-----------------------------------------------------------------------------
(* What follows from it *)

\* Of two threads that look for an object only one finds no entry: add_mapping comes
\* before the unlock.
LEMMA OnceCalled == VInv => CalledOnce
  BY DEF VInv, CallsInv, CalledOnce

\* A thread with a list to free, or in its share of the table, is past allqempty.
LEMMA FreedUnread == VInv => NoUseAfterFree
<1> SUFFICES ASSUME VInv PROVE NoUseAfterFree
  OBVIOUS
<1>1. TypeOK /\ ControlInv /\ FreeInv /\ QuietInv
  BY DEF VInv
<1>2. \A t \in Thread : task[t].in \notin freed
  <2>1. CASE freed = {}
    BY <2>1
  <2>2. CASE freed # {}
    <3>1. \A t \in Thread : pc[t] \notin Working
      BY ONLY <1>1, <2>2 DEF QuietInv
    <3>2. \A t \in Thread : task[t].in = NULL
      BY ONLY <1>1, <3>1 DEF ControlInv, NoTask
    <3> QED BY <1>1, <3>2, Names DEF TypeOK
  <2> QED BY ONLY <2>1, <2>2
<1>3. \A x \in queued : x.in \notin freed
  BY ONLY <1>1 DEF QuietInv
<1>4. \A t, u \in Thread : freelater[t] \cap (freed \cup IF u = t THEN {} ELSE freelater[u]) = {}
  BY ONLY <1>1 DEF FreeInv
<1>5. \A b \in Bucket : rowfrees[b] > 0 => \A t \in Thread : pc[t] \notin InTable
  BY ONLY <1>1 DEF QuietInv, InTable, Working
<1> QED BY ONLY <1>2, <1>3, <1>4, <1>5 DEF NoUseAfterFree

\* When nothing is queued and nobody works, nothing is pending.
LEMMA CopiedAll == VInv => HeapCopied
<1> SUFFICES ASSUME VInv, \E t \in Thread : pc[t] \in Leaving,
                    NEW s \in Traversed, NEW f \in Field
             PROVE  IF heap[s][f] = NULL
                    THEN mem[NewVersion(s)][f] = NULL
                    ELSE heap[s][f] \in Entered /\ mem[NewVersion(s)][f] = Image(heap[s][f])
  BY DEF HeapCopied, Leaving
<1>1. TypeOK /\ QuietInv /\ CellsInv
  BY DEF VInv
<1>2. queued = {} /\ \A t \in Thread : pc[t] \notin Working
  BY ONLY <1>1, \E t \in Thread : pc[t] \in Leaving DEF QuietInv
<1>3. ~Pending(s, f)
  BY ONLY <1>2 DEF Pending, Working
<1>4. Done(s, f)
  BY ONLY <1>1, <1>3, s \in Traversed, f \in Field DEF CellsInv
<1>5. Image(NULL) = NULL
  BY <1>1, Versions
<1> QED BY ONLY <1>4, <1>5 DEF Done, Written

\* The shares are a partition, so that a row of one thread is not freed by another and,
\* when all have left, was freed by one.
LEMMA RowsOnce == VInv => SharesSound
<1> SUFFICES ASSUME VInv PROVE RowsFreedOnce
  BY DEF VInv, SharesSound
<1>1. RowsInv
  BY DEF VInv
<1>2. \A b \in Bucket : rowfrees[b] <= 1
  BY ONLY <1>1 DEF RowsInv
<1>3. Finished => \A b \in Bucket : rowfrees[b] = 1
  <2> SUFFICES ASSUME Finished, NEW b \in Bucket PROVE rowfrees[b] = 1
    OBVIOUS
  <2>1. \E t \in Thread : Lo(t) <= b /\ b < Hi(t)
    BY ONLY Shares, b \in Bucket
  <2>2. Gone(b)
    BY ONLY <2>1, Finished DEF Gone, Finished
  <2> QED BY ONLY <1>1, <2>2, b \in Bucket DEF RowsInv
<1> QED BY ONLY <1>2, <1>3 DEF RowsFreedOnce

\* perfaction_ptr is called at most once at each object, however many threads meet at
\* it and whichever rows of the mapping table collide.
THEOREM EnteredOnce == Spec /\ Disciplined => []CalledOnce
  BY InitVInv, NextVInv, OnceCalled, PTL DEF Spec

\* Old memory is freed once, and neither it nor a row of the table is used after it was
\* freed: transform_delayedfree keeps it until allqempty has answered 1.
THEOREM NothingReadAfterFree == Spec /\ Disciplined => []NoUseAfterFree
  BY InitVInv, NextVInv, FreedUnread, PTL DEF Spec

\* When the first thread leaves processqueue, the new version of every struct that was
\* traversed points to the new versions of what the old one pointed to.
THEOREM TraversalCopies == Spec /\ Disciplined => []HeapCopied
  BY InitVInv, NextVInv, CopiedAll, PTL DEF Spec

\* FREE_ALL_MALLOCED_ENTRIES frees every row of the mapping table once, for every number
\* of threads that divides the number of rows.
THEOREM TableFreedOnce == Spec /\ Disciplined => []SharesSound
  BY InitVInv, NextVInv, RowsOnce, PTL DEF Spec

\* The services that do without the hypothesis on the heap: those that copy every object and
\* the roots to fresh memory, and those that move nothing.
Whole(v) == v.moved = {} \/ (v.moved = Object /\ ~v.inplace)

\* They keep to the discipline on every heap.
LEMMA WholeDisciplined == (\A v \in Service : Whole(v)) /\ Init => Disciplined
<1> SUFFICES ASSUME \A v \in Service : Whole(v), Init, NEW s \in Source, NewVersion(s) = s,
                    NEW f \in Field
             PROVE  heap[s][f] \notin service.moved
  BY DEF Disciplined
<1>1. Whole(service)
  BY DEF Init
<1>2. CASE service.moved = {}
  BY <1>2
<1>3. CASE service.moved = Object /\ ~service.inplace
  <2>1. CASE s = Root
    BY <1>3, <2>1, RootAssumption DEF NewVersion
  <2>2. CASE s # Root
    BY <1>3, <2>2, FreshAssumption DEF NewVersion, Image, Source
  <2> QED BY ONLY <2>1, <2>2
<1> QED BY ONLY <1>1, <1>2, <1>3 DEF Whole

\* So that for these services the traversal is sound whatever the heap: entered once, copied,
\* and freed once, after the last read.
THEOREM TraversalSound ==
  (\A v \in Service : Whole(v)) =>
    (Spec => [](CalledOnce /\ NoUseAfterFree /\ HeapCopied /\ SharesSound))
<1> SUFFICES ASSUME \A v \in Service : Whole(v)
             PROVE  Spec => [](CalledOnce /\ NoUseAfterFree /\ HeapCopied /\ SharesSound)
  OBVIOUS
<1>1. Init => Disciplined
  BY WholeDisciplined
<1>2. VInv => CalledOnce /\ NoUseAfterFree /\ HeapCopied /\ SharesSound
  BY OnceCalled, FreedUnread, CopiedAll, RowsOnce
<1> QED BY <1>1, <1>2, InitVInv, NextVInv, PTL DEF Spec
=============================================================================
