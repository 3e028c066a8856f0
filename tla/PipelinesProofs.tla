-------------------------- MODULE PipelinesProofs --------------------------
(***************************************************************************)
(* Proofs about Pipelines, for any number of pipelines, priorities and     *)
(* objects: the id pool neither forgets nor doubles an id, and a handle    *)
(* finds its own object however stale its cached index is.                 *)
(***************************************************************************)
EXTENDS Pipelines, FiniteSetTheorems, SequenceTheorems, TLAPS

-----------------------------------------------------------------------------
(* Sequences.                                                              *)

\* Where the elements are after an insertion.
LEMMA InsertedAt ==
    ASSUME NEW S, NEW s \in Seq(S), NEW e \in S, NEW i \in 1..Len(s) + 1
    PROVE  /\ InsertAt(s, i, e) \in Seq(S)
           /\ Len(InsertAt(s, i, e)) = Len(s) + 1
           /\ \A k \in 1..Len(s) + 1 :
                InsertAt(s, i, e)[k] = IF k < i THEN s[k] ELSE IF k = i THEN e ELSE s[k - 1]
<1> DEFINE before == SubSeq(s, 1, i - 1)
           after == SubSeq(s, i, Len(s))
<1>1. Len(s) \in Nat /\ i \in Int
  OBVIOUS
<1>2. /\ before \in Seq(S) /\ Len(before) = i - 1
      /\ \A k \in 1..i - 1 : before[k] = s[k]
  BY <1>1, SubSeqProperties
<1>3. /\ after \in Seq(S) /\ Len(after) = Len(s) - i + 1
      /\ \A k \in 1..Len(s) - i + 1 : after[k] = s[i + k - 1]
  BY <1>1, SubSeqProperties
<1>4. <<e>> \in Seq(S) /\ Len(<<e>>) = 1 /\ <<e>>[1] = e
  OBVIOUS
<1> HIDE DEF before, after
<1> DEFINE whole == (before \o <<e>>) \o after
<1>5. /\ before \o <<e>> \in Seq(S) /\ Len(before \o <<e>>) = i
      /\ \A k \in 1..i : (before \o <<e>>)[k] = IF k < i THEN s[k] ELSE e
  BY <1>1, <1>2, <1>4
<1>6. whole \in Seq(S) /\ Len(whole) = Len(s) + 1
  BY <1>1, <1>3, <1>5
<1>7. InsertAt(s, i, e) = whole
  BY DEF InsertAt, before, after
<1>8. \A k \in 1..Len(s) + 1 :
        whole[k] = IF k <= i THEN (before \o <<e>>)[k] ELSE after[k - i]
  BY <1>1, <1>3, <1>5, ConcatProperties
<1> HIDE DEF whole
<1>9. ASSUME NEW k \in 1..Len(s) + 1
      PROVE  whole[k] = IF k < i THEN s[k] ELSE IF k = i THEN e ELSE s[k - 1]
  <2>0. k \in Int /\ 1 <= k /\ k <= Len(s) + 1
    BY <1>1
  <2>1. CASE k <= i
    <3>1. k \in 1..i /\ (k < i \/ k = i)
      BY <1>1, <2>0, <2>1
    <3> QED
      BY <1>1, <1>5, <1>8, <2>0, <2>1, <3>1
  <2>2. CASE k > i
    <3>1. whole[k] = after[k - i] /\ ~(k < i) /\ k # i
      BY <1>1, <1>8, <2>0, <2>2
    <3>2. k - i \in 1..Len(s) - i + 1 /\ i + (k - i) - 1 = k - 1
      BY <1>1, <2>0, <2>2
    <3>3. after[k - i] = s[k - 1]
      BY <1>3, <3>2
    <3> QED
      BY <3>1, <3>3
  <2> QED
    BY <1>1, <2>0, <2>1, <2>2
<1> QED
  BY <1>6, <1>7, <1>9

\* Where they are after a removal.
LEMMA RemovedAt ==
    ASSUME NEW S, NEW s \in Seq(S), NEW i \in 1..Len(s)
    PROVE  /\ RemoveAt(s, i) \in Seq(S)
           /\ Len(RemoveAt(s, i)) = Len(s) - 1
           /\ \A k \in 1..Len(s) - 1 : RemoveAt(s, i)[k] = IF k < i THEN s[k] ELSE s[k + 1]
<1> DEFINE before == SubSeq(s, 1, i - 1)
           after == SubSeq(s, i + 1, Len(s))
<1>1. Len(s) \in Nat /\ i \in Int
  OBVIOUS
<1>2. /\ before \in Seq(S) /\ Len(before) = i - 1
      /\ \A k \in 1..i - 1 : before[k] = s[k]
  BY <1>1, SubSeqProperties
<1>3. /\ after \in Seq(S) /\ Len(after) = Len(s) - i
      /\ \A k \in 1..Len(s) - i : after[k] = s[i + k]
  BY <1>1, SubSeqProperties
<1> HIDE DEF before, after
<1>4. Len(s) - 1 = Len(before) + Len(after)
  BY <1>1, <1>2, <1>3
<1> DEFINE whole == before \o after
<1>5. /\ whole \in Seq(S) /\ Len(whole) = Len(s) - 1
      /\ \A k \in 1..Len(s) - 1 : whole[k] = IF k <= i - 1 THEN before[k] ELSE after[k - (i - 1)]
  BY <1>2, <1>3, <1>4, ConcatProperties
<1>6. RemoveAt(s, i) = whole
  BY DEF RemoveAt, before, after
<1> HIDE DEF whole
<1>7. ASSUME NEW k \in 1..Len(s) - 1
      PROVE  whole[k] = IF k < i THEN s[k] ELSE s[k + 1]
  <2>0. k \in Int /\ 1 <= k /\ k <= Len(s) - 1
    BY <1>1
  <2>1. CASE k < i
    BY <1>1, <1>2, <1>5, <2>0, <2>1
  <2>2. CASE k >= i
    <3>1. whole[k] = after[k - (i - 1)] /\ ~(k < i)
      BY <1>1, <1>5, <2>0, <2>2
    <3>2. k - (i - 1) \in 1..Len(s) - i /\ i + (k - (i - 1)) = k + 1
      BY <1>1, <2>0, <2>2
    <3>3. after[k - (i - 1)] = s[k + 1]
      BY <1>3, <3>2
    <3> QED
      BY <3>1, <3>3
  <2> QED
    BY <1>1, <2>0, <2>1, <2>2
<1> QED
  BY <1>5, <1>6, <1>7

\* A set of the first numbers is known by its size.
LEMMA Prefix ==
    ASSUME NEW n \in Nat, NEW S \in SUBSET (1..n),
           \A k \in S, j \in 1..n : j < k => j \in S
    PROVE  Cardinality(S) \in 0..n /\ S = 1..Cardinality(S)
<1>1. IsFiniteSet(1..n) /\ Cardinality(1..n) = n
  BY FS_Interval
<1>2. IsFiniteSet(S) /\ Cardinality(S) \in Nat /\ Cardinality(S) <= n
  BY <1>1, FS_Subset, FS_CardinalityType
<1> DEFINE c == Cardinality(S)
<1>3. c \in Nat /\ c <= n
  BY <1>2
<1>4. IsFiniteSet(1..c) /\ Cardinality(1..c) = c
  BY <1>3, FS_Interval
<1>5. ASSUME NEW k \in 1..c, k \notin S
      PROVE  FALSE
  <2>1. k \in 1..n /\ k - 1 \in Nat
    BY <1>3, <1>5
  <2>2. S \in SUBSET (1..k - 1)
    BY <1>3, <1>5, <2>1
  <2>3. IsFiniteSet(1..k - 1) /\ Cardinality(1..k - 1) = k - 1
    BY <2>1, FS_Interval
  <2>4. c <= k - 1
    BY <2>2, <2>3, FS_Subset
  <2> HIDE DEF c
  <2> QED
    BY <1>3, <1>5, <2>4
<1>6. (1..c) \in SUBSET S
  BY <1>5
<1>7. 1..c = S
  BY <1>2, <1>4, <1>6, FS_Subset
<1> HIDE DEF c
<1> QED
  BY <1>3, <1>7 DEF c

-----------------------------------------------------------------------------
(* The invariant.                                                          *)

IdAt(p, k) == draw_obj_data[p][k].id
Places(p) == 1..Len(draw_obj_data[p])

\* Pool and objects share the ids: PoolPartition, one element at a time.
PartitionInv ==
    /\ \A i \in 1..Len(free_list) : free_list[i] \in 1..last_max_index
    /\ \A p \in Pipeline : \A k \in Places(p) : IdAt(p, k) \in 1..last_max_index
    /\ \A id \in 1..last_max_index :
         \/ \E i \in 1..Len(free_list) : free_list[i] = id
         \/ \E p \in Pipeline : \E k \in Places(p) : IdAt(p, k) = id
    /\ \A i \in 1..Len(free_list), p \in Pipeline : \A k \in Places(p) : free_list[i] # IdAt(p, k)
    /\ \A i, j \in 1..Len(free_list) : free_list[i] = free_list[j] => i = j
    /\ \A p, q \in Pipeline : \A k \in Places(p), l \in Places(q) :
         IdAt(p, k) = IdAt(q, l) => p = q /\ k = l

\* What binary search needs.
SortedInv ==
    \A p \in Pipeline : \A k, l \in Places(p) : k < l => IdAt(p, k) < IdAt(p, l)

\* The object of a handle is there under the handle's id.
OwnedInv ==
    \A h \in handles :
        \E k \in Places(h.pipe) : /\ IdAt(h.pipe, k) = h.id
                                  /\ draw_obj_data[h.pipe][k].object = h.object

PipelinesInv ==
    /\ PipelinesTypeOK
    /\ PartitionInv
    /\ SortedInv
    /\ OwnedInv
    /\ last_max_index <= born

LEMMA ObjectTypes ==
    ASSUME PipelinesTypeOK
    PROVE  /\ \A p \in Pipeline : /\ draw_obj_data[p] \in Seq(Entry)
                                  /\ Len(draw_obj_data[p]) \in Nat
                                  /\ DOMAIN draw_obj_data[p] = Places(p)
                                  /\ \A k \in Places(p) : /\ draw_obj_data[p][k] \in Entry
                                                          /\ IdAt(p, k) \in Nat \ {0}
           /\ free_list \in Seq(Nat \ {0}) /\ Len(free_list) \in Nat
           /\ last_max_index \in Nat /\ born \in Nat
           /\ \A h \in handles : h \in Handle /\ h.pipe \in Pipeline /\ h.id \in Nat \ {0}
                                 /\ h.cached_index \in Nat \ {0}
<1>1. \A p \in Pipeline : draw_obj_data[p] \in Seq(Entry)
  BY DEF PipelinesTypeOK
<1>2. \A p \in Pipeline : \A k \in Places(p) : draw_obj_data[p][k] \in Entry
  BY <1>1 DEF Places
<1>3. \A p \in Pipeline : \A k \in Places(p) : IdAt(p, k) \in Nat \ {0}
  BY <1>2 DEF Entry, IdAt
<1>4. \A p \in Pipeline : /\ Len(draw_obj_data[p]) \in Nat
                          /\ DOMAIN draw_obj_data[p] = Places(p)
  BY <1>1 DEF Places
<1>5. free_list \in Seq(Nat \ {0}) /\ Len(free_list) \in Nat
      /\ last_max_index \in Nat /\ born \in Nat
  BY PipelinesAssumption DEF PipelinesTypeOK
<1>6. \A h \in handles : h \in Handle /\ h.pipe \in Pipeline /\ h.id \in Nat \ {0}
                         /\ h.cached_index \in Nat \ {0}
  BY DEF PipelinesTypeOK, Handle
<1> QED
  BY <1>1, <1>2, <1>3, <1>4, <1>5, <1>6

LEMMA PartitionMeans ==
    ASSUME PipelinesTypeOK, PartitionInv
    PROVE  PoolPartition
<1>1. \A p \in Pipeline : ToSet(IdsOf(p)) = {IdAt(p, k) : k \in Places(p)}
  <2> SUFFICES ASSUME NEW p \in Pipeline
               PROVE  ToSet(IdsOf(p)) = {IdAt(p, k) : k \in Places(p)}
    OBVIOUS
  <2>1. IdsOf(p) = [k \in Places(p) |-> IdAt(p, k)] /\ Len(draw_obj_data[p]) \in Nat
    BY ObjectTypes DEF IdsOf, IdAt
  <2>2. ToSet(IdsOf(p)) = {IdsOf(p)[k] : k \in DOMAIN IdsOf(p)}
    BY DEF ToSet
  <2> QED
    BY <2>1, <2>2
<1>2. \A id : id \in LiveIds <=> \E p \in Pipeline : \E k \in Places(p) : IdAt(p, k) = id
  BY <1>1 DEF LiveIds
<1>3. DOMAIN free_list = 1..Len(free_list)
  BY ObjectTypes
<1>4. \A id : id \in ToSet(free_list) <=> \E i \in 1..Len(free_list) : free_list[i] = id
  BY <1>3 DEF ToSet
<1>5. ToSet(free_list) \cup LiveIds = 1..last_max_index
  BY <1>2, <1>4 DEF PartitionInv
<1>6. ToSet(free_list) \cap LiveIds = {}
  BY <1>2, <1>4 DEF PartitionInv
<1>7. IsInjective(free_list)
  BY <1>3 DEF PartitionInv, IsInjective
<1>8. \A p, q \in Pipeline :
        \A k \in DOMAIN draw_obj_data[p], l \in DOMAIN draw_obj_data[q] :
           draw_obj_data[p][k].id = draw_obj_data[q][l].id => p = q /\ k = l
  BY ObjectTypes DEF PartitionInv, IdAt
<1> QED
  BY <1>5, <1>6, <1>7, <1>8 DEF PoolPartition

\* In sorted objects, LowerBound parts the smaller ids from the others.
LEMMA LowerBoundParts ==
    ASSUME PipelinesTypeOK, SortedInv, NEW p \in Pipeline, NEW id \in Nat
    PROVE  /\ LowerBound(p, id) \in 1..Len(draw_obj_data[p]) + 1
           /\ \A k \in Places(p) : k < LowerBound(p, id) <=> IdAt(p, k) < id
<1> DEFINE n == Len(draw_obj_data[p])
           smaller == {k \in 1..n : IdAt(p, k) < id}
<1>1. n \in Nat /\ \A k \in 1..n : IdAt(p, k) \in Nat
  BY ObjectTypes DEF Places
<1>2. \A k \in smaller, j \in 1..n : j < k => j \in smaller
  BY <1>1 DEF SortedInv, Places
<1>3. LowerBound(p, id) = 1 + Cardinality(smaller)
  BY ObjectTypes DEF LowerBound, IdAt, Places
<1> HIDE DEF n
<1>4. Cardinality(smaller) \in 0..n /\ smaller = 1..Cardinality(smaller)
  <2>1. smaller \in SUBSET (1..n)
    OBVIOUS
  <2> HIDE DEF smaller
  <2> QED
    BY <1>1, <1>2, <2>1, Prefix
<1>5. ASSUME NEW k \in 1..n
      PROVE  k < LowerBound(p, id) <=> IdAt(p, k) < id
  <2>1. IdAt(p, k) < id <=> k \in 1..Cardinality(smaller)
    BY <1>4
  <2> HIDE DEF smaller
  <2> QED
    BY <1>1, <1>3, <1>4, <1>5, <2>1
<1>6. LowerBound(p, id) \in 1..n + 1
  <2> HIDE DEF smaller
  <2> QED
    BY <1>1, <1>3, <1>4
<1> QED
  BY <1>5, <1>6 DEF n, Places

\* However stale its cached index is, a handle finds its object.
LEMMA Found ==
    ASSUME PipelinesInv, NEW h \in handles
    PROVE  /\ find_draw_obj(h) \in Places(h.pipe)
           /\ find_draw_obj(h) # 0
           /\ IdAt(h.pipe, find_draw_obj(h)) = h.id
           /\ draw_obj_data[h.pipe][find_draw_obj(h)].object = h.object
<1> DEFINE p == h.pipe
           n == Len(draw_obj_data[p])
<1>0. PipelinesTypeOK /\ PartitionInv /\ SortedInv /\ OwnedInv
  BY DEF PipelinesInv
<1>1. p \in Pipeline /\ h.id \in Nat /\ h.cached_index \in Nat \ {0} /\ n \in Nat
  BY <1>0, ObjectTypes
<1>2. PICK k \in Places(p) : IdAt(p, k) = h.id /\ draw_obj_data[p][k].object = h.object
  BY <1>0 DEF OwnedInv
<1>3. \A l \in Places(p) : IdAt(p, l) = h.id => l = k
  BY <1>0, <1>1, <1>2 DEF PartitionInv
<1>4. k \in 1..n /\ k \in Int
  BY <1>1, <1>2 DEF Places
<1>5. find_draw_obj(h) = k
  <2>1. CASE h.cached_index <= n /\ draw_obj_data[p][h.cached_index].id = h.id
    <3>1. h.cached_index \in Places(p)
      BY <1>1, <2>1 DEF Places
    <3>2. h.cached_index = k
      BY <1>3, <2>1, <3>1 DEF IdAt
    <3> QED
      BY <2>1, <3>2 DEF find_draw_obj
  <2>2. CASE ~(h.cached_index <= n /\ draw_obj_data[p][h.cached_index].id = h.id)
    <3> DEFINE found == LowerBound(p, h.id)
    <3>1. /\ found \in 1..n + 1
          /\ \A l \in Places(p) : l < found <=> IdAt(p, l) < h.id
      BY <1>0, <1>1, LowerBoundParts
    <3>2. found <= k
      <4>1. ~(k < found)
        BY <1>2, <3>1, <1>1
      <4> HIDE DEF found
      <4> QED
        BY <1>1, <1>4, <3>1, <4>1
    <3>3. found \in Places(p)
      <4> HIDE DEF found
      <4> QED
        BY <1>1, <1>4, <3>1, <3>2 DEF Places
    <3>4. ~(found < k)
      <4>1. ~(IdAt(p, found) < h.id)
        <5> HIDE DEF found
        <5> QED
          BY <1>1, <3>1, <3>3
      <4> QED
        BY <1>0, <1>1, <1>2, <3>3, <4>1 DEF SortedInv
    <3>5. found = k
      <4> HIDE DEF found
      <4> QED
        BY <1>1, <1>4, <3>1, <3>2, <3>4
    <3>6. find_draw_obj(h) = IF found <= n /\ draw_obj_data[p][found].id = h.id THEN found ELSE 0
      BY <2>2 DEF find_draw_obj
    <3> HIDE DEF found
    <3> QED
      BY <1>2, <1>4, <3>5, <3>6 DEF IdAt
  <2> QED
    BY <2>1, <2>2
<1> QED
  BY <1>2, <1>4, <1>5

-----------------------------------------------------------------------------
(* Pipelines come and go.                                                  *)

\* Steps that touch no id.
LEMMA IdsUntouched ==
    ASSUME PipelinesInv, PipelinesTypeOK',
           UNCHANGED <<free_list, last_max_index, draw_obj_data>>, born' >= born,
           OwnedInv'
    PROVE  PipelinesInv'
<1>1. PartitionInv' /\ SortedInv'
  BY DEF PipelinesInv, PartitionInv, SortedInv, IdAt, Places
<1>2. last_max_index' <= born'
  BY ObjectTypes DEF PipelinesInv, PipelinesTypeOK
<1> QED
  BY <1>1, <1>2 DEF PipelinesInv

LEMMA CreatePipelineStep ==
    ASSUME PipelinesInv, NEW priority \in Priorities, create_pipeline(priority)
    PROVE  PipelinesInv'
<1>1. /\ created \in 0..MaxPipelines /\ created < MaxPipelines /\ MaxPipelines \in Nat
      /\ created' = created + 1
      /\ pipe_render_order' = [pipe_render_order EXCEPT ![created + 1] = priority]
      /\ pipe_instances' = InsertAt(pipe_instances, InsertionPlace(priority), created + 1)
      /\ UNCHANGED <<free_list, last_max_index, draw_obj_data, handles, shutting_down, born>>
  BY PipelinesAssumption DEF create_pipeline, PipelinesInv, PipelinesTypeOK
<1>2. pipe_instances \in Seq(Pipeline) /\ Len(pipe_instances) \in Nat
      /\ created + 1 \in Pipeline /\ created' \in 0..MaxPipelines
  BY <1>1 DEF PipelinesInv, PipelinesTypeOK, Pipeline
<1>3. InsertionPlace(priority) \in 1..Len(pipe_instances) + 1
  <2> DEFINE n == Len(pipe_instances)
             lower == {k \in DOMAIN pipe_instances :
                         pipe_render_order[pipe_instances[k]] < priority}
  <2>0. n \in Nat /\ DOMAIN pipe_instances = 1..n
    BY <1>2
  <2>2. lower \in SUBSET (1..n)
    BY <2>0
  <2>3. InsertionPlace(priority) = 1 + Cardinality(lower)
    BY Zenon DEF InsertionPlace
  <2> HIDE DEF lower, n
  <2>1. IsFiniteSet(1..n) /\ Cardinality(1..n) = n
    BY <2>0, FS_Interval
  <2>4. Cardinality(lower) \in Nat /\ Cardinality(lower) <= n
    BY <2>1, <2>2, FS_Subset, FS_CardinalityType
  <2> QED
    BY <2>0, <2>3, <2>4 DEF n
<1>4. pipe_instances' \in Seq(Pipeline)
  BY <1>1, <1>2, <1>3, InsertedAt
<1>5. pipe_render_order' \in [Pipeline -> Priorities \cup {0}]
  BY <1>1 DEF PipelinesInv, PipelinesTypeOK
<1>6. PipelinesTypeOK'
  BY <1>1, <1>2, <1>4, <1>5 DEF PipelinesInv, PipelinesTypeOK
<1>7. OwnedInv'
  BY <1>1 DEF PipelinesInv, OwnedInv, IdAt, Places
<1> QED
  BY <1>1, <1>6, <1>7, IdsUntouched, ObjectTypes DEF PipelinesInv

\* The ids of the pipeline's objects are free again.
LEMMA EraseStep ==
    ASSUME PipelinesInv, NEW i \in 1..Len(pipe_instances), Erase(i),
           shutting_down' \in BOOLEAN
    PROVE  PipelinesInv'
<1> DEFINE p == pipe_instances[i]
           m == Len(free_list)
           n == Len(draw_obj_data[p])
<1>0. PipelinesTypeOK /\ PartitionInv /\ SortedInv /\ OwnedInv /\ last_max_index <= born
  BY DEF PipelinesInv
<1>1. /\ pipe_instances' = RemoveAt(pipe_instances, i)
      /\ free_list' = free_list \o IdsOf(p)
      /\ draw_obj_data' = [draw_obj_data EXCEPT ![p] = <<>>]
      /\ handles' = {h \in handles : h.pipe # p}
      /\ UNCHANGED <<last_max_index, pipe_render_order, created, born>>
  BY DEF Erase
<1>2. pipe_instances \in Seq(Pipeline) /\ p \in Pipeline
  BY <1>0 DEF PipelinesTypeOK
<1>3. /\ IdsOf(p) \in Seq(Nat \ {0}) /\ Len(IdsOf(p)) = n /\ n \in Nat /\ m \in Nat
      /\ \A k \in 1..n : IdsOf(p)[k] = IdAt(p, k)
      /\ Places(p) = 1..n
  <2>1. n \in Nat /\ \A k \in 1..n : IdAt(p, k) \in Nat \ {0}
    BY <1>0, <1>2, ObjectTypes DEF Places
  <2>2. IdsOf(p) = [k \in 1..n |-> IdAt(p, k)]
    BY <1>0, <1>2, ObjectTypes DEF IdsOf, IdAt, Places
  <2> QED
    BY <1>0, <2>1, <2>2, IsASeq, ObjectTypes DEF Places
<1>4. /\ free_list' \in Seq(Nat \ {0}) /\ Len(free_list') = m + n
      /\ \A j \in 1..m + n : free_list'[j] = IF j <= m THEN free_list[j] ELSE IdAt(p, j - m)
  <2>1. free_list \in Seq(Nat \ {0})
    BY <1>0, ObjectTypes
  <2> DEFINE ids == IdsOf(p)
  <2>2. ids \in Seq(Nat \ {0}) /\ Len(ids) = n /\ free_list' = free_list \o ids
    BY <1>1, <1>3
  <2>3. \A k \in 1..n : ids[k] = IdAt(p, k)
    BY <1>3
  <2> HIDE DEF ids, p, n
  <2>4. /\ free_list' \in Seq(Nat \ {0}) /\ Len(free_list') = m + n
        /\ \A j \in 1..m + n : free_list'[j] = IF j <= m THEN free_list[j] ELSE ids[j - m]
    BY <2>1, <2>2, ConcatProperties
  <2>5. \A j \in 1..m + n : j <= m \/ j - m \in 1..n
    BY <1>3
  <2> QED
    BY <1>3, <2>3, <2>4, <2>5
<1>5. /\ \A q \in Pipeline : q # p => draw_obj_data'[q] = draw_obj_data[q]
      /\ draw_obj_data'[p] = <<>>
      /\ draw_obj_data' \in [Pipeline -> Seq(Entry)]
  BY <1>0, <1>1, <1>2, EmptySeq DEF PipelinesTypeOK
<1>6. PipelinesTypeOK'
  <2>1. pipe_instances' \in Seq(Pipeline)
    BY <1>1, <1>2, RemovedAt
  <2> QED
    BY <1>0, <1>1, <1>4, <1>5, <2>1 DEF PipelinesTypeOK
<1> HIDE DEF p, m, n
<1>7. \A q \in Pipeline : \A k \in Places(q)' :
        q # p /\ k \in Places(q) /\ IdAt(q, k)' = IdAt(q, k)
  BY <1>5 DEF Places, IdAt
<1>8. \A j \in 1..m + n : \/ j \in 1..m /\ free_list'[j] = free_list[j]
                          \/ j > m /\ j - m \in 1..n /\ free_list'[j] = IdAt(p, j - m)
  BY <1>3, <1>4
<1>9. PartitionInv'
  <2>0. /\ \A j \in 1..m, q \in Pipeline : \A k \in Places(q) : free_list[j] # IdAt(q, k)
        /\ \A j, l \in 1..m : free_list[j] = free_list[l] => j = l
        /\ \A q, r \in Pipeline : \A k \in Places(q), l \in Places(r) :
             IdAt(q, k) = IdAt(r, l) => q = r /\ k = l
    BY <1>0 DEF PartitionInv, m
  <2>1. \A j \in 1..Len(free_list') : free_list'[j] \in 1..last_max_index'
    BY <1>0, <1>1, <1>2, <1>3, <1>4, <1>8 DEF PartitionInv, m
  <2>2. \A q \in Pipeline : \A k \in Places(q)' : IdAt(q, k)' \in 1..last_max_index'
    BY <1>0, <1>1, <1>7 DEF PartitionInv
  <2>3. ASSUME NEW id \in 1..last_max_index'
        PROVE  \/ \E j \in 1..Len(free_list') : free_list'[j] = id
               \/ \E q \in Pipeline : \E k \in Places(q)' : IdAt(q, k)' = id
    <3>1. CASE \E j \in 1..m : free_list[j] = id
      BY <1>3, <1>4, <3>1
    <3>2. CASE \E k \in Places(p) : IdAt(p, k) = id
      <4>1. PICK k \in 1..n : IdAt(p, k) = id
        BY <1>3, <3>2
      <4>2. k + m \in 1..m + n /\ ~(k + m <= m) /\ (k + m) - m = k
        BY <1>3
      <4> QED
        BY <1>4, <4>1, <4>2
    <3>3. ASSUME NEW q \in Pipeline, q # p, \E k \in Places(q) : IdAt(q, k) = id
          PROVE  \E k \in Places(q)' : IdAt(q, k)' = id
      BY <1>5, <3>3 DEF Places, IdAt
    <3> QED
      BY <1>0, <1>1, <3>1, <3>2, <3>3 DEF PartitionInv, m
  <2>4. ASSUME NEW j \in 1..Len(free_list'), NEW q \in Pipeline, NEW k \in Places(q)'
        PROVE  free_list'[j] # IdAt(q, k)'
    <3>1. q # p /\ k \in Places(q) /\ IdAt(q, k)' = IdAt(q, k)
      BY <1>7
    <3>2. \/ j \in 1..m /\ free_list'[j] = free_list[j]
          \/ j - m \in Places(p) /\ free_list'[j] = IdAt(p, j - m)
      BY <1>3, <1>4, <1>8
    <3> QED
      BY <1>2, <2>0, <3>1, <3>2
  <2>5. ASSUME NEW j \in 1..Len(free_list'), NEW l \in 1..Len(free_list'),
               free_list'[j] = free_list'[l]
        PROVE  j = l
    <3>1. j \in 1..m + n /\ l \in 1..m + n /\ j \in Int /\ l \in Int /\ m \in Int
      BY <1>3, <1>4
    <3>2. \/ j \in 1..m /\ free_list'[j] = free_list[j]
          \/ j - m \in Places(p) /\ free_list'[j] = IdAt(p, j - m)
      BY <1>3, <1>8, <3>1
    <3>3. \/ l \in 1..m /\ free_list'[l] = free_list[l]
          \/ l - m \in Places(p) /\ free_list'[l] = IdAt(p, l - m)
      BY <1>3, <1>8, <3>1
    <3>4. j = l \/ j - m = l - m
      BY <1>2, <2>0, <2>5, <3>2, <3>3
    <3> QED
      BY <3>1, <3>4
  <2>6. \A q, r \in Pipeline : \A k \in Places(q)', l \in Places(r)' :
          IdAt(q, k)' = IdAt(r, l)' => q = r /\ k = l
    BY <1>0, <1>7 DEF PartitionInv
  <2> QED
    BY <2>1, <2>2, <2>3, <2>4, <2>5, <2>6 DEF PartitionInv
<1>10. SortedInv'
  BY <1>0, <1>7 DEF SortedInv
<1>11. OwnedInv'
  <2> SUFFICES ASSUME NEW h \in handles, h.pipe # p
               PROVE  \E k \in Places(h.pipe)' :
                        /\ IdAt(h.pipe, k)' = h.id
                        /\ draw_obj_data'[h.pipe][k].object = h.object
    BY <1>1 DEF OwnedInv
  <2>1. h.pipe \in Pipeline
    BY <1>0, ObjectTypes
  <2> QED
    BY <1>0, <1>5, <2>1 DEF OwnedInv, Places, IdAt
<1> QED
  BY <1>0, <1>1, <1>6, <1>9, <1>10, <1>11 DEF PipelinesInv

-----------------------------------------------------------------------------
(* Objects come and go.                                                    *)

\* A handle looks its object up.
LEMMA AccessStep ==
    ASSUME PipelinesInv, NEW h \in handles, NEW copied \in BOOLEAN,
           access_draw_obj_data(h, copied)
    PROVE  PipelinesInv'
<1> DEFINE again == [h EXCEPT !.cached_index = find_draw_obj(h)]
<1>1. /\ handles' = (IF copied THEN handles ELSE handles \ {h}) \cup {again}
      /\ UNCHANGED <<free_list, last_max_index, pipe_instances, pipe_render_order,
                     draw_obj_data, shutting_down, created, born>>
  BY DEF access_draw_obj_data
<1>2. find_draw_obj(h) \in Nat \ {0}
  BY Found, ObjectTypes DEF PipelinesInv, Places
<1>3. again \in Handle /\ again.pipe = h.pipe /\ again.id = h.id /\ again.object = h.object
  <2>1. h \in Handle
    BY ObjectTypes DEF PipelinesInv
  <2> QED
    BY <1>2, <2>1 DEF Handle
<1> HIDE DEF again
<1>4. PipelinesTypeOK'
  BY <1>1, <1>3 DEF PipelinesInv, PipelinesTypeOK
<1>5. OwnedInv'
  <2> SUFFICES ASSUME NEW other \in handles'
               PROVE  \E k \in 1..Len(draw_obj_data[other.pipe]) :
                        /\ draw_obj_data[other.pipe][k].id = other.id
                        /\ draw_obj_data[other.pipe][k].object = other.object
    BY <1>1 DEF OwnedInv, Places, IdAt
  <2>1. PICK old \in handles : /\ old.pipe = other.pipe /\ old.id = other.id
                               /\ old.object = other.object
    BY <1>1, <1>3
  <2>2. OwnedInv
    BY DEF PipelinesInv
  <2>3. \E k \in 1..Len(draw_obj_data[old.pipe]) :
          /\ draw_obj_data[old.pipe][k].id = old.id
          /\ draw_obj_data[old.pipe][k].object = old.object
    BY <2>2 DEF OwnedInv, Places, IdAt
  <2> QED
    BY <2>1, <2>3
<1> QED
  BY <1>1, <1>4, <1>5, IdsUntouched, ObjectTypes DEF PipelinesInv

\* An id that is handed out is no longer free, and was nobody's.
LEMMA AllocGives ==
    ASSUME PipelinesInv, alloc
    PROVE  /\ Allocated \in Nat \ {0} /\ Allocated \in 1..last_max_index'
           /\ last_max_index' \in {last_max_index, last_max_index + 1}
           /\ free_list' \in Seq(Nat \ {0}) /\ Len(free_list') <= Len(free_list)
           /\ \A i \in 1..Len(free_list') :
                free_list'[i] = free_list[i] /\ free_list'[i] # Allocated
           /\ \A p \in Pipeline : \A k \in Places(p) : IdAt(p, k) # Allocated
           /\ \A id \in 1..last_max_index' :
                \/ id = Allocated
                \/ \E i \in 1..Len(free_list') : free_list'[i] = id
                \/ \E p \in Pipeline : \E k \in Places(p) : IdAt(p, k) = id
<1> DEFINE m == Len(free_list)
           id == Allocated
<1>0. PipelinesTypeOK /\ PartitionInv
  BY DEF PipelinesInv
<1>1. free_list \in Seq(Nat \ {0}) /\ m \in Nat /\ last_max_index \in Nat
  BY <1>0, ObjectTypes
<1>2. CASE free_list # <<>>
  <2>1. /\ id = free_list[m] /\ free_list' = SubSeq(free_list, 1, m - 1)
        /\ last_max_index' = last_max_index
    BY <1>2 DEF alloc, Allocated, Front
  <2>2. m \in 1..m /\ m \in Nat \ {0}
    BY <1>1, <1>2
  <2>3. /\ free_list' \in Seq(Nat \ {0}) /\ Len(free_list') = m - 1
        /\ \A i \in 1..m - 1 : free_list'[i] = free_list[i]
    <3>1. \A i \in 1..m - 1 : free_list[i] \in Nat \ {0}
      BY <1>1
    <3> DEFINE last == m - 1
    <3>2. \A i \in 1..last : free_list[i] \in Nat \ {0}
      BY <3>1
    <3>3. last \in Nat
      BY <2>2
    <3>4. free_list' = SubSeq(free_list, 1, last)
      BY <2>1
    <3> HIDE DEF m, last
    <3>5. /\ free_list' \in Seq(Nat \ {0})
          /\ Len(free_list') = IF 1 <= last THEN last - 1 + 1 ELSE 0
          /\ \A i \in 1..last - 1 + 1 : free_list'[i] = free_list[1 + i - 1]
      BY <3>2, <3>3, <3>4, SubSeqProperties
    <3>6. Len(free_list') = last
      BY <3>3, <3>5
    <3>7. \A i \in 1..last : i \in 1..last - 1 + 1 /\ 1 + i - 1 = i
      BY <3>3
    <3>8. \A i \in 1..last : free_list'[i] = free_list[i]
      BY <3>5, <3>7
    <3> QED
      BY <3>5, <3>6, <3>8 DEF last
  <2>4. \A i \in 1..m - 1 : i \in 1..m /\ i # m
    BY <2>2
  <2>5. \A i \in 1..m : i = m \/ i \in 1..m - 1
    BY <2>2
  <2> HIDE DEF m, id
  <2>6. id \in Nat \ {0} /\ id \in 1..last_max_index
    BY <1>0, <1>1, <2>1, <2>2 DEF PartitionInv, m
  <2>7. \A i \in 1..m - 1 : free_list'[i] # id
    BY <1>0, <2>1, <2>2, <2>3, <2>4 DEF PartitionInv, m
  <2>8. \A p \in Pipeline : \A k \in Places(p) : IdAt(p, k) # id
    BY <1>0, <2>1, <2>2 DEF PartitionInv, m
  <2>9. \A x \in 1..last_max_index :
          \/ x = id
          \/ \E i \in 1..m - 1 : free_list'[i] = x
          \/ \E p \in Pipeline : \E k \in Places(p) : IdAt(p, k) = x
    BY <1>0, <2>1, <2>3, <2>5 DEF PartitionInv, m
  <2>10. m - 1 <= m
    BY <1>1
  <2> QED
    BY <2>1, <2>3, <2>6, <2>7, <2>8, <2>9, <2>10 DEF m, id
<1>3. CASE free_list = <<>>
  <2>1. /\ id = last_max_index + 1 /\ free_list' = free_list
        /\ last_max_index' = last_max_index + 1 /\ m = 0
    BY <1>3 DEF alloc, Allocated
  <2> HIDE DEF id
  <2>2. id \in Nat \ {0} /\ id \in 1..last_max_index'
    BY <1>1, <2>1
  <2>3. \A p \in Pipeline : \A k \in Places(p) : IdAt(p, k) # id
    BY <1>0, <1>1, <2>1 DEF PartitionInv
  <2>4. \A x \in 1..last_max_index' : x = id \/ x \in 1..last_max_index
    BY <1>1, <2>1
  <2>5. \A x \in 1..last_max_index :
          \E p \in Pipeline : \E k \in Places(p) : IdAt(p, k) = x
    BY <1>0, <2>1 DEF PartitionInv
  <2> QED
    BY <1>1, <2>1, <2>2, <2>3, <2>4, <2>5 DEF id
<1> QED
  BY <1>2, <1>3

LEMMA CreateStep ==
    ASSUME PipelinesInv, NEW p \in Pipeline, create_draw_obj(p)
    PROVE  PipelinesInv'
<1> DEFINE id == Allocated
           place == LowerBound(p, Allocated)
           n == Len(draw_obj_data[p])
           entry == [id |-> id, object |-> born + 1]
           handle == [pipe |-> p, id |-> id, object |-> born + 1, cached_index |-> place]
<1>0. PipelinesTypeOK /\ PartitionInv /\ SortedInv /\ OwnedInv /\ last_max_index <= born
  BY DEF PipelinesInv
<1>1. /\ alloc /\ born < MaxObjects /\ born' = born + 1
      /\ draw_obj_data' = [draw_obj_data EXCEPT ![p] = InsertAt(@, place, entry)]
      /\ handles' = handles \cup {handle}
      /\ UNCHANGED <<pipe_instances, pipe_render_order, shutting_down, created>>
  BY DEF create_draw_obj
<1>2. born \in 0..MaxObjects /\ MaxObjects \in Nat
      /\ born' \in 0..MaxObjects /\ born + 1 \in 1..MaxObjects
  BY <1>0, <1>1, PipelinesAssumption DEF PipelinesTypeOK
<1>3. id \in Nat \ {0}
  BY <1>1, AllocGives
<1>4. entry \in Entry /\ entry.id = id /\ entry.object = born + 1
  BY <1>2, <1>3 DEF Entry
<1>5. /\ place \in 1..n + 1 /\ n \in Nat
      /\ \A k \in 1..n : k < place <=> IdAt(p, k) < id
  <2>1. id \in Nat
    BY <1>3
  <2> HIDE DEF id
  <2>2. /\ LowerBound(p, id) \in 1..n + 1
        /\ \A k \in Places(p) : k < LowerBound(p, id) <=> IdAt(p, k) < id
    BY <1>0, <2>1, LowerBoundParts
  <2> QED
    BY <1>0, <2>2, ObjectTypes DEF Places, id
<1>6. handle \in Handle /\ handle.pipe = p /\ handle.id = id /\ handle.object = born + 1
  <2> HIDE DEF id, place
  <2>1. place \in Nat \ {0}
    BY <1>5
  <2> QED
    BY <1>2, <1>3, <2>1 DEF Handle
<1> HIDE DEF id, place, entry, handle
<1>7. /\ draw_obj_data' \in [Pipeline -> Seq(Entry)]
      /\ Len(draw_obj_data'[p]) = n + 1
      /\ \A k \in 1..n + 1 : draw_obj_data'[p][k] =
           IF k < place THEN draw_obj_data[p][k]
           ELSE IF k = place THEN entry ELSE draw_obj_data[p][k - 1]
      /\ \A q \in Pipeline : q # p => draw_obj_data'[q] = draw_obj_data[q]
  <2>1. draw_obj_data[p] \in Seq(Entry) /\ draw_obj_data \in [Pipeline -> Seq(Entry)]
    BY <1>0 DEF PipelinesTypeOK
  <2>2. draw_obj_data' = [draw_obj_data EXCEPT ![p] = InsertAt(draw_obj_data[p], place, entry)]
    BY <1>1
  <2> DEFINE objects == draw_obj_data[p]
             longer == InsertAt(objects, place, entry)
  <2>0. objects \in Seq(Entry) /\ n = Len(objects)
    BY <2>1
  <2> HIDE DEF objects, n
  <2>3. /\ longer \in Seq(Entry) /\ Len(longer) = n + 1
        /\ \A k \in 1..n + 1 : longer[k] =
             IF k < place THEN objects[k]
             ELSE IF k = place THEN entry ELSE objects[k - 1]
    <3>1. place \in 1..Len(objects) + 1
      BY <1>5, <2>0
    <3>4. objects \in Seq(Entry) /\ entry \in Entry
      BY <1>4, <2>0
    <3>2. /\ InsertAt(objects, place, entry) \in Seq(Entry)
          /\ Len(InsertAt(objects, place, entry)) = Len(objects) + 1
          /\ \A k \in 1..Len(objects) + 1 : InsertAt(objects, place, entry)[k] =
               IF k < place THEN objects[k]
               ELSE IF k = place THEN entry ELSE objects[k - 1]
      BY <3>1, <3>4, InsertedAt
    <3> QED
      BY <2>0, <3>2
  <2>4. draw_obj_data' = [draw_obj_data EXCEPT ![p] = longer]
    BY <2>2 DEF objects
  <2> HIDE DEF longer
  <2> QED
    BY <2>1, <2>3, <2>4 DEF objects
<1>8. PipelinesTypeOK'
  <2>1. free_list' \in Seq(Nat \ {0}) /\ last_max_index' \in 0..MaxObjects
    <3>1. /\ free_list' \in Seq(Nat \ {0})
          /\ last_max_index' \in {last_max_index, last_max_index + 1}
      BY <1>1, AllocGives
    <3>2. last_max_index \in Nat /\ last_max_index <= born
      BY <1>0, ObjectTypes
    <3> QED
      BY <1>1, <1>2, <3>1, <3>2
  <2> QED
    BY <1>0, <1>1, <1>2, <1>6, <1>7, <2>1 DEF PipelinesTypeOK
\* Every old object is still there, and every object but one is an old one.
<1> DEFINE moved == [k \in 1..n |-> IF k < place THEN k ELSE k + 1]
<1> HIDE DEF n
<1>9. \A k \in 1..n : /\ moved[k] \in 1..n + 1 /\ moved[k] # place
                      /\ draw_obj_data'[p][moved[k]] = draw_obj_data[p][k]
  <2> SUFFICES ASSUME NEW k \in 1..n
               PROVE  /\ moved[k] \in 1..n + 1 /\ moved[k] # place
                      /\ draw_obj_data'[p][moved[k]] = draw_obj_data[p][k]
    OBVIOUS
  <2>1. CASE k < place
    BY <1>5, <1>7, <2>1
  <2>2. CASE ~(k < place)
    <3>1. moved[k] = k + 1 /\ k + 1 \in 1..n + 1 /\ ~(k + 1 < place) /\ k + 1 # place
          /\ (k + 1) - 1 = k
      BY <1>5, <2>2
    <3>2. draw_obj_data'[p][k + 1] = draw_obj_data[p][(k + 1) - 1]
      BY <1>7, <3>1
    <3> QED
      BY <3>1, <3>2
  <2> QED
    BY <2>1, <2>2
<1>10. \A l \in 1..n + 1 : l # place => \E k \in 1..n : l = moved[k]
  <2> SUFFICES ASSUME NEW l \in 1..n + 1, l # place
               PROVE  \E k \in 1..n : l = moved[k]
    OBVIOUS
  <2>1. CASE l < place
    <3>1. l \in 1..n /\ moved[l] = l
      BY <1>5, <2>1
    <3> QED
      BY <3>1
  <2>2. CASE l > place
    <3>1. l - 1 \in 1..n /\ ~(l - 1 < place) /\ (l - 1) + 1 = l
      BY <1>5, <2>2
    <3>2. moved[l - 1] = l
      BY <3>1
    <3> QED
      BY <3>1, <3>2
  <2> QED
    BY <1>5, <2>1, <2>2
<1>11. \A j, k \in 1..n : moved[j] < moved[k] <=> j < k
  BY <1>5
<1>12. draw_obj_data'[p][place] = entry /\ place \in 1..n + 1
  BY <1>5, <1>7
<1> HIDE DEF moved
<1> DEFINE there == [q \in Pipeline |-> 1..Len(draw_obj_data'[q])]
           new == [q \in Pipeline |-> [k \in there[q] |-> draw_obj_data'[q][k].id]]
<1>13. \A q \in Pipeline : /\ Places(q)' = there[q]
                           /\ \A k \in there[q] : IdAt(q, k)' = new[q][k]
  BY DEF Places, IdAt
<1>14. /\ there[p] = 1..n + 1 /\ Places(p) = 1..n
       /\ new[p][place] = id
       /\ \A k \in 1..n : new[p][moved[k]] = IdAt(p, k)
       /\ \A q \in Pipeline : q # p =>
            there[q] = Places(q) /\ \A k \in Places(q) : new[q][k] = IdAt(q, k)
  <2>1. there[p] = 1..n + 1 /\ Places(p) = 1..n
    BY <1>7 DEF Places, n
  <2>2. new[p][place] = id
    BY <1>4, <1>12, <2>1
  <2>3. \A k \in 1..n : new[p][moved[k]] = IdAt(p, k)
    BY <1>9, <2>1 DEF IdAt
  <2>4. \A q \in Pipeline : q # p =>
          there[q] = Places(q) /\ \A k \in Places(q) : new[q][k] = IdAt(q, k)
    BY <1>7 DEF IdAt, Places
  <2> QED
    BY <2>1, <2>2, <2>3, <2>4
<1> HIDE DEF there, new
\* An id in use afterwards is the new one, or was in use.
<1>15. \A q \in Pipeline : \A l \in there[q] :
         \/ q = p /\ l = place /\ new[q][l] = id
         \/ \E k \in Places(q) : /\ new[q][l] = IdAt(q, k)
                                 /\ q = p => l = moved[k]
                                 /\ q # p => l = k
  <2> SUFFICES ASSUME NEW q \in Pipeline, NEW l \in there[q],
                      ~(q = p /\ l = place /\ new[q][l] = id)
               PROVE  \E k \in Places(q) : /\ new[q][l] = IdAt(q, k)
                                           /\ q = p => l = moved[k]
                                           /\ q # p => l = k
    OBVIOUS
  <2>1. CASE q = p
    <3>1. l \in 1..n + 1 /\ l # place
      BY <1>14, <2>1
    <3>2. PICK k \in 1..n : l = moved[k]
      BY <1>10, <3>1
    <3> QED
      BY <1>14, <2>1, <3>2
  <2>2. CASE q # p
    BY <1>14, <2>2
  <2> QED
    BY <2>1, <2>2
<1>16. PartitionInv'
  <2>1. /\ \A i \in 1..Len(free_list') :
             free_list'[i] = free_list[i] /\ free_list'[i] # id /\ i \in 1..Len(free_list)
        /\ \A q \in Pipeline : \A k \in Places(q) : IdAt(q, k) # id
        /\ id \in 1..last_max_index'
        /\ \A x \in 1..last_max_index : x \in 1..last_max_index'
    <3>1. /\ Len(free_list') <= Len(free_list) /\ Len(free_list') \in Nat
          /\ Len(free_list) \in Nat /\ last_max_index \in Nat
          /\ last_max_index' \in {last_max_index, last_max_index + 1}
      BY <1>0, <1>1, AllocGives, ObjectTypes
    <3>2. /\ \A i \in 1..Len(free_list') : i \in 1..Len(free_list)
          /\ \A x \in 1..last_max_index : x \in 1..last_max_index'
      BY <3>1
    <3> QED
      BY <1>1, <3>2, AllocGives DEF id
  <2>2. \A i \in 1..Len(free_list') : free_list'[i] \in 1..last_max_index'
    BY <1>0, <2>1 DEF PartitionInv
  <2>3. \A q \in Pipeline : \A l \in there[q] : new[q][l] \in 1..last_max_index'
    BY <1>0, <1>15, <2>1 DEF PartitionInv
  <2>4. ASSUME NEW x \in 1..last_max_index'
        PROVE  \/ \E i \in 1..Len(free_list') : free_list'[i] = x
               \/ \E q \in Pipeline : \E l \in there[q] : new[q][l] = x
    <3>1. CASE x = id
      BY <1>12, <1>14, <3>1
    <3>2. ASSUME NEW q \in Pipeline, NEW k \in Places(q), IdAt(q, k) = x
          PROVE  \E l \in there[q] : new[q][l] = x
      BY <1>9, <1>14, <3>2
    <3> QED
      BY <1>1, <3>1, <3>2, AllocGives DEF id
  <2>5. \A i \in 1..Len(free_list'), q \in Pipeline : \A l \in there[q] :
          free_list'[i] # new[q][l]
    BY <1>0, <1>15, <2>1 DEF PartitionInv
  <2>6. \A i, j \in 1..Len(free_list') : free_list'[i] = free_list'[j] => i = j
    BY <1>0, <2>1 DEF PartitionInv
  <2>7. ASSUME NEW q \in Pipeline, NEW r \in Pipeline, NEW k \in there[q], NEW l \in there[r],
               new[q][k] = new[r][l]
        PROVE  q = r /\ k = l
    <3>1. CASE new[q][k] = id
      BY <1>15, <2>1, <2>7, <3>1
    <3>2. CASE new[q][k] # id
      <4>1. PICK j \in Places(q) : /\ new[q][k] = IdAt(q, j)
                                   /\ q = p => k = moved[j]
                                   /\ q # p => k = j
        BY <1>15, <3>2
      <4>2. PICK i \in Places(r) : /\ new[r][l] = IdAt(r, i)
                                   /\ r = p => l = moved[i]
                                   /\ r # p => l = i
        BY <1>15, <2>7, <3>2
      <4>3. IdAt(q, j) = IdAt(r, i)
        BY <2>7, <4>1, <4>2
      <4>4. q = r /\ j = i
        BY <1>0, <4>3 DEF PartitionInv
      <4> QED
        BY <4>1, <4>2, <4>4
    <3> QED
      BY <3>1, <3>2
  <2> QED
    BY <1>13, <2>2, <2>3, <2>4, <2>5, <2>6, <2>7 DEF PartitionInv
<1>17. SortedInv'
  <2>1. ASSUME NEW q \in Pipeline, NEW k \in there[q], NEW l \in there[q], k < l
        PROVE  new[q][k] < new[q][l]
    <3>1. CASE q # p
      BY <1>0, <1>14, <2>1, <3>1 DEF SortedInv
    <3>2. CASE q = p
      <4>1. k \in 1..n + 1 /\ l \in 1..n + 1
        BY <1>14, <3>2
      <4>2. CASE k = place
        <5>1. PICK j \in 1..n : l = moved[j]
          BY <1>5, <1>10, <2>1, <4>1, <4>2
        <5>2. ~(j < place)
          BY <1>5, <2>1, <4>2, <5>1 DEF moved
        <5>3. ~(IdAt(p, j) < id) /\ IdAt(p, j) # id /\ IdAt(p, j) \in Nat
          BY <1>0, <1>1, <1>5, <1>14, <5>2, AllocGives, ObjectTypes DEF id
        <5> QED
          BY <1>3, <1>14, <3>2, <4>2, <5>1, <5>3
      <4>3. CASE l = place
        <5>1. PICK j \in 1..n : k = moved[j]
          BY <1>5, <1>10, <2>1, <4>1, <4>3
        <5>2. j < place
          BY <1>5, <2>1, <4>3, <5>1 DEF moved
        <5>3. IdAt(p, j) < id
          BY <1>5, <5>2
        <5> QED
          BY <1>14, <3>2, <4>3, <5>1, <5>3
      <4>4. CASE k # place /\ l # place
        <5>1. PICK i \in 1..n : k = moved[i]
          BY <1>10, <4>1, <4>4
        <5>2. PICK j \in 1..n : l = moved[j]
          BY <1>10, <4>1, <4>4
        <5>3. IdAt(p, i) < IdAt(p, j)
          BY <1>0, <1>11, <1>14, <2>1, <5>1, <5>2 DEF SortedInv
        <5> QED
          BY <1>14, <3>2, <5>1, <5>2, <5>3
      <4> QED
        BY <4>2, <4>3, <4>4
    <3> QED
      BY <3>1, <3>2
  <2> QED
    BY <1>13, <2>1 DEF SortedInv
<1>18. OwnedInv'
  <2> SUFFICES ASSUME NEW h \in handles'
               PROVE  \E l \in there[h.pipe] :
                        /\ draw_obj_data'[h.pipe][l].id = h.id
                        /\ draw_obj_data'[h.pipe][l].object = h.object
    <3>1. \A other \in handles' : other.pipe \in Pipeline
      BY <1>8 DEF PipelinesTypeOK, Handle
    <3> QED
      BY <1>13, <3>1 DEF OwnedInv, IdAt
  <2>1. CASE h = handle
    BY <1>4, <1>6, <1>12, <1>14, <2>1
  <2>2. CASE h \in handles
    <3>1. PICK k \in Places(h.pipe) : /\ IdAt(h.pipe, k) = h.id
                                      /\ draw_obj_data[h.pipe][k].object = h.object
      BY <1>0, <2>2 DEF OwnedInv
    <3>2. h.pipe \in Pipeline
      BY <1>0, <2>2, ObjectTypes
    <3>3. CASE h.pipe = p
      <4>1. k \in 1..n /\ draw_obj_data'[p][moved[k]] = draw_obj_data[p][k]
            /\ moved[k] \in there[p]
        BY <1>9, <1>14, <3>3
      <4> QED
        BY <3>1, <3>3, <4>1 DEF IdAt
    <3>4. CASE h.pipe # p
      BY <1>7, <1>14, <3>1, <3>2, <3>4 DEF IdAt
    <3> QED
      BY <3>3, <3>4
  <2> QED
    BY <1>1, <2>1, <2>2
<1>19. last_max_index' <= born'
  <2>1. last_max_index' \in {last_max_index, last_max_index + 1} /\ last_max_index \in Nat
    BY <1>0, <1>1, AllocGives, ObjectTypes
  <2> QED
    BY <1>0, <1>1, <1>2, <2>1
<1> QED
  BY <1>8, <1>16, <1>17, <1>19, <1>18 DEF PipelinesInv

\* The id of a destroyed object is free again, its neighbours keep theirs.
LEMMA DestroyStep ==
    ASSUME PipelinesInv, NEW h \in handles, destroy_draw_obj(h)
    PROVE  PipelinesInv'
<1> DEFINE p == h.pipe
           place == find_draw_obj(h)
           n == Len(draw_obj_data[p])
           m == Len(free_list)
<1>0. PipelinesTypeOK /\ PartitionInv /\ SortedInv /\ OwnedInv /\ last_max_index <= born
  BY DEF PipelinesInv
<1>1. /\ place \in Places(p) /\ place # 0
      /\ IdAt(p, place) = h.id
      /\ draw_obj_data[p][place].object = h.object
      /\ p \in Pipeline /\ h.id \in Nat \ {0}
  BY <1>0, Found, ObjectTypes
<1>2. /\ free_list' = Append(free_list, draw_obj_data[p][place].id)
      /\ draw_obj_data' = [draw_obj_data EXCEPT ![p] = RemoveAt(@, place)]
      /\ handles' = {other \in handles : other.object # h.object}
      /\ UNCHANGED <<last_max_index, pipe_instances, pipe_render_order, shutting_down,
                     created, born>>
  BY <1>1 DEF destroy_draw_obj
<1>3. place \in 1..n /\ n \in Nat /\ m \in Nat /\ Places(p) = 1..n
  BY <1>0, <1>1, ObjectTypes DEF Places
<1> HIDE DEF place
<1>4. /\ free_list' \in Seq(Nat \ {0}) /\ Len(free_list') = m + 1
      /\ \A i \in 1..m : free_list'[i] = free_list[i]
      /\ free_list'[m + 1] = h.id
  <2>1. free_list \in Seq(Nat \ {0}) /\ free_list' = Append(free_list, h.id)
    BY <1>0, <1>1, <1>2, ObjectTypes DEF IdAt
  <2> QED
    BY <1>1, <2>1
<1>5. /\ draw_obj_data' \in [Pipeline -> Seq(Entry)]
      /\ Len(draw_obj_data'[p]) = n - 1
      /\ \A k \in 1..n - 1 : draw_obj_data'[p][k] =
           IF k < place THEN draw_obj_data[p][k] ELSE draw_obj_data[p][k + 1]
      /\ \A q \in Pipeline : q # p => draw_obj_data'[q] = draw_obj_data[q]
  <2> DEFINE objects == draw_obj_data[p]
             shorter == RemoveAt(objects, place)
  <2>1. objects \in Seq(Entry) /\ n = Len(objects) /\ draw_obj_data \in [Pipeline -> Seq(Entry)]
    BY <1>0, <1>1 DEF PipelinesTypeOK
  <2>2. draw_obj_data' = [draw_obj_data EXCEPT ![p] = shorter]
    BY <1>2
  <2> HIDE DEF objects, n
  <2>3. place \in 1..Len(objects)
    BY <1>3, <2>1
  <2>4. /\ RemoveAt(objects, place) \in Seq(Entry)
        /\ Len(RemoveAt(objects, place)) = Len(objects) - 1
        /\ \A k \in 1..Len(objects) - 1 : RemoveAt(objects, place)[k] =
             IF k < place THEN objects[k] ELSE objects[k + 1]
    BY <2>1, <2>3, RemovedAt
  <2>5. /\ shorter \in Seq(Entry) /\ Len(shorter) = n - 1
        /\ \A k \in 1..n - 1 : shorter[k] = IF k < place THEN objects[k] ELSE objects[k + 1]
    BY <2>1, <2>4
  <2> HIDE DEF shorter, p
  <2> QED
    BY <1>1, <2>1, <2>2, <2>5 DEF objects
<1> HIDE DEF p, n, m
<1>6. PipelinesTypeOK'
  BY <1>0, <1>2, <1>4, <1>5 DEF PipelinesTypeOK
<1> DEFINE old == [k \in 1..n - 1 |-> IF k < place THEN k ELSE k + 1]
\* Every object left was there, and every object but one is left.
<1>7. \A k \in 1..n - 1 : /\ old[k] \in 1..n /\ old[k] # place
                          /\ draw_obj_data'[p][k] = draw_obj_data[p][old[k]]
  BY <1>3, <1>5
<1>8. \A l \in 1..n : l # place => \E k \in 1..n - 1 : l = old[k]
  <2> SUFFICES ASSUME NEW l \in 1..n, l # place
               PROVE  \E k \in 1..n - 1 : l = old[k]
    OBVIOUS
  <2>1. CASE l < place
    <3>1. l \in 1..n - 1 /\ old[l] = l
      BY <1>3, <2>1
    <3> QED
      BY <3>1
  <2>2. CASE l > place
    <3>1. l - 1 \in 1..n - 1 /\ ~(l - 1 < place) /\ (l - 1) + 1 = l
      BY <1>3, <2>2
    <3>2. old[l - 1] = l
      BY <3>1
    <3> QED
      BY <3>1, <3>2
  <2> QED
    BY <1>3, <2>1, <2>2
<1>9. \A j, k \in 1..n - 1 : (j < k => old[j] < old[k]) /\ (old[j] = old[k] => j = k)
  BY <1>3
<1> HIDE DEF old
<1> DEFINE there == [q \in Pipeline |-> 1..Len(draw_obj_data'[q])]
           new == [q \in Pipeline |-> [k \in there[q] |-> draw_obj_data'[q][k].id]]
<1>10. \A q \in Pipeline : /\ Places(q)' = there[q]
                           /\ \A k \in there[q] : IdAt(q, k)' = new[q][k]
  BY DEF Places, IdAt
<1>11. /\ there[p] = 1..n - 1
       /\ \A k \in 1..n - 1 : new[p][k] = IdAt(p, old[k])
       /\ \A q \in Pipeline : q # p =>
            there[q] = Places(q) /\ \A k \in Places(q) : new[q][k] = IdAt(q, k)
  <2>1. there[p] = 1..n - 1
    BY <1>1, <1>5
  <2>2. \A k \in 1..n - 1 : new[p][k] = IdAt(p, old[k])
    BY <1>1, <1>7, <2>1 DEF IdAt
  <2>3. \A q \in Pipeline : q # p =>
          there[q] = Places(q) /\ \A k \in Places(q) : new[q][k] = IdAt(q, k)
    BY <1>5 DEF IdAt, Places
  <2> QED
    BY <2>1, <2>2, <2>3
<1> HIDE DEF there, new
\* An id still in use was in use at another place than the one given back.
<1>12. ASSUME NEW q \in Pipeline, NEW l \in there[q]
       PROVE  \E k \in Places(q) : /\ new[q][l] = IdAt(q, k)
                                   /\ q = p => l \in 1..n - 1 /\ k = old[l] /\ k # place
                                   /\ q # p => k = l
  <2>1. CASE q = p
    <3>1. l \in 1..n - 1 /\ old[l] \in 1..n /\ old[l] # place
      BY <1>7, <1>11, <1>12, <2>1
    <3>2. new[q][l] = IdAt(q, old[l]) /\ old[l] \in Places(q)
      BY <1>3, <1>11, <2>1, <3>1
    <3> QED
      BY <2>1, <3>1, <3>2
  <2>2. CASE q # p
    BY <1>11, <1>12, <2>2
  <2> QED
    BY <2>1, <2>2
<1>13. /\ \A i \in 1..m, q \in Pipeline : \A k \in Places(q) : free_list[i] # IdAt(q, k)
       /\ \A i, j \in 1..m : free_list[i] = free_list[j] => i = j
       /\ \A q, r \in Pipeline : \A k \in Places(q), l \in Places(r) :
            IdAt(q, k) = IdAt(r, l) => q = r /\ k = l
       /\ \A q \in Pipeline : \A k \in Places(q) : IdAt(q, k) \in 1..last_max_index
       /\ \A i \in 1..m : free_list[i] \in 1..last_max_index
  BY <1>0 DEF PartitionInv, m
<1>14. \A i \in 1..m + 1 : i \in 1..m \/ i = m + 1
  BY <1>3
<1>15. PartitionInv'
  <2>1. \A i \in 1..m + 1 : free_list'[i] \in 1..last_max_index
    BY <1>1, <1>4, <1>13, <1>14
  <2>2. \A q \in Pipeline : \A l \in there[q] : new[q][l] \in 1..last_max_index
    BY <1>12, <1>13
  <2>3. ASSUME NEW id \in 1..last_max_index
        PROVE  \/ \E i \in 1..m + 1 : free_list'[i] = id
               \/ \E q \in Pipeline : \E l \in there[q] : new[q][l] = id
    <3>1. CASE \E i \in 1..m : free_list[i] = id
      <4>1. PICK i \in 1..m : free_list'[i] = id
        BY <1>4, <3>1
      <4>2. i \in 1..m + 1
        BY <1>3
      <4> QED
        BY <4>1, <4>2
    <3>2. CASE id = h.id
      <4>1. m + 1 \in 1..m + 1
        BY <1>3
      <4> QED
        BY <1>4, <3>2, <4>1
    <3>3. ASSUME NEW q \in Pipeline, NEW k \in Places(q), IdAt(q, k) = id, id # h.id
          PROVE  \E l \in there[q] : new[q][l] = id
      <4>1. CASE q = p
        <5>1. k \in 1..n /\ k # place
          BY <1>1, <1>3, <3>3, <4>1
        <5>2. PICK l \in 1..n - 1 : k = old[l]
          BY <1>8, <5>1
        <5> QED
          BY <1>11, <3>3, <4>1, <5>2
      <4>2. CASE q # p
        BY <1>11, <3>3, <4>2
      <4> QED
        BY <4>1, <4>2
    <3>4. \/ \E i \in 1..m : free_list[i] = id
          \/ \E q \in Pipeline : \E k \in Places(q) : IdAt(q, k) = id
      BY <1>0 DEF PartitionInv, m
    <3> QED
      BY <3>1, <3>2, <3>3, <3>4
  <2>4. ASSUME NEW i \in 1..m + 1, NEW q \in Pipeline, NEW l \in there[q]
        PROVE  free_list'[i] # new[q][l]
    <3>1. PICK k \in Places(q) : /\ new[q][l] = IdAt(q, k)
                                 /\ q = p => k # place
      BY <1>12
    <3>2. CASE i \in 1..m
      BY <1>4, <1>13, <3>1, <3>2
    <3>3. CASE i = m + 1
      BY <1>1, <1>4, <1>13, <3>1, <3>3
    <3> QED
      BY <1>14, <3>2, <3>3
  <2>5. ASSUME NEW i \in 1..m + 1, NEW j \in 1..m + 1, free_list'[i] = free_list'[j]
        PROVE  i = j
    <3>1. \A k \in 1..m : free_list[k] # h.id
      BY <1>1, <1>13
    <3> QED
      BY <1>4, <1>13, <1>14, <2>5, <3>1
  <2>6. ASSUME NEW q \in Pipeline, NEW r \in Pipeline, NEW k \in there[q], NEW l \in there[r],
               new[q][k] = new[r][l]
        PROVE  q = r /\ k = l
    <3>1. PICK j \in Places(q) : /\ new[q][k] = IdAt(q, j)
                                 /\ q = p => k \in 1..n - 1 /\ j = old[k]
                                 /\ q # p => j = k
      BY <1>12
    <3>2. PICK i \in Places(r) : /\ new[r][l] = IdAt(r, i)
                                 /\ r = p => l \in 1..n - 1 /\ i = old[l]
                                 /\ r # p => i = l
      BY <1>12
    <3>3. IdAt(q, j) = IdAt(r, i)
      BY <2>6, <3>1, <3>2
    <3>4. q = r /\ j = i
      BY <1>13, <3>3
    <3> QED
      BY <1>9, <3>1, <3>2, <3>4
  <2>7. 1..Len(free_list') = 1..m + 1 /\ 1..last_max_index' = 1..last_max_index
    BY <1>2, <1>4
  <2>8. \A i \in 1..Len(free_list') : free_list'[i] \in 1..last_max_index'
    BY <2>1, <2>7
  <2>9. \A q \in Pipeline : \A l \in there[q] : new[q][l] \in 1..last_max_index'
    BY <2>2, <2>7
  <2>10. \A id \in 1..last_max_index' :
           \/ \E i \in 1..Len(free_list') : free_list'[i] = id
           \/ \E q \in Pipeline : \E l \in there[q] : new[q][l] = id
    BY <2>3, <2>7
  <2>11. \A i \in 1..Len(free_list'), q \in Pipeline : \A l \in there[q] :
           free_list'[i] # new[q][l]
    BY <2>4, <2>7
  <2>12. \A i, j \in 1..Len(free_list') : free_list'[i] = free_list'[j] => i = j
    BY <2>5, <2>7
  <2> QED
    BY <1>10, <2>6, <2>8, <2>9, <2>10, <2>11, <2>12 DEF PartitionInv
<1>16. SortedInv'
  <2>1. ASSUME NEW q \in Pipeline, NEW k \in there[q], NEW l \in there[q], k < l
        PROVE  new[q][k] < new[q][l]
    <3>1. CASE q # p
      BY <1>0, <1>11, <2>1, <3>1 DEF SortedInv
    <3>2. CASE q = p
      <4>1. k \in 1..n - 1 /\ l \in 1..n - 1
        BY <1>11, <3>2
      <4>2. IdAt(p, old[k]) < IdAt(p, old[l])
        BY <1>0, <1>1, <1>3, <1>7, <1>9, <2>1, <4>1 DEF SortedInv
      <4> QED
        BY <1>11, <3>2, <4>1, <4>2
    <3> QED
      BY <3>1, <3>2
  <2> QED
    BY <1>10, <2>1 DEF SortedInv
<1>17. OwnedInv'
  <2> SUFFICES ASSUME NEW other \in handles, other.object # h.object
               PROVE  \E l \in there[other.pipe] :
                        /\ draw_obj_data'[other.pipe][l].id = other.id
                        /\ draw_obj_data'[other.pipe][l].object = other.object
    <3>1. \A other \in handles : other.pipe \in Pipeline
      BY <1>0, ObjectTypes
    <3> QED
      BY <1>2, <1>10, <3>1 DEF OwnedInv, IdAt
  <2>1. PICK k \in Places(other.pipe) : /\ IdAt(other.pipe, k) = other.id
                                        /\ draw_obj_data[other.pipe][k].object = other.object
    BY <1>0 DEF OwnedInv
  <2>2. CASE other.pipe = p
    <3>1. k \in 1..n /\ k # place
      BY <1>1, <1>3, <2>1, <2>2
    <3>2. PICK l \in 1..n - 1 : k = old[l]
      BY <1>8, <3>1
    <3>3. l \in there[p] /\ draw_obj_data'[p][l] = draw_obj_data[p][k]
      BY <1>7, <1>11, <3>2
    <3> QED
      BY <2>1, <2>2, <3>3 DEF IdAt
  <2>3. CASE other.pipe # p
    <3>1. other.pipe \in Pipeline
      BY <1>0, ObjectTypes
    <3> QED
      BY <1>5, <1>11, <2>1, <2>3, <3>1 DEF IdAt
  <2> QED
    BY <2>2, <2>3
<1> QED
  BY <1>0, <1>2, <1>6, <1>15, <1>16, <1>17 DEF PipelinesInv

-----------------------------------------------------------------------------
(* The invariant holds, and what follows from it.                          *)

LEMMA PipelinesInvInit == PipelinesInit => PipelinesInv
<1> SUFFICES ASSUME PipelinesInit PROVE PipelinesInv
  OBVIOUS
<1>1. PipelinesTypeOK
  <2>1. /\ free_list = <<>> /\ pipe_instances = <<>> /\ handles = {}
        /\ last_max_index = 0 /\ created = 0 /\ born = 0 /\ shutting_down = FALSE
        /\ pipe_render_order = [p \in Pipeline |-> 0]
        /\ draw_obj_data = [p \in Pipeline |-> <<>>]
    BY DEF PipelinesInit
  <2>2. free_list \in Seq(Nat \ {0})
    BY <2>1
  <2>3. pipe_instances \in Seq(Pipeline)
    BY <2>1
  <2>4. draw_obj_data \in [Pipeline -> Seq(Entry)]
    <3>1. <<>> \in Seq(Entry)
      OBVIOUS
    <3> QED
      BY <2>1, <3>1
  <2>5. pipe_render_order \in [Pipeline -> Priorities \cup {0}]
    BY <2>1
  <2>6. last_max_index \in 0..MaxObjects /\ born \in 0..MaxObjects /\ created \in 0..MaxPipelines
    BY <2>1, PipelinesAssumption
  <2>7. handles \subseteq Handle /\ shutting_down \in BOOLEAN
    BY <2>1
  <2> QED
    BY <2>2, <2>3, <2>4, <2>5, <2>6, <2>7 DEF PipelinesTypeOK
<1>2. \A p \in Pipeline : Places(p) = {}
  BY DEF PipelinesInit, Places
<1>3. Len(free_list) = 0 /\ last_max_index = 0 /\ born = 0 /\ handles = {}
  BY DEF PipelinesInit
<1>4. PartitionInv
  BY <1>2, <1>3 DEF PartitionInv
<1>5. SortedInv /\ OwnedInv
  BY <1>2, <1>3 DEF SortedInv, OwnedInv
<1> QED
  BY <1>1, <1>3, <1>4, <1>5 DEF PipelinesInv

LEMMA PipelinesInvStep ==
    ASSUME PipelinesInv, [PipelinesNext]_pipelinesVars
    PROVE  PipelinesInv'
<1>0. PipelinesTypeOK /\ DOMAIN pipe_instances = 1..Len(pipe_instances)
      /\ Len(pipe_instances) \in Nat
  BY DEF PipelinesInv, PipelinesTypeOK
<1>1. ASSUME NEW priority \in Priorities, create_pipeline(priority)
      PROVE  PipelinesInv'
  BY <1>1, CreatePipelineStep
<1>2. ASSUME NEW k \in 1..MaxPipelines, destroy_pipeline(k)
      PROVE  PipelinesInv'
  BY <1>0, <1>2, EraseStep DEF destroy_pipeline, PipelinesTypeOK
<1>3. ASSUME NEW p \in Pipeline, create_draw_obj(p)
      PROVE  PipelinesInv'
  BY <1>3, CreateStep
<1>4. ASSUME NEW h \in handles, NEW copied \in BOOLEAN, access_draw_obj_data(h, copied)
      PROVE  PipelinesInv'
  BY <1>4, AccessStep
<1>5. ASSUME NEW h \in handles, destroy_draw_obj(h)
      PROVE  PipelinesInv'
  BY <1>5, DestroyStep
<1>6. CASE renderer_shutdown
  <2>1. 1 \in 1..Len(pipe_instances)
    BY <1>0, <1>6 DEF renderer_shutdown, PipelinesTypeOK
  <2> QED
    BY <1>6, <2>1, EraseStep DEF renderer_shutdown
<1>7. CASE UNCHANGED pipelinesVars
  <2>1. PipelinesTypeOK' /\ OwnedInv'
    BY <1>7 DEF pipelinesVars, PipelinesInv, PipelinesTypeOK, OwnedInv, IdAt, Places
  <2> QED
    BY <1>0, <1>7, <2>1, IdsUntouched, ObjectTypes DEF pipelinesVars
<1> QED
  BY <1>1, <1>2, <1>3, <1>4, <1>5, <1>6, <1>7 DEF PipelinesNext

LEMMA PipelinesInvariant == PipelinesSpec => []PipelinesInv
  BY PipelinesInvInit, PipelinesInvStep, PTL DEF PipelinesSpec

\* No index, id or count leaves its range: the pool never hands out 0, which is the
\* invalid id (ray_index.h).
THEOREM PipelinesTypeCorrect == PipelinesSpec => []PipelinesTypeOK
<1>1. PipelinesInv => PipelinesTypeOK
  BY DEF PipelinesInv
<1> QED
  BY <1>1, PipelinesInvariant, PTL

\* Every id ever made is free, once, or that of one live object of one pipeline, after
\* any sequence of creations and destructions (index_pool_free_list).
THEOREM PoolIsPartition == PipelinesSpec => []PoolPartition
<1>1. PipelinesInv => PoolPartition
  BY PartitionMeans DEF PipelinesInv
<1> QED
  BY <1>1, PipelinesInvariant, PTL

\* Every handle of a live pipeline leads to the object it was made for, by its cached
\* index or by binary search (base_pipeline::find_draw_obj).
THEOREM HandlesFind == PipelinesSpec => []HandleFindsItsObject
<1>1. PipelinesInv => HandleFindsItsObject
  BY Found DEF HandleFindsItsObject
<1> QED
  BY <1>1, PipelinesInvariant, PTL
=============================================================================
