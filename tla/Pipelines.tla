----------------------------- MODULE Pipelines -----------------------------
(***************************************************************************)
(* The bookkeeping of pipeline_manager: the pipelines in drawing order,    *)
(* the draw objects of each (sorted by id), the id pool they share, and    *)
(* the handles of the scene, each with the index it last found its object  *)
(* at.  All of it belongs to the logical thread; what can go wrong is a    *)
(* sequence of calls: ids are recycled, last in first out, among           *)
(* pipelines, and every insertion and removal moves objects under the      *)
(* cached indices of other handles.                                        *)
(***************************************************************************)
EXTENDS Integers, SequencesExt

CONSTANTS
    Priorities,       \* render priorities
    MaxPipelines,     \* bound: pipelines created in a run
    MaxObjects        \* bound: draw objects created in a run

ASSUME PipelinesAssumption ==
    /\ Priorities \subseteq Nat
    /\ MaxPipelines \in Nat
    /\ MaxObjects \in Nat

VARIABLES
    free_list,         \* index_pool_free_list
    last_max_index,
    pipe_instances,    \* pipelines, by number, in drawing order
    pipe_render_order, \* of each pipeline
    draw_obj_data,     \* of each pipeline: ids, and which object has them
    handles,           \* draw object handles in the scene's hands
    shutting_down,     \* renderer_shutdown has begun
    created,           \* history: pipelines created
    born               \* history: objects created

pipelinesVars == <<free_list, last_max_index, pipe_instances, pipe_render_order,
                   draw_obj_data, handles, shutting_down, created, born>>

Pipeline == 1..MaxPipelines
Entry == [id : Nat \ {0}, object : 1..MaxObjects]
Handle == [pipe : Pipeline, id : Nat \ {0}, object : 1..MaxObjects,
           cached_index : Nat \ {0}]

\* The types of the bookkeeping; 0 is the invalid id and is never handed out.
PipelinesTypeOK ==
    /\ free_list \in Seq(Nat \ {0})
    /\ last_max_index \in 0..MaxObjects
    /\ pipe_instances \in Seq(Pipeline)
    /\ pipe_render_order \in [Pipeline -> Priorities \cup {0}]
    /\ draw_obj_data \in [Pipeline -> Seq(Entry)]
    /\ handles \subseteq Handle
    /\ shutting_down \in BOOLEAN
    /\ created \in 0..MaxPipelines
    /\ born \in 0..MaxObjects

PipelinesInit ==
    /\ free_list = <<>>
    /\ last_max_index = 0
    /\ pipe_instances = <<>>
    /\ pipe_render_order = [p \in Pipeline |-> 0]
    /\ draw_obj_data = [p \in Pipeline |-> <<>>]
    /\ handles = {}
    /\ shutting_down = FALSE
    /\ created = 0
    /\ born = 0

IsAlive(p) == p \in ToSet(pipe_instances)

-----------------------------------------------------------------------------
(* pipeline_manager.                                                       *)

\* std::lower_bound: before the first pipeline of the same or a higher priority.
InsertionPlace(priority) ==
    1 + Cardinality({k \in DOMAIN pipe_instances :
                        pipe_render_order[pipe_instances[k]] < priority})

create_pipeline(priority) ==
    /\ ~shutting_down
    /\ created < MaxPipelines
    /\ created' = created + 1
    /\ pipe_render_order' = [pipe_render_order EXCEPT ![created + 1] = priority]
    /\ pipe_instances' = InsertAt(pipe_instances, InsertionPlace(priority), created + 1)
    /\ UNCHANGED <<free_list, last_max_index, draw_obj_data, handles, shutting_down, born>>

IdsOf(p) == [k \in DOMAIN draw_obj_data[p] |-> draw_obj_data[p][k].id]

\* ~base_pipeline gives the ids back.  The handles into the pipeline expire:
\* every operation on them returns early from now on.
Erase(k) ==
    LET p == pipe_instances[k]
    IN  /\ pipe_instances' = RemoveAt(pipe_instances, k)
        /\ free_list' = free_list \o IdsOf(p)
        /\ draw_obj_data' = [draw_obj_data EXCEPT ![p] = <<>>]
        /\ handles' = {h \in handles : h.pipe # p}
        /\ UNCHANGED <<last_max_index, pipe_render_order, created, born>>

destroy_pipeline(k) ==
    /\ ~shutting_down
    /\ k \in DOMAIN pipe_instances
    /\ Erase(k)
    /\ UNCHANGED shutting_down

\* pipe_instances.clear(): every pipeline left goes, in drawing order.  The
\* scene is gone by then.
renderer_shutdown ==
    /\ pipe_instances # <<>>
    /\ Erase(1)
    /\ shutting_down' = TRUE

-----------------------------------------------------------------------------
(* base_pipeline and the handles.                                          *)

\* Mutant: the counter is read before it is incremented.
Allocated_from_zero == IF free_list # <<>> THEN free_list[Len(free_list)] ELSE last_max_index

\* index_pool_free_list::alloc
Allocated == IF free_list # <<>> THEN free_list[Len(free_list)] ELSE last_max_index + 1

alloc ==
    IF free_list # <<>>
    THEN free_list' = Front(free_list) /\ UNCHANGED last_max_index
    ELSE last_max_index' = last_max_index + 1 /\ UNCHANGED free_list

\* std::lower_bound in the objects of p: the first whose id is not below.  It
\* is what the code computes only because the ids are sorted.
LowerBound(p, id) ==
    1 + Cardinality({k \in DOMAIN draw_obj_data[p] : draw_obj_data[p][k].id < id})

create_draw_obj(p) ==
    /\ ~shutting_down
    /\ IsAlive(p)
    /\ born < MaxObjects
    /\ born' = born + 1
    /\ alloc
    /\ LET place == LowerBound(p, Allocated)
       IN  /\ draw_obj_data' = [draw_obj_data EXCEPT
                ![p] = InsertAt(@, place, [id |-> Allocated, object |-> born + 1])]
           /\ handles' = handles \cup
                {[pipe |-> p, id |-> Allocated, object |-> born + 1, cached_index |-> place]}
    /\ UNCHANGED <<pipe_instances, pipe_render_order, shutting_down, created>>

\* Mutant: the cached index is trusted.
find_draw_obj_by_cache(h) ==
    IF h.cached_index <= Len(draw_obj_data[h.pipe]) THEN h.cached_index ELSE 0

\* find_draw_obj: the cached index if the id is still there, or a binary
\* search.  0 stands for draw_obj_data.end().
find_draw_obj(h) ==
    LET objects == draw_obj_data[h.pipe]
        found == LowerBound(h.pipe, h.id)
    IN  IF h.cached_index <= Len(objects) /\ objects[h.cached_index].id = h.id
        THEN h.cached_index
        ELSE IF found <= Len(objects) /\ objects[found].id = h.id THEN found ELSE 0

\* get_draw_data updates the handle it is given.  Handles are copied freely,
\* so another copy may keep the index it had.
access_draw_obj_data(h, copied) ==
    /\ ~shutting_down
    /\ h \in handles
    /\ find_draw_obj(h) # 0
    /\ handles' = (IF copied THEN handles ELSE handles \ {h})
                  \cup {[h EXCEPT !.cached_index = find_draw_obj(h)]}
    /\ UNCHANGED <<free_list, last_max_index, pipe_instances, pipe_render_order,
                   draw_obj_data, shutting_down, created, born>>

\* Mutant: the id is given back, but the object stays.
destroy_draw_obj_keeps(h) ==
    /\ ~shutting_down
    /\ h \in handles
    /\ LET k == find_draw_obj(h)
       IN  IF k = 0 THEN UNCHANGED <<draw_obj_data, free_list>>
           ELSE /\ free_list' = Append(free_list, draw_obj_data[h.pipe][k].id)
                /\ UNCHANGED draw_obj_data
    /\ handles' = {other \in handles : other.object # h.object}
    /\ UNCHANGED <<last_max_index, pipe_instances, pipe_render_order, shutting_down,
                   created, born>>

\* A text line destroys the objects it created, and is gone with its handles.
destroy_draw_obj(h) ==
    /\ ~shutting_down
    /\ h \in handles
    /\ LET k == find_draw_obj(h)
       IN  IF k = 0 THEN UNCHANGED <<draw_obj_data, free_list>>
           ELSE /\ free_list' = Append(free_list, draw_obj_data[h.pipe][k].id)
                /\ draw_obj_data' = [draw_obj_data EXCEPT ![h.pipe] = RemoveAt(@, k)]
    /\ handles' = {other \in handles : other.object # h.object}
    /\ UNCHANGED <<last_max_index, pipe_instances, pipe_render_order, shutting_down,
                   created, born>>

-----------------------------------------------------------------------------
PipelinesNext ==
    \/ \E priority \in Priorities : create_pipeline(priority)
    \/ \E k \in 1..MaxPipelines : destroy_pipeline(k)
    \/ \E p \in Pipeline : create_draw_obj(p)
    \/ \E h \in handles :
         \/ \E copied \in BOOLEAN : access_draw_obj_data(h, copied)
         \/ destroy_draw_obj(h)
    \/ renderer_shutdown

PipelinesSpec == PipelinesInit /\ [][PipelinesNext]_pipelinesVars

-----------------------------------------------------------------------------
(* Properties.                                                             *)

LiveIds == UNION {ToSet(IdsOf(p)) : p \in Pipeline}

\* The pool neither forgets an id nor hands one out twice: every id ever made
\* is either free, once, or that of one live object of one pipeline.  A double
\* free, which index_pool_free_list asserts against, breaks this.
PoolPartition ==
    /\ ToSet(free_list) \cup LiveIds = 1..last_max_index
    /\ ToSet(free_list) \cap LiveIds = {}
    /\ IsInjective(free_list)
    /\ \A p, q \in Pipeline :
         \A k \in DOMAIN draw_obj_data[p], l \in DOMAIN draw_obj_data[q] :
            draw_obj_data[p][k].id = draw_obj_data[q][l].id => p = q /\ k = l

\* Every handle of a live pipeline leads to the very object it was made for,
\* though other objects came and went, ids were used again and its cached
\* index is out of date.
HandleFindsItsObject ==
    \A h \in handles :
        LET k == find_draw_obj(h)
        IN  k # 0 /\ draw_obj_data[h.pipe][k].object = h.object
=============================================================================
