------------------------- MODULE RenderFramesProofs -------------------------
(***************************************************************************)
(* Proofs about RenderFrames, for any number of frames in flight, objects, *)
(* resizes and swapchains: a renderer that draws a pipeline is the         *)
(* renderer of FrameSync; its memory is never written while the GPU reads  *)
(* it; and what a frame shows is what the scene holds.                     *)
(***************************************************************************)
EXTENDS RenderFrames, FrameSyncProofs, SequenceTheorems

-----------------------------------------------------------------------------
(* The renderer is that of FrameSync.                                      *)

\* Leaving the pipeline out, a step of the renderer is one that FrameSync knows.
LEMMA FrameStep ==
    ASSUME [RenderNext]_renderVars
    PROVE  [FrameNext]_frameVars
<1>1. CASE construct_pipeline \/ SceneStep \/ cleanup
  BY <1>1 DEF construct_pipeline, SceneStep, cleanup, add_new_draw_obj, remove_draw_obj,
              access_draw_obj_data, access_pipeline_data
<1>2. CASE RecordAndSubmit
  BY <1>2 DEF FrameNext, ThreadStep
<1>3. CASE \E size \in Sizes : RecreateSwapchain(size)
  BY <1>3 DEF FrameNext, ThreadStep
<1>4. CASE GpuCompletes
  BY <1>4 DEF FrameNext
<1>5. CASE \/ BeginFrame(FALSE) \/ LeaveLoop \/ EndFrame \/ WaitFence
           \/ \E i \in Images : AcquireSuccess(i) \/ AcquireSuboptimal(i)
           \/ AcquireFails \/ RecreateFails \/ destroy \/ FrameRests
  <2>1. FALSE \in BOOLEAN
    OBVIOUS
  <2> QED
    BY <1>5, <2>1 DEF FrameNext, ThreadStep
<1>6. CASE UNCHANGED renderVars
  BY <1>6 DEF renderVars
<1> QED
  BY <1>1, <1>2, <1>3, <1>4, <1>5, <1>6 DEF RenderNext

\* With a pipeline and a scene around it, draw_frame still is what FrameSync says of
\* it: all that is proved of FrameSync holds here as well.
THEOREM RenderImplementsFrames == RenderSpec => FrameSpec
<1>1. RenderInit => FrameInit
  BY DEF RenderInit
<1>2. [RenderNext]_renderVars => [FrameNext]_frameVars
  BY FrameStep
<1> QED
  BY <1>1, <1>2, PTL DEF RenderSpec, FrameSpec

-----------------------------------------------------------------------------
(* Sequences and sorting.                                                  *)

LEMMA Inserted ==
    ASSUME NEW S, NEW s \in Seq(S), NEW e \in S, NEW i \in 1..Len(s) + 1
    PROVE  InsertAt(s, i, e) \in Seq(S) /\ Len(InsertAt(s, i, e)) = Len(s) + 1
<1> DEFINE before == SubSeq(s, 1, i - 1)
           after == SubSeq(s, i, Len(s))
<1>1. Len(s) \in Nat /\ i \in Int
  OBVIOUS
<1>2. before \in Seq(S) /\ Len(before) = i - 1
  BY <1>1, SubSeqProperties
<1>3. after \in Seq(S) /\ Len(after) = Len(s) - i + 1
  BY <1>1, SubSeqProperties
<1>4. <<e>> \in Seq(S) /\ Len(<<e>>) = 1
  OBVIOUS
<1> HIDE DEF before, after
<1>5. (before \o <<e>>) \o after \in Seq(S)
      /\ Len((before \o <<e>>) \o after) = Len(s) + 1
  BY <1>1, <1>2, <1>3, <1>4
<1> QED
  BY <1>5 DEF InsertAt, before, after

LEMMA Removed ==
    ASSUME NEW S, NEW s \in Seq(S), NEW i \in 1..Len(s)
    PROVE  RemoveAt(s, i) \in Seq(S) /\ Len(RemoveAt(s, i)) = Len(s) - 1
<1> DEFINE before == SubSeq(s, 1, i - 1)
           after == SubSeq(s, i + 1, Len(s))
<1>1. Len(s) \in Nat /\ i \in Int
  OBVIOUS
<1>2. before \in Seq(S) /\ Len(before) = i - 1
  BY <1>1, SubSeqProperties
<1>3. after \in Seq(S) /\ Len(after) = Len(s) - i
  BY <1>1, SubSeqProperties
<1> HIDE DEF before, after
<1>4. before \o after \in Seq(S) /\ Len(before \o after) = Len(s) - 1
  BY <1>1, <1>2, <1>3
<1> QED
  BY <1>4 DEF RemoveAt, before, after

LEMMA ZOrders ==
    ASSUME draw_obj_data \in Seq(Object)
    PROVE  \A i \in 1..Len(draw_obj_data) : draw_obj_data[i].look.z \in Nat
<1>1. \A i \in 1..Len(draw_obj_data) : draw_obj_data[i] \in Object
  OBVIOUS
<1>2. \A object \in Object : object.look \in Looks
  BY DEF Object
<1>3. \A look \in Looks : look.z \in Nat
  BY ObjectsAssumption
<1> QED
  BY <1>1, <1>2, <1>3

\* DrawnBefore is a strict total order, so the ranks of the objects are 1..Len, each
\* once.
LEMMA RanksAreAPermutation ==
    ASSUME draw_obj_data \in Seq(Object)
    PROVE  LET n == Len(draw_obj_data)
           IN  /\ \A i \in 1..n : Rank(i) \in 1..n
               /\ \A i, j \in 1..n : DrawnBefore(i, j) => Rank(i) < Rank(j)
               /\ \A i, j \in 1..n : Rank(i) = Rank(j) => i = j
               /\ \A k \in 1..n : \E i \in 1..n : Rank(i) = k
<1> DEFINE n == Len(draw_obj_data)
           Before(i) == {j \in 1..n : DrawnBefore(j, i)}
<1>1. n \in Nat /\ DOMAIN draw_obj_data = 1..n
  OBVIOUS
<1>2. \A i \in 1..n : draw_obj_data[i].look.z \in Nat
  BY ZOrders
<1>3. IsFiniteSet(1..n) /\ Cardinality(1..n) = n
  BY <1>1, FS_Interval
<1> HIDE DEF n
<1>4. \A i \in 1..n : /\ Before(i) \in SUBSET (1..n)
                      /\ i \notin Before(i)
                      /\ Rank(i) = 1 + Cardinality(Before(i))
  BY <1>1, <1>2 DEF Rank, DrawnBefore
<1>5. \A i \in 1..n : IsFiniteSet(Before(i)) /\ Cardinality(Before(i)) \in Nat
  BY <1>3, <1>4, FS_Subset, FS_CardinalityType
<1>6. ASSUME NEW i \in 1..n
      PROVE  Rank(i) \in 1..n
  <2>1. Cardinality(Before(i)) <= n
    BY <1>3, <1>4, FS_Subset
  <2>2. Cardinality(Before(i)) # n
    BY <1>3, <1>4, FS_Subset
  <2>3. Rank(i) = 1 + Cardinality(Before(i)) /\ Cardinality(Before(i)) \in Nat /\ n \in Nat
    BY <1>1, <1>4, <1>5
  <2> HIDE DEF Before
  <2> QED
    BY <2>1, <2>2, <2>3
<1>7. ASSUME NEW i \in 1..n, NEW j \in 1..n, DrawnBefore(i, j)
      PROVE  Rank(i) < Rank(j)
  <2>0. ASSUME NEW k \in 1..n, DrawnBefore(k, i)
        PROVE  DrawnBefore(k, j)
    <3>1. /\ draw_obj_data[k].look.z \in Nat
          /\ draw_obj_data[i].look.z \in Nat
          /\ draw_obj_data[j].look.z \in Nat
      BY <1>2
    <3>2. k \in Int /\ i \in Int /\ j \in Int
      BY <1>1
    <3> QED
      BY <1>7, <2>0, <3>1, <3>2 DEF DrawnBefore
  <2>1. Before(i) \cup {i} \subseteq Before(j)
    BY <1>7, <2>0
  <2>2. Cardinality(Before(i) \cup {i}) = Cardinality(Before(i)) + 1
    BY <1>4, <1>5, FS_AddElement
  <2>3. Cardinality(Before(i) \cup {i}) <= Cardinality(Before(j))
    BY <1>5, <2>1, FS_Subset
  <2>4. /\ Rank(i) = 1 + Cardinality(Before(i)) /\ Cardinality(Before(i)) \in Nat
        /\ Rank(j) = 1 + Cardinality(Before(j)) /\ Cardinality(Before(j)) \in Nat
    BY <1>4, <1>5
  <2> HIDE DEF Before
  <2> QED
    BY <2>2, <2>3, <2>4
<1>8. ASSUME NEW i \in 1..n, NEW j \in 1..n, Rank(i) = Rank(j)
      PROVE  i = j
  <2>1. i # j => DrawnBefore(i, j) \/ DrawnBefore(j, i)
    BY <1>2 DEF DrawnBefore
  <2>2. Rank(i) \in Int /\ Rank(j) \in Int
    BY <1>6
  <2> QED
    BY <1>7, <1>8, <2>1, <2>2
<1>9. \A k \in 1..n : \E i \in 1..n : Rank(i) = k
  <2> DEFINE rank == [i \in 1..n |-> Rank(i)]
  <2>1. rank \in [1..n -> 1..n]
    BY <1>6
  <2>2. rank \in Injection(1..n, 1..n)
    BY <1>8, <2>1 DEF Injection, IsInjective
  <2>3. rank \in Surjection(1..n, 1..n)
    BY <1>3, <2>2, FS_Injection
  <2> QED
    BY <2>3 DEF Surjection
<1> QED
  BY <1>6, <1>7, <1>8, <1>9 DEF n

-----------------------------------------------------------------------------
(* The invariant.                                                          *)

Slot == [holds : Shown \cup {Unwritten}, valid : BOOLEAN]
Item == [index : Nat \ {0}, order : Nat]
Snapshot == [slots : Seq(Shown), camera : Shown, texture : BOOLEAN]

\* The pipeline exists from the scene's init to its cleanup: what it owns, and how
\* much room its buffers have.
ShapeInv ==
    /\ Len(shown) = Len(gpu)
    /\ \A f \in Frames : Len(ssbo[f]) = capacity
    /\ Len(draw_obj_data) <= capacity
    /\ Constructed => bound = Bindings
    /\ ~Constructed => at \in {"idle", "leaving", "ended"} /\ (at = "idle" => gpu = <<>>)
    /\ \A kind \in Kinds \ {"atlas"} : allocated[kind] = IF Constructed THEN 1 ELSE 0

\* An order that names every object, from the lowest z_order it has seen to the highest.
Arranged(order) ==
    /\ order \in Seq(Item)
    /\ Len(order) = Len(draw_obj_data)
    /\ \A k \in 1..Len(order) : order[k].index \in 1..Len(draw_obj_data)
    /\ \A i \in 1..Len(draw_obj_data) : \E k \in 1..Len(order) : order[k].index = i
    /\ \A k, l \in 1..Len(order) : k < l => order[k].order <= order[l].order

\* A clean order is complete; it is only behind an object that was changed since the
\* last frame.
ArrangedInv ==
    ~render_order_dirty =>
        /\ Arranged(render_order)
        /\ \A k \in 1..Len(render_order) :
             LET object == draw_obj_data[render_order[k].index]
             IN  ~object.need_update \/ ~z_touched => object.look.z = render_order[k].order

\* What a frame's buffers hold, where they are valid, was written; and is what the
\* object of the slot is now, unless that changed since the last frame.
FreshInv ==
    /\ \A f \in Frames, k \in 1..capacity :
         ssbo[f][k].valid =>
            /\ ssbo[f][k].holds \in Shown
            /\ (/\ ~render_order_dirty
                /\ k <= Len(render_order)
                /\ ~draw_obj_data[render_order[k].index].need_update)
               => ssbo[f][k].holds =
                    [value |-> draw_obj_data[render_order[k].index].look.value,
                     size |-> extent]
    /\ \A f \in Frames :
         ubo[f].valid =>
            /\ ubo[f].holds \in Shown
            /\ ~pipe_data.need_update =>
                 ubo[f].holds = [value |-> pipe_data.camera, size |-> extent]

RenderInv == RenderTypeOK /\ ShapeInv /\ ArrangedInv /\ FreshInv /\ InFlightMemoryStable

LEMMA PipelineTypes ==
    ASSUME RenderTypeOK
    PROVE  /\ draw_obj_data \in Seq(Object) /\ Len(draw_obj_data) \in Nat
           /\ render_order \in Seq(Item)
           /\ \A f \in Frames : ssbo[f] \in Seq(Slot)
           /\ ubo \in [Frames -> Slot]
           /\ shown \in Seq(Snapshot)
           /\ gpu \in Seq(Job) /\ extent \in Sizes /\ frame_index \in Frames
           /\ capacity \in Nat
<1>1. /\ draw_obj_data \in Seq(Object) /\ render_order \in Seq(Item)
      /\ capacity \in Nat
  BY DEF RenderTypeOK, Item
<1>2. ssbo \in [Frames -> Seq(Slot)] /\ ubo \in [Frames -> Slot]
  BY DEF RenderTypeOK, Slot
<1>3. shown \in Seq(Snapshot)
  BY DEF RenderTypeOK, Snapshot
<1>4. gpu \in Seq(Job) /\ extent \in Sizes /\ frame_index \in Frames
  BY DEF RenderTypeOK, FrameSyncTypeOK
<1>5. Len(draw_obj_data) \in Nat
  BY <1>1
<1> QED
  BY <1>1, <1>2, <1>3, <1>4, <1>5

\* The steps of draw_frame between which the pipeline has nothing to do.
LEMMA PipelineUntouched ==
    ASSUME RenderInv, FrameSyncTypeOK', UNCHANGED pipeVars,
           gpu' = gpu, extent' = extent,
           ~Constructed => at' \in {"idle", "leaving", "ended"} /\ (at' = "idle" => gpu = <<>>)
    PROVE  RenderInv'
<1> USE DEF pipeVars, objectVars, bufferVars
<1>1. RenderTypeOK'
  BY DEF RenderInv, RenderTypeOK
<1>2. ShapeInv'
  BY DEF RenderInv, ShapeInv, Constructed
<1>3. ArrangedInv'
  BY DEF RenderInv, ArrangedInv, Arranged
<1>4. FreshInv'
  BY DEF RenderInv, FreshInv
<1>5. InFlightMemoryStable'
  BY DEF RenderInv, InFlightMemoryStable, StillReads, Reads, Constructed
<1> QED
  BY <1>1, <1>2, <1>3, <1>4, <1>5 DEF RenderInv

LEMMA FrameOnlyStep ==
    ASSUME RenderInv, FrameSyncTypeOK', UNCHANGED pipeVars,
           \/ Constructed /\ (BeginFrame(FALSE) \/ LeaveLoop)
           \/ EndFrame
           \/ WaitFence
           \/ \E i \in Images : AcquireSuccess(i) \/ AcquireSuboptimal(i)
           \/ AcquireFails
           \/ RecreateFails
           \/ ~Constructed /\ destroy
           \/ FrameRests
           \/ UNCHANGED frameVars
    PROVE  RenderInv'
<1>1. gpu' = gpu /\ extent' = extent
  BY DEF BeginFrame, LeaveLoop, EndFrame, WaitFence, AcquireSuccess, AcquireSuboptimal,
         AcquireFails, RecreateFails, destroy, FrameRests, frameVars, chainVars
<1>2. ~Constructed => at \in {"idle", "leaving", "ended"} /\ (at = "idle" => gpu = <<>>)
  BY DEF RenderInv, ShapeInv
<1>3. ~Constructed => at' \in {"idle", "leaving", "ended"} /\ (at' = "idle" => gpu = <<>>)
  BY <1>2 DEF BeginFrame, LeaveLoop, EndFrame, WaitFence, AcquireSuccess, AcquireSuboptimal,
              AcquireFails, RecreateFails, destroy, FrameRests, frameVars
<1> QED
  BY <1>1, <1>3, PipelineUntouched

-----------------------------------------------------------------------------
(* The pipeline comes and goes.                                            *)

LEMMA FreshTypes ==
    ASSUME NEW n \in Nat
    PROVE  /\ FreshBuffer(n) \in Seq(Slot) /\ Len(FreshBuffer(n)) = n
           /\ \A k \in 1..n : FreshBuffer(n)[k] = [holds |-> Unwritten, valid |-> FALSE]
           /\ FreshUbos \in [Frames -> Slot]
           /\ \A f \in Frames : ~FreshUbos[f].valid
<1>1. [holds |-> Unwritten, valid |-> FALSE] \in Slot
  BY DEF Slot
<1>2. FreshBuffer(n) \in Seq(Slot)
  BY <1>1, IsASeq DEF FreshBuffer
<1>3. Len(FreshBuffer(n)) = n /\ \A k \in 1..n : FreshBuffer(n)[k] = [holds |-> Unwritten, valid |-> FALSE]
  BY DEF FreshBuffer
<1>4. FreshUbos \in [Frames -> Slot] /\ \A f \in Frames : ~FreshUbos[f].valid
  BY <1>1 DEF FreshUbos
<1> QED
  BY <1>2, <1>3, <1>4

\* What is created exists once more, what is destroyed once less.
LEMMA Counted ==
    ASSUME NEW count \in [Kinds -> Nat], NEW kinds
    PROVE  /\ Created(kinds, count) \in [Kinds -> Nat]
           /\ Destroyed(kinds, count) \in [Kinds -> Nat]
           /\ \A kind \in Kinds :
                /\ Created(kinds, count)[kind] = count[kind] + IF kind \in kinds THEN 1 ELSE 0
                /\ Destroyed(kinds, count)[kind] =
                     IF kind \in kinds /\ count[kind] > 0 THEN count[kind] - 1 ELSE count[kind]
  BY DEF Created, Destroyed

LEMMA ConstructStep ==
    ASSUME RenderInv, FrameSyncTypeOK', construct_pipeline
    PROVE  RenderInv'
<1>1. /\ at = "idle" /\ capacity = 0
      /\ capacity' = InitCapacity
      /\ ssbo' = [f \in Frames |-> FreshBuffer(InitCapacity)]
      /\ ubo' = FreshUbos
      /\ bound' = Bindings
      /\ UNCHANGED <<gpu, at, extent, shown, draw_obj_data, render_order_dirty, render_order,
                     pipe_data, z_touched>>
  BY PipelineTypes DEF construct_pipeline, frameVars, chainVars, objectVars, Constructed, RenderInv
<1>2. InitCapacity \in Nat \ {0}
  BY ObjectsAssumption
<1>3. gpu = <<>> /\ Len(gpu) = 0
  BY <1>1 DEF RenderInv, ShapeInv, Constructed
<1>4. /\ allocated' \in [Kinds -> Nat]
      /\ \A kind \in Kinds \ {"atlas"} : allocated'[kind] = 1
  <2>1. allocated \in [Kinds -> Nat] /\ \A kind \in Kinds \ {"atlas"} : allocated[kind] = 0
    BY <1>1 DEF RenderInv, RenderTypeOK, ShapeInv, Constructed
  <2> DEFINE buffers == Created({"vertex", "ubo", "ssbo"}, allocated)
  <2>2. /\ buffers \in [Kinds -> Nat]
        /\ \A kind \in {"vertex", "ubo", "ssbo"} : buffers[kind] = 1
        /\ \A kind \in {"pipeline", "sets"} : buffers[kind] = 0
    BY <2>1, Counted DEF Kinds
  <2> HIDE DEF buffers
  <2> DEFINE textured == create_atlas_texture(buffers)
  <2>3. /\ textured \in [Kinds -> Nat]
        /\ \A kind \in {"vertex", "ubo", "ssbo"} : textured[kind] = 1
        /\ \A kind \in {"pipeline", "sets"} : textured[kind] = 0
    BY <2>2, Counted DEF create_atlas_texture, Kinds
  <2>4. allocated' = Created({"pipeline", "sets"}, textured)
    BY DEF construct_pipeline, init_pipeline, create_buffers, buffers
  <2> HIDE DEF textured
  <2> QED
    BY <2>3, <2>4, Counted DEF Kinds
<1>5. Bindings \subseteq Kinds
  BY DEF Bindings, BufferBindings, Kinds
<1>6. /\ \A f \in Frames : ssbo'[f] \in Seq(Slot) /\ Len(ssbo'[f]) = capacity'
      /\ \A f \in Frames, k \in 1..capacity' : ~ssbo'[f][k].valid
      /\ ssbo' \in [Frames -> Seq(Slot)]
  BY <1>1, <1>2, FreshTypes
<1>7. RenderTypeOK'
  <2>1. ssbo' \in [Frames -> Seq([holds : Shown \cup {Unwritten}, valid : BOOLEAN])]
    BY <1>6 DEF Slot
  <2>2. ubo' \in [Frames -> [holds : Shown \cup {Unwritten}, valid : BOOLEAN]]
    BY <1>1, <1>2, FreshTypes DEF Slot
  <2> QED
    BY <1>1, <1>2, <1>4, <1>5, <2>1, <2>2 DEF RenderInv, RenderTypeOK
<1>8. ShapeInv'
  BY <1>1, <1>2, <1>3, <1>4, <1>6, PipelineTypes DEF RenderInv, ShapeInv, Constructed
<1>9. ArrangedInv'
  BY <1>1 DEF RenderInv, ArrangedInv, Arranged
<1>10. FreshInv'
  BY <1>1, <1>2, <1>6, FreshTypes DEF FreshInv
<1>11. InFlightMemoryStable'
  BY <1>1, <1>3 DEF InFlightMemoryStable
<1> QED
  BY <1>7, <1>8, <1>9, <1>10, <1>11 DEF RenderInv

LEMMA CleanupStep ==
    ASSUME RenderInv, FrameSyncTypeOK', cleanup
    PROVE  RenderInv'
<1>1. /\ at = "leaving" /\ Constructed
      /\ capacity' = 0
      /\ ssbo' = [f \in Frames |-> <<>>]
      /\ ubo' = FreshUbos
      /\ bound' = {}
      /\ draw_obj_data' = <<>> /\ render_order_dirty' = FALSE /\ render_order' = <<>>
      /\ UNCHANGED <<gpu, at, extent, shown, pipe_data, z_touched>>
  BY DEF cleanup, frameVars, chainVars
<1>2. <<>> \in Seq(Slot) /\ <<>> \in Seq(Item) /\ <<>> \in Seq(Object) /\ Len(<<>>) = 0
  BY EmptySeq
<1>3. /\ allocated' \in [Kinds -> Nat]
      /\ \A kind \in Kinds \ {"atlas"} : allocated'[kind] = 0
  <2>1. allocated \in [Kinds -> Nat] /\ \A kind \in Kinds \ {"atlas"} : allocated[kind] = 1
    BY <1>1 DEF RenderInv, RenderTypeOK, ShapeInv
  <2> DEFINE left == Destroyed({"pipeline", "sets"}, allocated)
  <2>2. /\ left \in [Kinds -> Nat]
        /\ \A kind \in {"vertex", "ubo", "ssbo"} : left[kind] = 1
        /\ \A kind \in {"pipeline", "sets"} : left[kind] = 0
    BY <2>1, Counted DEF Kinds
  <2>3. allocated' = Destroyed({"vertex", "ubo", "ssbo"}, left)
    BY DEF cleanup, destroy_buffers, destroy_pipeline
  <2> HIDE DEF left
  <2> QED
    BY <2>2, <2>3, Counted DEF Kinds
<1>4. ssbo' \in [Frames -> Seq(Slot)] /\ \A f \in Frames : Len(ssbo'[f]) = 0
  BY <1>1, <1>2
<1>5. ubo' \in [Frames -> Slot] /\ \A f \in Frames : ~ubo'[f].valid
  BY <1>1, FreshTypes
<1>6. RenderTypeOK'
  BY <1>1, <1>2, <1>3, <1>4, <1>5 DEF RenderInv, RenderTypeOK, Slot, Item
<1>7. ShapeInv'
  BY <1>1, <1>2, <1>3, <1>4 DEF RenderInv, ShapeInv, Constructed
<1>8. ArrangedInv'
  BY <1>1, <1>2 DEF ArrangedInv, Arranged
<1>9. FreshInv'
  BY <1>1, <1>5 DEF FreshInv
<1>10. InFlightMemoryStable'
  BY <1>1 DEF InFlightMemoryStable, Constructed
<1> QED
  BY <1>6, <1>7, <1>8, <1>9, <1>10 DEF RenderInv

-----------------------------------------------------------------------------
(* The scene's steps.                                                      *)

\* What adding and removing an object have in common: the order is to be rebuilt.
SceneEdits ==
    /\ Constructed
    /\ draw_obj_data' \in Seq(Object)
    /\ render_order_dirty' = TRUE
    /\ UNCHANGED <<frameVars, render_order, pipe_data, ubo, shown>>

LEMMA EditKeepsBuffers ==
    ASSUME RenderInv, FrameSyncTypeOK', SceneEdits, KeepBuffers,
           Len(draw_obj_data') <= capacity
    PROVE  RenderInv'
<1> USE DEF SceneEdits, KeepBuffers, bufferVars
<1>1. gpu' = gpu /\ extent' = extent /\ at' = at
  BY DEF frameVars, chainVars
<1>2. RenderTypeOK'
  BY DEF RenderInv, RenderTypeOK
<1>3. ShapeInv'
  BY <1>1 DEF RenderInv, ShapeInv, Constructed
<1>4. ArrangedInv'
  BY DEF ArrangedInv
<1>5. FreshInv'
  BY <1>1 DEF RenderInv, FreshInv
<1>6. InFlightMemoryStable'
  BY <1>1 DEF RenderInv, InFlightMemoryStable, StillReads, Reads, Constructed
<1> QED
  BY <1>2, <1>3, <1>4, <1>5, <1>6 DEF RenderInv

LEMMA EditResizes ==
    ASSUME RenderInv, FrameSyncTypeOK', SceneEdits, NEW n \in Nat \ {0}, ResizeTo(n),
           Len(draw_obj_data') <= n
    PROVE  RenderInv'
<1>1. /\ gpu' = gpu /\ gpu = <<>> /\ extent' = extent /\ at' = at
      /\ capacity' = n
      /\ ssbo' = [f \in Frames |-> FreshBuffer(n)]
      /\ bound' = bound \cup {"ssbo"}
      /\ render_order_dirty'
      /\ UNCHANGED <<render_order, pipe_data, ubo, shown>>
  BY DEF SceneEdits, ResizeTo, frameVars, chainVars
<1>2. bound' = bound /\ bound = Bindings
  BY <1>1 DEF SceneEdits, RenderInv, ShapeInv, Bindings, BufferBindings
<1>3. /\ allocated' \in [Kinds -> Nat]
      /\ \A kind \in Kinds \ {"atlas"} : allocated'[kind] = 1
  <2>1. allocated \in [Kinds -> Nat] /\ \A kind \in Kinds \ {"atlas"} : allocated[kind] = 1
    BY DEF SceneEdits, RenderInv, RenderTypeOK, ShapeInv
  <2> DEFINE left == Destroyed({"ssbo"}, allocated)
  <2>2. /\ left \in [Kinds -> Nat] /\ left["ssbo"] = 0
        /\ \A kind \in Kinds \ {"atlas", "ssbo"} : left[kind] = 1
    BY <2>1, Counted DEF Kinds
  <2>3. allocated' = Created({"ssbo"}, left)
    BY DEF ResizeTo
  <2> HIDE DEF left
  <2> QED
    BY <2>2, <2>3, Counted DEF Kinds
<1>4. /\ \A f \in Frames : ssbo'[f] \in Seq(Slot) /\ Len(ssbo'[f]) = n
      /\ \A f \in Frames, k \in 1..n : ~ssbo'[f][k].valid
      /\ ssbo' \in [Frames -> Seq(Slot)]
  BY <1>1, FreshTypes
<1>5. RenderTypeOK'
  BY <1>1, <1>2, <1>3, <1>4 DEF SceneEdits, RenderInv, RenderTypeOK, Slot
<1>6. ShapeInv'
  BY <1>1, <1>2, <1>3, <1>4 DEF RenderInv, ShapeInv, Constructed
<1>7. ArrangedInv'
  BY <1>1 DEF ArrangedInv
<1>8. FreshInv'
  BY <1>1, <1>4 DEF RenderInv, FreshInv
<1>9. InFlightMemoryStable'
  <2>1. Len(gpu) = 0
    BY <1>1
  <2> QED
    BY <1>1, <2>1 DEF InFlightMemoryStable
<1> QED
  BY <1>5, <1>6, <1>7, <1>8, <1>9 DEF RenderInv

LEMMA AddStep ==
    ASSUME RenderInv, FrameSyncTypeOK', NEW position, NEW look \in Looks,
           add_new_draw_obj(position, look)
    PROVE  RenderInv'
<1> DEFINE object == [look |-> look, need_update |-> TRUE]
<1>1. /\ Constructed
      /\ position \in 1..Len(draw_obj_data) + 1
      /\ draw_obj_data' = InsertAt(draw_obj_data, position, object)
      /\ render_order_dirty' = TRUE
      /\ UNCHANGED <<frameVars, render_order, pipe_data, ubo, shown>>
      /\ IF capacity < Len(draw_obj_data) + 1 THEN ResizeTo(2 * capacity) ELSE KeepBuffers
  BY DEF add_new_draw_obj, SceneTicks
<1>2. object \in Object
  BY DEF Object
<1>3. draw_obj_data \in Seq(Object) /\ Len(draw_obj_data) \in Nat /\ capacity \in Nat
      /\ Len(draw_obj_data) <= capacity
  BY PipelineTypes DEF RenderInv, ShapeInv
<1> HIDE DEF object
<1>4. draw_obj_data' \in Seq(Object) /\ Len(draw_obj_data') = Len(draw_obj_data) + 1
  BY <1>1, <1>2, <1>3, Inserted
<1>5. SceneEdits
  BY <1>1, <1>4 DEF SceneEdits
<1>6. CASE capacity < Len(draw_obj_data) + 1
  <2>1. 2 * capacity \in Nat \ {0} /\ Len(draw_obj_data') <= 2 * capacity
    BY <1>1, <1>3, <1>4 DEF Constructed
  <2> QED
    BY <1>1, <1>5, <1>6, <2>1, EditResizes
<1>7. CASE ~(capacity < Len(draw_obj_data) + 1)
  BY <1>1, <1>3, <1>4, <1>5, <1>7, EditKeepsBuffers
<1> QED
  BY <1>6, <1>7

LEMMA RemoveStep ==
    ASSUME RenderInv, FrameSyncTypeOK', NEW position, remove_draw_obj(position)
    PROVE  RenderInv'
<1>1. /\ Constructed
      /\ position \in 1..Len(draw_obj_data)
      /\ draw_obj_data' = RemoveAt(draw_obj_data, position)
      /\ render_order_dirty' = TRUE
      /\ UNCHANGED <<frameVars, render_order, pipe_data, ubo, shown>>
      /\ IF OptimizedCapacity >= Len(draw_obj_data) - 1
         THEN ResizeTo(OptimizedCapacity) ELSE KeepBuffers
  BY DEF remove_draw_obj, SceneTicks
<1>2. draw_obj_data \in Seq(Object) /\ Len(draw_obj_data) \in Nat /\ capacity \in Nat
      /\ Len(draw_obj_data) <= capacity
  BY PipelineTypes DEF RenderInv, ShapeInv
<1>3. draw_obj_data' \in Seq(Object) /\ Len(draw_obj_data') = Len(draw_obj_data) - 1
  BY <1>1, <1>2, Removed
<1>4. SceneEdits
  BY <1>1, <1>3 DEF SceneEdits
<1>5. OptimizedCapacity \in Nat \ {0}
  BY <1>2, ObjectsAssumption DEF OptimizedCapacity
<1>6. CASE OptimizedCapacity >= Len(draw_obj_data) - 1
  BY <1>1, <1>2, <1>3, <1>4, <1>5, <1>6, EditResizes
<1>7. CASE ~(OptimizedCapacity >= Len(draw_obj_data) - 1)
  BY <1>1, <1>2, <1>3, <1>4, <1>7, EditKeepsBuffers
<1> QED
  BY <1>6, <1>7

LEMMA AccessStep ==
    ASSUME RenderInv, FrameSyncTypeOK', NEW position, NEW look \in Looks,
           access_draw_obj_data(position, look)
    PROVE  RenderInv'
<1> DEFINE object == [look |-> look, need_update |-> TRUE]
<1>1. /\ Constructed
      /\ position \in 1..Len(draw_obj_data)
      /\ draw_obj_data' = [draw_obj_data EXCEPT ![position] = object]
      /\ z_touched' = (z_touched \/ look.z # draw_obj_data[position].look.z)
      /\ UNCHANGED <<gpu, extent, at, render_order_dirty, render_order, pipe_data, allocated,
                     bound, capacity, ssbo, ubo, shown>>
  BY DEF access_draw_obj_data, SceneTicks, frameVars, chainVars, bufferVars
<1>2. object \in Object /\ object.need_update /\ object.look = look
  BY DEF Object
<1>3. draw_obj_data \in Seq(Object)
  BY PipelineTypes DEF RenderInv
<1> HIDE DEF object
<1>4. /\ draw_obj_data' \in Seq(Object) /\ Len(draw_obj_data') = Len(draw_obj_data)
      /\ \A i \in 1..Len(draw_obj_data) :
           draw_obj_data'[i] = IF i = position THEN object ELSE draw_obj_data[i]
  BY <1>1, <1>2, <1>3, ExceptSeq
<1>5. RenderTypeOK'
  BY <1>1, <1>4 DEF RenderInv, RenderTypeOK
<1>6. ShapeInv'
  BY <1>1, <1>4 DEF RenderInv, ShapeInv, Constructed
<1>7. ArrangedInv'
  <2> SUFFICES ASSUME ~render_order_dirty PROVE ArrangedInv'
    BY <1>1 DEF ArrangedInv
  <2>1. Arranged(render_order)
    BY DEF RenderInv, ArrangedInv
  <2>2. Arranged(render_order)'
    BY <1>1, <1>4, <2>1 DEF Arranged
  <2>3. ASSUME NEW k \in 1..Len(render_order)
        PROVE  ~draw_obj_data'[render_order[k].index].need_update \/ ~z_touched'
                 => draw_obj_data'[render_order[k].index].look.z = render_order[k].order
    <3>1. render_order[k].index \in 1..Len(draw_obj_data)
      BY <2>1 DEF Arranged
    <3>2. ~draw_obj_data[render_order[k].index].need_update \/ ~z_touched
            => draw_obj_data[render_order[k].index].look.z = render_order[k].order
      BY DEF RenderInv, ArrangedInv
    <3>3. CASE render_order[k].index = position
      BY <1>1, <1>2, <1>4, <3>1, <3>2, <3>3
    <3>4. CASE render_order[k].index # position
      BY <1>1, <1>4, <3>1, <3>2, <3>4
    <3> QED
      BY <3>3, <3>4
  <2> QED
    BY <1>1, <2>2, <2>3 DEF ArrangedInv
<1>8. FreshInv'
  <2>1. ASSUME NEW f \in Frames, NEW k \in 1..capacity, ssbo[f][k].valid
        PROVE  /\ ssbo[f][k].holds \in Shown
               /\ (/\ ~render_order_dirty
                   /\ k <= Len(render_order)
                   /\ ~draw_obj_data'[render_order[k].index].need_update)
                  => ssbo[f][k].holds =
                       [value |-> draw_obj_data'[render_order[k].index].look.value,
                        size |-> extent]
    <3>1. ssbo[f][k].holds \in Shown
      BY <2>1 DEF RenderInv, FreshInv
    <3>2. ASSUME ~render_order_dirty, k <= Len(render_order),
                 ~draw_obj_data'[render_order[k].index].need_update
          PROVE  ssbo[f][k].holds =
                   [value |-> draw_obj_data'[render_order[k].index].look.value,
                    size |-> extent]
      <4>1. Arranged(render_order) /\ Len(render_order) \in Nat
        BY <3>2 DEF RenderInv, ArrangedInv, Arranged
      <4>2. k \in 1..Len(render_order)
        BY <3>2, <4>1, PipelineTypes DEF RenderInv
      <4>3. render_order[k].index \in 1..Len(draw_obj_data)
        BY <4>1, <4>2 DEF Arranged
      <4>4. draw_obj_data'[render_order[k].index] = draw_obj_data[render_order[k].index]
        BY <1>2, <1>4, <3>2, <4>3
      <4> QED
        BY <2>1, <3>2, <4>4 DEF RenderInv, FreshInv
    <3> QED
      BY <3>1, <3>2
  <2>2. \A f \in Frames :
          ubo[f].valid =>
             /\ ubo[f].holds \in Shown
             /\ ~pipe_data.need_update =>
                  ubo[f].holds = [value |-> pipe_data.camera, size |-> extent]
    BY DEF RenderInv, FreshInv
  <2> QED
    BY <1>1, <2>1, <2>2 DEF FreshInv
<1>9. InFlightMemoryStable'
  BY <1>1 DEF RenderInv, InFlightMemoryStable, StillReads, Reads, Constructed
<1> QED
  BY <1>5, <1>6, <1>7, <1>8, <1>9 DEF RenderInv

LEMMA CameraStep ==
    ASSUME RenderInv, FrameSyncTypeOK', NEW camera \in Cameras, access_pipeline_data(camera)
    PROVE  RenderInv'
<1>1. /\ pipe_data' = [camera |-> camera, need_update |-> TRUE]
      /\ UNCHANGED <<gpu, extent, at, draw_obj_data, render_order_dirty, render_order,
                     z_touched, allocated, bound, capacity, ssbo, ubo, shown>>
  BY DEF access_pipeline_data, frameVars, chainVars, bufferVars
<1>2. RenderTypeOK'
  BY <1>1 DEF RenderInv, RenderTypeOK
<1>3. ShapeInv'
  BY <1>1 DEF RenderInv, ShapeInv, Constructed
<1>4. ArrangedInv'
  BY <1>1 DEF RenderInv, ArrangedInv, Arranged
<1>5. FreshInv'
  BY <1>1 DEF RenderInv, FreshInv
<1>6. InFlightMemoryStable'
  BY <1>1 DEF RenderInv, InFlightMemoryStable, StillReads, Reads, Constructed
<1> QED
  BY <1>2, <1>3, <1>4, <1>5, <1>6 DEF RenderInv

-----------------------------------------------------------------------------
(* A frame is drawn.                                                       *)

\* Rebuilt or kept, the order a frame is drawn in names every object; a rebuilt one is
\* that of the z_orders of now.
LEMMA DrawnArranged ==
    ASSUME RenderTypeOK, ArrangedInv
    PROVE  /\ Arranged(OrderUsed)
           /\ render_order_dirty =>
                \A k \in 1..Len(OrderUsed) : ObjectOf(k).look.z = OrderUsed[k].order
<1> DEFINE n == Len(draw_obj_data)
           chosen == [k \in 1..n |-> CHOOSE j \in 1..n : Rank(j) = k]
           z == [i \in 1..n |-> draw_obj_data[i].look.z]
<1>1. /\ draw_obj_data \in Seq(Object) /\ n \in Nat /\ DOMAIN draw_obj_data = 1..n
  BY PipelineTypes
<1>2. z \in [1..n -> Nat]
  BY ZOrders, PipelineTypes
<1>3. CASE ~render_order_dirty
  BY <1>3 DEF ArrangedInv, OrderUsed
<1>4. CASE render_order_dirty
  <2>1. /\ \A i \in 1..n : Rank(i) \in 1..n
        /\ \A i, j \in 1..n : DrawnBefore(i, j) => Rank(i) < Rank(j)
        /\ \A i, j \in 1..n : Rank(i) = Rank(j) => i = j
        /\ \A k \in 1..n : \E i \in 1..n : Rank(i) = k
    BY <1>1, RanksAreAPermutation
  <2>2. \A k \in 1..n : chosen[k] \in 1..n /\ Rank(chosen[k]) = k
    BY <2>1
  <2>3. OrderUsed = [k \in 1..n |-> [index |-> chosen[k], order |-> z[chosen[k]]]]
    <3>1. \A k \in 1..n : z[chosen[k]] = draw_obj_data[chosen[k]].look.z
      BY <2>2
    <3> QED
      BY <1>1, <1>4, <3>1 DEF OrderUsed, RebuiltOrder
  <2>4. \A i, j \in 1..n : z[i] < z[j] => DrawnBefore(i, j)
    BY <1>1 DEF DrawnBefore
  <2>5. \A k \in 1..n : draw_obj_data[chosen[k]].look.z = z[chosen[k]]
    BY <2>2
  <2> HIDE DEF chosen, z
  <2>6. ASSUME NEW k \in 1..n
        PROVE  OrderUsed[k].index = chosen[k] /\ OrderUsed[k].order = z[chosen[k]]
    <3>1. OrderUsed[k] = [index |-> chosen[k], order |-> z[chosen[k]]]
      BY <2>3
    <3> QED
      BY <3>1
  <2>7. \A k \in 1..n : [index |-> chosen[k], order |-> z[chosen[k]]] \in Item
    BY <1>1, <1>2, <2>2 DEF Item
  <2>8. OrderUsed \in Seq(Item)
    BY <1>1, <2>3, <2>7, IsASeq
  <2>9. Len(OrderUsed) = n
    BY <1>1, <2>3
  <2> HIDE DEF n
  <2>10. ASSUME NEW i \in 1..n
         PROVE  \E k \in 1..n : OrderUsed[k].index = i
    <3>1. Rank(i) \in 1..n /\ chosen[Rank(i)] = i
      BY <2>1, <2>2
    <3> QED
      BY <2>6, <3>1
  <2>11. ASSUME NEW k \in 1..n, NEW l \in 1..n, k < l
         PROVE  OrderUsed[k].order <= OrderUsed[l].order
    <3>1. chosen[k] \in 1..n /\ chosen[l] \in 1..n
      BY <2>2
    <3>2. ~DrawnBefore(chosen[l], chosen[k])
      <4>1. Rank(chosen[k]) = k /\ Rank(chosen[l]) = l /\ k \in Int /\ l \in Int
        BY <1>1, <2>2
      <4>2. DrawnBefore(chosen[l], chosen[k]) => Rank(chosen[l]) < Rank(chosen[k])
        BY <2>1, <3>1
      <4> QED
        BY <2>11, <4>1, <4>2
    <3>3. z[chosen[k]] \in Nat /\ z[chosen[l]] \in Nat /\ ~(z[chosen[l]] < z[chosen[k]])
      BY <1>2, <2>4, <3>1, <3>2
    <3> QED
      BY <2>6, <3>3
  <2>12. \A k \in 1..n : OrderUsed[k].index \in 1..n
    BY <2>2, <2>6
  <2>13. Arranged(OrderUsed)
    BY <2>8, <2>9, <2>10, <2>11, <2>12 DEF Arranged, n
  <2>14. \A k \in 1..n : ObjectOf(k).look.z = OrderUsed[k].order
    BY <2>5, <2>6 DEF ObjectOf
  <2> QED
    BY <2>9, <2>13, <2>14
<1> QED
  BY <1>3, <1>4

\* What a slot holds when its object is shown as it is.
CurrentOf(k) == [value |-> ObjectOf(k).look.value, size |-> extent]

LEMMA CurrentShown ==
    ASSUME RenderTypeOK, Arranged(OrderUsed), NEW k \in 1..Len(OrderUsed)
    PROVE  CurrentOf(k) \in Shown /\ ObjectOf(k) \in Object
<1>1. OrderUsed[k].index \in 1..Len(draw_obj_data)
  BY DEF Arranged
<1>2. ObjectOf(k) \in Object
  BY <1>1, PipelineTypes DEF ObjectOf
<1>3. ObjectOf(k).look \in Looks
  BY <1>2 DEF Object
<1> QED
  BY <1>2, <1>3, PipelineTypes DEF CurrentOf, Shown

\* A frame writes to its own buffer what is not there already; in the other frames'
\* buffers, which the GPU may be reading, it only marks what is out of date.
LEMMA SlotsAfter ==
    ASSUME RenderTypeOK, ShapeInv, ArrangedInv, FreshInv,
           NEW f \in Frames, NEW k \in 1..capacity
    PROVE  /\ SlotAfter(f, k) \in Slot
           /\ SlotAfter(f, k).valid =>
                /\ SlotAfter(f, k).holds \in Shown
                /\ k <= Len(OrderUsed) => SlotAfter(f, k).holds = CurrentOf(k)
           /\ f # frame_index => SlotAfter(f, k).holds = ssbo[f][k].holds
           /\ f = frame_index /\ k <= Len(OrderUsed) => SlotAfter(f, k).valid
<1> DEFINE old == ssbo[f][k]
<1>1. old \in Slot
  BY PipelineTypes DEF ShapeInv
<1>2. Arranged(OrderUsed) /\ Len(OrderUsed) \in Nat
  <2>1. Arranged(OrderUsed)
    BY DrawnArranged
  <2>2. OrderUsed \in Seq(Item)
    BY <2>1 DEF Arranged
  <2> QED
    BY <2>1, <2>2
<1>3. old.valid => old.holds \in Shown
  BY DEF FreshInv
<1>4. ASSUME k <= Len(OrderUsed), old.valid, ~NeedsUpdate(k)
      PROVE  old.holds = CurrentOf(k)
  BY <1>4 DEF FreshInv, NeedsUpdate, OrderUsed, ObjectOf, CurrentOf
<1>5. k <= Len(OrderUsed) => CurrentOf(k) \in Shown
  BY <1>2, CurrentShown, PipelineTypes
<1>6. k <= Len(OrderUsed) => NeedsUpdate(k) \in BOOLEAN
  <2> SUFFICES ASSUME k <= Len(OrderUsed) PROVE NeedsUpdate(k) \in BOOLEAN
    OBVIOUS
  <2>1. ObjectOf(k).need_update \in BOOLEAN
    BY <1>2, CurrentShown, PipelineTypes DEF Object
  <2> QED
    BY <2>1 DEF NeedsUpdate, RenderTypeOK
<1>7. CASE k > Len(OrderUsed)
  BY <1>1, <1>2, <1>3, <1>7, PipelineTypes DEF SlotAfter
<1>8. CASE k <= Len(OrderUsed) /\ f = frame_index /\ (NeedsUpdate(k) \/ ~old.valid)
  <2>1. SlotAfter(f, k) = [holds |-> CurrentOf(k), valid |-> TRUE]
    BY <1>2, <1>8, PipelineTypes DEF SlotAfter, CurrentOf
  <2> QED
    BY <1>5, <1>8, <2>1 DEF Slot
<1>9. CASE k <= Len(OrderUsed) /\ ~(f = frame_index /\ (NeedsUpdate(k) \/ ~old.valid))
  <2> DEFINE valid == old.valid /\ (f = frame_index \/ ~NeedsUpdate(k))
  <2>1. SlotAfter(f, k) = [old EXCEPT !.valid = valid]
    BY <1>2, <1>9, PipelineTypes DEF SlotAfter
  <2>2. valid \in BOOLEAN
    OBVIOUS
  <2>3. valid => old.valid /\ ~NeedsUpdate(k)
    BY <1>9
  <2>4. f = frame_index => valid
    BY <1>9
  <2> HIDE DEF valid
  <2>5. /\ SlotAfter(f, k) \in Slot
        /\ SlotAfter(f, k).valid = valid
        /\ SlotAfter(f, k).holds = old.holds
    BY <1>1, <2>1, <2>2 DEF Slot
  <2> QED
    BY <1>3, <1>4, <1>9, <2>3, <2>4, <2>5
<1> QED
  BY <1>2, <1>7, <1>8, <1>9, PipelineTypes

\* The same for the camera.
LEMMA CameraAfter ==
    ASSUME RenderTypeOK, FreshInv, UpdateCamera
    PROVE  /\ ubo' \in [Frames -> Slot]
           /\ pipe_data' = [pipe_data EXCEPT !.need_update = FALSE]
           /\ \A f \in Frames :
                /\ ubo'[f].valid =>
                     ubo'[f].holds = [value |-> pipe_data.camera, size |-> extent]
                /\ f # frame_index => ubo'[f].holds = ubo[f].holds
                /\ f = frame_index => ubo'[f].valid
           /\ [value |-> pipe_data.camera, size |-> extent] \in Shown
<1> DEFINE current == [value |-> pipe_data.camera, size |-> extent]
<1>1. pipe_data \in [camera : Cameras, need_update : BOOLEAN] /\ ubo \in [Frames -> Slot]
  BY PipelineTypes DEF RenderTypeOK
<1>2. current \in Shown
  BY <1>1, PipelineTypes DEF Shown
<1>3. \A f \in Frames : ubo[f].valid /\ ~pipe_data.need_update => ubo[f].holds = current
  BY DEF FreshInv
<1> HIDE DEF current
<1>4. [holds |-> current, valid |-> TRUE] \in Slot
  BY <1>2 DEF Slot
<1>5. ASSUME NEW f \in Frames, f = frame_index
      PROVE  ubo'[f] \in Slot /\ ubo'[f].valid /\ ubo'[f].holds = current
  <2>1. ubo'[f] = IF pipe_data.need_update \/ ~ubo[f].valid
                  THEN [holds |-> current, valid |-> TRUE] ELSE ubo[f]
    BY <1>5 DEF UpdateCamera, current
  <2> QED
    BY <1>1, <1>3, <1>4, <2>1
<1>6. ASSUME NEW f \in Frames, f # frame_index
      PROVE  /\ ubo'[f] \in Slot /\ ubo'[f].holds = ubo[f].holds
             /\ ubo'[f].valid => ubo[f].holds = current
  <2> DEFINE valid == ubo[f].valid /\ ~pipe_data.need_update
  <2>1. ubo'[f] = [ubo[f] EXCEPT !.valid = valid]
    BY <1>6 DEF UpdateCamera
  <2>2. valid \in BOOLEAN /\ (valid => ubo[f].holds = current)
    BY <1>3
  <2>3. ubo[f] \in Slot
    BY <1>1
  <2> HIDE DEF valid
  <2> QED
    BY <2>1, <2>2, <2>3 DEF Slot
<1>7. ubo' \in [Frames -> Slot]
  <2>1. ubo' = [f \in Frames |-> ubo'[f]]
    BY DEF UpdateCamera
  <2>2. \A f \in Frames : ubo'[f] \in Slot
    BY <1>5, <1>6
  <2> QED
    BY <2>1, <2>2
<1>8. pipe_data' = [pipe_data EXCEPT !.need_update = FALSE]
  BY DEF UpdateCamera
<1> QED
  BY <1>2, <1>5, <1>6, <1>7, <1>8 DEF current

\* A submission whose memory keeps its contents reads the same as before.
LEMMA ReadsSame ==
    ASSUME NEW f, NEW count, NEW sets, NEW slots, NEW later, NEW cameras, NEW cameras_later,
           Len(later[f]) = Len(slots[f]),
           \A k \in 1..count : k <= Len(slots[f]) => later[f][k].holds = slots[f][k].holds,
           cameras_later[f].holds = cameras[f].holds
    PROVE  Reads(f, later, cameras_later, sets, count) = Reads(f, slots, cameras, sets, count)
  BY DEF Reads

\* The objects after a frame: none of them has changed since.
LEMMA ObjectsAfter ==
    ASSUME RenderTypeOK, update_object_memory
    PROVE  /\ draw_obj_data' \in Seq(Object) /\ Len(draw_obj_data') = Len(draw_obj_data)
           /\ \A i \in 1..Len(draw_obj_data) : /\ draw_obj_data'[i].look = draw_obj_data[i].look
                                               /\ ~draw_obj_data'[i].need_update
<1> DEFINE n == Len(draw_obj_data)
           after(i) == [draw_obj_data[i] EXCEPT !.need_update = FALSE]
<1>1. draw_obj_data \in Seq(Object) /\ n \in Nat /\ DOMAIN draw_obj_data = 1..n
  BY PipelineTypes
<1>2. ASSUME NEW i \in 1..n
      PROVE  after(i) \in Object /\ after(i).look = draw_obj_data[i].look /\ ~after(i).need_update
  <2>1. draw_obj_data[i] \in Object
    BY <1>1
  <2> QED
    BY <2>1 DEF Object
<1>3. draw_obj_data' = [i \in 1..n |-> after(i)]
  BY <1>1 DEF update_object_memory
<1> HIDE DEF after
<1>4. draw_obj_data' \in Seq(Object)
  BY <1>1, <1>2, <1>3, IsASeq
<1>5. Len(draw_obj_data') = n /\ \A i \in 1..n : draw_obj_data'[i] = after(i)
  BY <1>1, <1>3
<1> QED
  BY <1>2, <1>4, <1>5

LEMMA BuffersAfter ==
    ASSUME RenderTypeOK, ShapeInv, ArrangedInv, FreshInv, update_object_memory
    PROVE  /\ ssbo' \in [Frames -> Seq(Slot)]
           /\ \A f \in Frames : Len(ssbo'[f]) = capacity
           /\ \A f \in Frames, k \in 1..capacity : ssbo'[f][k] = SlotAfter(f, k)
<1>1. ssbo' = [f \in Frames |-> [k \in 1..capacity |-> SlotAfter(f, k)]] /\ capacity \in Nat
  BY PipelineTypes DEF update_object_memory
<1>2. ASSUME NEW f \in Frames
      PROVE  /\ [k \in 1..capacity |-> SlotAfter(f, k)] \in Seq(Slot)
             /\ Len([k \in 1..capacity |-> SlotAfter(f, k)]) = capacity
  <2>1. \A k \in 1..capacity : SlotAfter(f, k) \in Slot
    BY SlotsAfter
  <2> QED
    BY <1>1, <2>1, IsASeq
<1> QED
  BY <1>1, <1>2

\* What the GPU will find for the frame just drawn: every object as it is now, the
\* camera, and the font.
Picture ==
    [slots |-> [k \in 1..Len(draw_obj_data) |-> CurrentOf(k)],
     camera |-> [value |-> pipe_data.camera, size |-> extent],
     texture |-> HasAtlas]

LEMMA DrawnPicture ==
    ASSUME RenderTypeOK, ShapeInv, ArrangedInv, FreshInv, Constructed, draw_commands
    PROVE  /\ Reads(frame_index, ssbo', ubo', bound, Len(OrderUsed)) = Picture
           /\ Picture \in Snapshot
           /\ Len(OrderUsed) = Len(draw_obj_data)
           /\ Len(Picture.slots) = Len(draw_obj_data)
<1> DEFINE n == Len(draw_obj_data)
<1>1. Len(OrderUsed) = n /\ n \in Nat /\ n <= capacity /\ capacity \in Nat
      /\ frame_index \in Frames
  BY DrawnArranged, PipelineTypes DEF Arranged, ShapeInv
<1>2. "ssbo" \in bound /\ "ubo" \in bound /\ (("atlas" \in bound) = HasAtlas)
  BY ObjectsAssumption DEF ShapeInv, Bindings, BufferBindings
<1>3. /\ Len(ssbo'[frame_index]) = capacity
      /\ \A k \in 1..n : ssbo'[frame_index][k].holds = CurrentOf(k)
  <2>1. \A k \in 1..n : k \in 1..capacity
    BY <1>1
  <2>2. update_object_memory
    BY DEF draw_commands
  <2>3. \A k \in 1..n : ssbo'[frame_index][k] = SlotAfter(frame_index, k)
    BY <1>1, <2>1, <2>2, BuffersAfter
  <2>4. \A k \in 1..n : SlotAfter(frame_index, k).holds = CurrentOf(k)
    BY <1>1, <2>1, SlotsAfter
  <2> QED
    BY <1>1, <2>2, <2>3, <2>4, BuffersAfter
<1>4. /\ ubo'[frame_index].holds = [value |-> pipe_data.camera, size |-> extent]
      /\ [value |-> pipe_data.camera, size |-> extent] \in Shown
  BY <1>1, CameraAfter DEF draw_commands
<1>5. \A k \in 1..n : CurrentOf(k) \in Shown
  BY <1>1, CurrentShown, DrawnArranged
<1>6. [k \in 1..n |-> CurrentOf(k)] \in Seq(Shown)
      /\ Len([k \in 1..n |-> CurrentOf(k)]) = n
  BY <1>1, <1>5, IsASeq
<1>7. Picture \in Snapshot /\ Len(Picture.slots) = n
  BY <1>4, <1>6, ObjectsAssumption DEF Picture, Snapshot
<1>8. Reads(frame_index, ssbo', ubo', bound, n) = Picture
  <2>1. \A k \in 1..n : k <= Len(ssbo'[frame_index])
    BY <1>1, <1>3
  <2>2. [k \in 1..n |-> IF "ssbo" \in bound /\ k <= Len(ssbo'[frame_index])
                        THEN ssbo'[frame_index][k].holds ELSE Unwritten]
          = [k \in 1..n |-> CurrentOf(k)]
    BY <1>2, <1>3, <2>1
  <2> QED
    BY <1>2, <1>4, <2>2 DEF Reads, Picture
<1> QED
  BY <1>1, <1>7, <1>8

\* The slots of a frame that the GPU may still read are not written.
LEMMA OthersUntouched ==
    ASSUME RenderTypeOK, ShapeInv, ArrangedInv, FreshInv, draw_commands,
           NEW f \in Frames, f # frame_index, NEW count
    PROVE  Reads(f, ssbo', ubo', bound, count) = Reads(f, ssbo, ubo, bound, count)
<1>1. Len(ssbo'[f]) = Len(ssbo[f])
  BY BuffersAfter DEF draw_commands, ShapeInv
<1>2. ASSUME NEW k \in 1..count, k <= Len(ssbo[f])
      PROVE  ssbo'[f][k].holds = ssbo[f][k].holds
  <2>1. k \in 1..capacity
    BY <1>2, PipelineTypes DEF ShapeInv
  <2>2. ssbo'[f][k] = SlotAfter(f, k)
    BY <2>1, BuffersAfter DEF draw_commands
  <2> QED
    BY <2>1, <2>2, SlotsAfter
<1>3. ubo'[f].holds = ubo[f].holds
  BY CameraAfter DEF draw_commands
<1> QED
  BY <1>1, <1>2, <1>3, ReadsSame

LEMMA DrawStep ==
    ASSUME RenderInv, FrameSyncTypeOK', NoReuseInFlight, RecordAndSubmit, draw_commands
    PROVE  RenderInv'
<1> DEFINE n == Len(draw_obj_data)
           m == Len(gpu)
<1>0. RenderTypeOK /\ ShapeInv /\ ArrangedInv /\ FreshInv /\ InFlightMemoryStable
  BY DEF RenderInv
<1>1. /\ at = "record" /\ Constructed /\ extent' = extent
      /\ bound = Bindings /\ n <= capacity
  BY <1>0 DEF RecordAndSubmit, ShapeInv
<1>2. /\ UpdateCamera /\ update_object_memory
      /\ shown' = Append(shown, Picture)
      /\ z_touched' = FALSE
      /\ UNCHANGED <<allocated, bound, capacity>>
      /\ Picture \in Snapshot /\ Len(OrderUsed) = n /\ Len(Picture.slots) = n
      /\ Reads(frame_index, ssbo', ubo', bound, n) = Picture
  BY <1>0, <1>1, DrawnPicture DEF draw_commands
<1>3. /\ render_order' = OrderUsed
      /\ Arranged(OrderUsed)
      /\ render_order_dirty' =
           (/\ ~render_order_dirty
            /\ \E k \in DOMAIN OrderUsed :
                 /\ NeedsUpdate(k) \/ ~ssbo[frame_index][k].valid
                 /\ ObjectOf(k).look.z # OrderUsed[k].order)
  BY <1>0, <1>2, DrawnArranged DEF update_object_memory
<1>4. /\ draw_obj_data' \in Seq(Object) /\ Len(draw_obj_data') = n
      /\ \A i \in 1..n : draw_obj_data'[i].look = draw_obj_data[i].look
      /\ \A i \in 1..n : ~draw_obj_data'[i].need_update
  BY <1>0, <1>2, ObjectsAfter
<1>5. /\ OrderUsed \in Seq(Item) /\ n \in Nat
      /\ \A k \in 1..n : OrderUsed[k].index \in 1..n
  BY <1>0, <1>2, <1>3, PipelineTypes DEF Arranged
<1>6. PICK captured \in Captures : gpu' = Append(gpu, Submission(captured))
  BY RecordedSubmission
<1>7. /\ Len(gpu') = m + 1 /\ m \in Nat
      /\ \A k \in 1..m : gpu'[k] = gpu[k] /\ gpu[k].frame \in Frames
      /\ gpu'[m + 1].frame = frame_index
  <2>1. Submission(captured) \in Job
    BY <1>0, CapturesType DEF RenderTypeOK, FrameSyncTypeOK, Submission, Job, Layout, PresentedFrom
  <2>2. gpu \in Seq(Job)
    BY <1>0, PipelineTypes
  <2>3. Submission(captured).frame = frame_index
    BY DEF Submission
  <2>4. /\ Len(gpu') = m + 1
        /\ \A k \in 1..m : gpu'[k] = gpu[k]
        /\ gpu'[m + 1] = Submission(captured)
    BY <1>6, <2>1, <2>2, QueuePositions
  <2> QED
    BY <2>2, <2>3, <2>4, QueuedJobs
<1>8. /\ shown' \in Seq(Snapshot) /\ Len(shown') = m + 1
      /\ \A k \in 1..m : shown'[k] = shown[k]
      /\ shown'[m + 1] = Picture
  <2>1. shown \in Seq(Snapshot) /\ Len(shown) = m
    BY <1>0, PipelineTypes DEF ShapeInv
  <2> HIDE DEF m
  <2> QED
    BY <1>2, <2>1, QueuePositions
<1>9. RenderTypeOK'
  <2>1. ssbo' \in [Frames -> Seq([holds : Shown \cup {Unwritten}, valid : BOOLEAN])]
    BY <1>0, <1>2, BuffersAfter DEF Slot
  <2>2. ubo' \in [Frames -> [holds : Shown \cup {Unwritten}, valid : BOOLEAN]]
    BY <1>0, <1>2, CameraAfter DEF Slot
  <2>3. pipe_data' \in [camera : Cameras, need_update : BOOLEAN]
    <3>1. pipe_data \in [camera : Cameras, need_update : BOOLEAN]
      BY <1>0 DEF RenderTypeOK
    <3> QED
      BY <1>2, <3>1 DEF UpdateCamera
  <2>4. shown' \in Seq([slots : Seq(Shown), camera : Shown, texture : BOOLEAN])
    BY <1>8 DEF Snapshot
  <2>5. render_order' \in Seq([index : Nat \ {0}, order : Nat])
    BY <1>3, <1>5 DEF Item
  <2>6. render_order_dirty' \in BOOLEAN
    BY <1>3
  <2>7. /\ allocated' \in [Kinds -> Nat] /\ bound' \subseteq Kinds /\ capacity' \in Nat
    BY <1>0, <1>2 DEF RenderTypeOK
  <2> QED
    BY <1>4, <2>1, <2>2, <2>3, <2>4, <2>5, <2>6, <2>7 DEF RenderTypeOK
<1>10. ShapeInv'
  <2>1. \A f \in Frames : Len(ssbo'[f]) = capacity'
    BY <1>0, <1>2, BuffersAfter
  <2>2. Constructed'
    BY <1>1, <1>2 DEF Constructed
  <2> QED
    BY <1>0, <1>1, <1>2, <1>4, <1>7, <1>8, <2>1, <2>2 DEF ShapeInv
<1>11. ArrangedInv'
  <2>1. Arranged(render_order)'
    BY <1>3, <1>4 DEF Arranged
  <2>2. ASSUME ~render_order_dirty', NEW k \in 1..n
        PROVE  draw_obj_data'[OrderUsed[k].index].look.z = OrderUsed[k].order
    <3>1. draw_obj_data'[OrderUsed[k].index].look = ObjectOf(k).look
      BY <1>4, <1>5 DEF ObjectOf
    <3>2. CASE render_order_dirty
      BY <1>0, <1>2, <3>1, <3>2, DrawnArranged
    <3>3. CASE ~render_order_dirty
      <4>1. k \in DOMAIN OrderUsed
        BY <1>2, <1>5
      <4>2. ~NeedsUpdate(k) \/ ObjectOf(k).look.z = OrderUsed[k].order
        BY <1>3, <2>2, <3>3, <4>1
      <4>3. ~NeedsUpdate(k) => ~ObjectOf(k).need_update
        BY DEF NeedsUpdate
      <4>4. OrderUsed = render_order
        BY <3>3 DEF OrderUsed
      <4>5. ~ObjectOf(k).need_update => ObjectOf(k).look.z = OrderUsed[k].order
        BY <1>0, <1>2, <3>3, <4>4 DEF ArrangedInv, ObjectOf
      <4> QED
        BY <3>1, <4>2, <4>3, <4>5
    <3> QED
      BY <3>2, <3>3
  <2> QED
    BY <1>2, <1>3, <2>1, <2>2 DEF ArrangedInv
<1>12. FreshInv'
  <2>1. ASSUME NEW f \in Frames, NEW k \in 1..capacity, ssbo'[f][k].valid
        PROVE  /\ ssbo'[f][k].holds \in Shown
               /\ k <= n => ssbo'[f][k].holds =
                    [value |-> draw_obj_data'[OrderUsed[k].index].look.value, size |-> extent]
    <3>1. ssbo'[f][k] = SlotAfter(f, k)
      BY <1>0, <1>2, BuffersAfter
    <3>2. /\ ssbo'[f][k].holds \in Shown
          /\ k <= n => ssbo'[f][k].holds = CurrentOf(k)
      BY <1>0, <1>2, <2>1, <3>1, SlotsAfter
    <3>3. k <= n => draw_obj_data'[OrderUsed[k].index].look = ObjectOf(k).look
      <4>1. k <= n => k \in 1..n
        BY <1>0, <1>5, PipelineTypes
      <4> QED
        BY <1>4, <1>5, <4>1 DEF ObjectOf
    <3> QED
      BY <3>2, <3>3 DEF CurrentOf
  <2>2. ASSUME NEW f \in Frames, ubo'[f].valid
        PROVE  /\ ubo'[f].holds \in Shown
               /\ ubo'[f].holds = [value |-> pipe_data'.camera, size |-> extent]
    <3>1. pipe_data'.camera = pipe_data.camera
      <4>1. pipe_data \in [camera : Cameras, need_update : BOOLEAN]
        BY <1>0 DEF RenderTypeOK
      <4> QED
        BY <1>2, <4>1 DEF UpdateCamera
    <3> QED
      BY <1>0, <1>2, <2>2, <3>1, CameraAfter
  <2> QED
    BY <1>1, <1>2, <1>3, <2>1, <2>2 DEF FreshInv
<1>13. InFlightMemoryStable'
  <2>1. ASSUME NEW k \in 1..m
        PROVE  shown'[k] = Reads(gpu'[k].frame, ssbo', ubo', bound', Len(shown'[k].slots))
    <3>1. gpu[k].frame # frame_index
      BY <1>1 DEF NoReuseInFlight, InQueue
    <3>2. shown[k] = Reads(gpu[k].frame, ssbo, ubo, bound, Len(shown[k].slots))
      BY <1>0, <1>1 DEF InFlightMemoryStable, StillReads
    <3>3. Reads(gpu[k].frame, ssbo', ubo', bound, Len(shown[k].slots))
            = Reads(gpu[k].frame, ssbo, ubo, bound, Len(shown[k].slots))
      BY <1>0, <1>7, <3>1, OthersUntouched
    <3> QED
      BY <1>2, <1>7, <1>8, <3>2, <3>3
  <2>2. shown'[m + 1] = Reads(gpu'[m + 1].frame, ssbo', ubo', bound', Len(shown'[m + 1].slots))
    BY <1>2, <1>7, <1>8
  <2> HIDE DEF m
  <2>3. \A k \in 1..Len(gpu') : k \in 1..m \/ k = m + 1
    BY <1>7
  <2>4. \A k \in 1..Len(gpu') :
          shown'[k] = Reads(gpu'[k].frame, ssbo', ubo', bound', Len(shown'[k].slots))
    BY <2>1, <2>2, <2>3
  <2> QED
    BY <2>4 DEF InFlightMemoryStable, StillReads, Reads
<1> QED
  BY <1>9, <1>10, <1>11, <1>12, <1>13 DEF RenderInv
-----------------------------------------------------------------------------
(* A swapchain is replaced, a submission executes.                         *)

\* What has been invalidated keeps its place and its contents.
LEMMA Invalidated ==
    ASSUME RenderTypeOK, ShapeInv, update_swapchain
    PROVE  /\ ssbo' \in [Frames -> Seq(Slot)] /\ ubo' \in [Frames -> Slot]
           /\ \A f \in Frames : Len(ssbo'[f]) = capacity /\ ~ubo'[f].valid
           /\ \A f \in Frames, k \in 1..capacity : ~ssbo'[f][k].valid
<1> DEFINE Late(f, k) == [ssbo[f][k] EXCEPT !.valid = FALSE]
<1>1. /\ ssbo' = [f \in Frames |-> [k \in 1..capacity |-> Late(f, k)]]
      /\ ubo' = [f \in Frames |-> [ubo[f] EXCEPT !.valid = FALSE]]
      /\ capacity \in Nat
  BY PipelineTypes DEF update_swapchain
<1>2. \A f \in Frames : ubo[f] \in Slot /\ ssbo[f] \in Seq(Slot) /\ Len(ssbo[f]) = capacity
  BY PipelineTypes DEF ShapeInv
<1>3. ASSUME NEW f \in Frames, NEW k \in 1..capacity
      PROVE  Late(f, k) \in Slot /\ ~Late(f, k).valid
  <2>1. ssbo[f][k] \in Slot
    BY <1>2
  <2> QED
    BY <2>1 DEF Slot
<1> HIDE DEF Late
<1>4. ASSUME NEW f \in Frames
      PROVE  /\ [k \in 1..capacity |-> Late(f, k)] \in Seq(Slot)
             /\ Len([k \in 1..capacity |-> Late(f, k)]) = capacity
  BY <1>1, <1>3, IsASeq
<1>5. ubo' \in [Frames -> Slot] /\ \A f \in Frames : ~ubo'[f].valid
  BY <1>1, <1>2 DEF Slot
<1>6. ssbo' \in [Frames -> Seq(Slot)] /\ \A f \in Frames : Len(ssbo'[f]) = capacity
  BY <1>1, <1>4
<1>7. \A f \in Frames, k \in 1..capacity : ~ssbo'[f][k].valid
  BY <1>1, <1>3
<1> QED
  BY <1>5, <1>6, <1>7

LEMMA RecreateStep ==
    ASSUME RenderInv, FrameSyncTypeOK', NEW size \in Sizes,
           RecreateSwapchain(size), update_swapchain
    PROVE  RenderInv'
<1>0. RenderTypeOK /\ ShapeInv /\ ArrangedInv
  BY DEF RenderInv
<1>1. /\ at = "recreate" /\ gpu = <<>> /\ gpu' = gpu
      /\ bound' = Bindings
      /\ UNCHANGED <<draw_obj_data, render_order_dirty, render_order, pipe_data, z_touched,
                     capacity, shown>>
  BY DEF RecreateSwapchain, update_swapchain, objectVars
<1>2. Constructed /\ Constructed' /\ Len(gpu) = 0
  BY <1>0, <1>1 DEF ShapeInv, Constructed
<1>3. /\ allocated' \in [Kinds -> Nat]
      /\ \A kind \in Kinds \ {"atlas"} : allocated'[kind] = 1
  <2>1. allocated \in [Kinds -> Nat] /\ \A kind \in Kinds \ {"atlas"} : allocated[kind] = 1
    BY <1>0, <1>2 DEF RenderTypeOK, ShapeInv
  <2> DEFINE left == Destroyed({"pipeline", "sets"}, allocated)
  <2>2. /\ left \in [Kinds -> Nat]
        /\ \A kind \in {"vertex", "ubo", "ssbo"} : left[kind] = 1
        /\ \A kind \in {"pipeline", "sets"} : left[kind] = 0
    BY <2>1, Counted DEF Kinds
  <2>3. allocated' = Created({"pipeline", "sets"}, left)
    BY DEF update_swapchain, init_pipeline, destroy_pipeline
  <2> HIDE DEF left
  <2> QED
    BY <2>2, <2>3, Counted DEF Kinds
<1>4. Bindings \subseteq Kinds
  BY DEF Bindings, BufferBindings, Kinds
<1>5. RenderTypeOK'
  <2>1. ssbo' \in [Frames -> Seq([holds : Shown \cup {Unwritten}, valid : BOOLEAN])]
    BY <1>0, Invalidated DEF Slot
  <2>2. ubo' \in [Frames -> [holds : Shown \cup {Unwritten}, valid : BOOLEAN]]
    BY <1>0, Invalidated DEF Slot
  <2> QED
    BY <1>0, <1>1, <1>3, <1>4, <2>1, <2>2 DEF RenderTypeOK
<1>6. ShapeInv'
  <2>1. \A f \in Frames : Len(ssbo'[f]) = capacity'
    BY <1>0, <1>1, Invalidated
  <2> QED
    BY <1>0, <1>1, <1>2, <1>3, <2>1 DEF ShapeInv
<1>7. ArrangedInv'
  BY <1>0, <1>1 DEF ArrangedInv, Arranged
<1>8. FreshInv'
  BY <1>0, <1>1, Invalidated DEF FreshInv
<1>9. InFlightMemoryStable'
  BY <1>1, <1>2 DEF InFlightMemoryStable
<1> QED
  BY <1>5, <1>6, <1>7, <1>8, <1>9 DEF RenderInv

LEMMA CompletesStep ==
    ASSUME RenderInv, FrameSyncTypeOK', GpuCompletes, shown' = Tail(shown),
           UNCHANGED <<objectVars, bufferVars, ubo>>
    PROVE  RenderInv'
<1> DEFINE m == Len(gpu)
<1>0. RenderTypeOK /\ ShapeInv /\ ArrangedInv /\ FreshInv /\ InFlightMemoryStable
  BY DEF RenderInv
<1>1. /\ gpu # <<>> /\ gpu' = Tail(gpu)
      /\ UNCHANGED <<at, extent, draw_obj_data, render_order_dirty, render_order, pipe_data,
                     z_touched, allocated, bound, capacity, ssbo, ubo>>
  BY DEF GpuCompletes, objectVars, bufferVars
<1>2. gpu \in Seq(Job) /\ shown \in Seq(Snapshot) /\ Len(shown) = m /\ m \in Nat
  BY <1>0, PipelineTypes DEF ShapeInv
<1>3. /\ Len(gpu') = m - 1 /\ m >= 1
      /\ \A k \in 1..m - 1 : gpu'[k] = gpu[k + 1]
  BY <1>1, <1>2
<1>4. /\ shown' \in Seq(Snapshot) /\ Len(shown') = m - 1
      /\ \A k \in 1..m - 1 : shown'[k] = shown[k + 1]
  <2>1. shown # <<>>
    BY <1>2, <1>3
  <2> QED
    BY <1>2, <2>1
<1>5. RenderTypeOK'
  BY <1>0, <1>1, <1>4 DEF RenderTypeOK, Snapshot
<1>6. ShapeInv'
  <2>1. at = "idle" => Constructed
    BY <1>0, <1>1 DEF ShapeInv
  <2> QED
    BY <1>0, <1>1, <1>3, <1>4, <2>1 DEF ShapeInv, Constructed
<1>7. ArrangedInv'
  BY <1>0, <1>1 DEF ArrangedInv, Arranged
<1>8. FreshInv'
  BY <1>0, <1>1 DEF FreshInv
<1>9. InFlightMemoryStable'
  <2> SUFFICES ASSUME Constructed, NEW k \in 1..m - 1
               PROVE  shown'[k] = Reads(gpu'[k].frame, ssbo, ubo, bound, Len(shown'[k].slots))
    BY <1>1, <1>3 DEF InFlightMemoryStable, StillReads, Reads, Constructed
  <2>1. k + 1 \in 1..m
    BY <1>2
  <2>2. shown[k + 1] = Reads(gpu[k + 1].frame, ssbo, ubo, bound, Len(shown[k + 1].slots))
    BY <1>0, <2>1 DEF InFlightMemoryStable, StillReads
  <2> QED
    BY <1>3, <1>4, <2>2
<1> QED
  BY <1>5, <1>6, <1>7, <1>8, <1>9 DEF RenderInv

-----------------------------------------------------------------------------
(* The invariant holds.                                                    *)

LEMMA RenderInvInit ==
    ASSUME RenderInit, FrameSyncTypeOK
    PROVE  RenderInv
<1>1. FrameSyncTypeOK /\ at = "idle" /\ gpu = <<>> /\ Len(gpu) = 0
  BY DEF RenderInit, FrameInit
<1>2. /\ allocated = [kind \in Kinds |-> 0] /\ bound = {}
      /\ draw_obj_data = <<>> /\ render_order_dirty = FALSE /\ render_order = <<>>
      /\ capacity = 0 /\ ssbo = [f \in Frames |-> <<>>] /\ ubo = FreshUbos
      /\ shown = <<>> /\ Len(shown) = 0
  BY DEF RenderInit
<1>3. <<>> \in Seq(Slot) /\ <<>> \in Seq(Item) /\ <<>> \in Seq(Object)
      /\ <<>> \in Seq(Snapshot) /\ Len(<<>>) = 0
  BY EmptySeq
<1>4. pipe_data \in [camera : Cameras, need_update : BOOLEAN]
  BY DEF RenderInit
<1>5. ssbo \in [Frames -> Seq(Slot)] /\ \A f \in Frames : Len(ssbo[f]) = 0
  BY <1>2, <1>3
<1>6. ubo \in [Frames -> Slot] /\ \A f \in Frames : ~ubo[f].valid
  BY <1>2, FreshTypes
<1>7. RenderTypeOK
  <2>1. allocated \in [Kinds -> Nat] /\ bound \subseteq Kinds
    BY <1>2
  <2> QED
    BY <1>1, <1>2, <1>3, <1>4, <1>5, <1>6, <2>1 DEF RenderTypeOK, Slot, Item, Snapshot
<1>8. ShapeInv
  BY <1>1, <1>2, <1>5 DEF ShapeInv, Constructed
<1>9. ArrangedInv
  BY <1>2, <1>3 DEF ArrangedInv, Arranged
<1>10. FreshInv
  BY <1>2, <1>6 DEF FreshInv
<1>11. InFlightMemoryStable
  BY <1>1 DEF InFlightMemoryStable
<1> QED
  BY <1>7, <1>8, <1>9, <1>10, <1>11 DEF RenderInv

LEMMA RenderInvStep ==
    ASSUME RenderInv, FrameSyncTypeOK', NoReuseInFlight, [RenderNext]_renderVars
    PROVE  RenderInv'
<1>1. CASE construct_pipeline
  BY <1>1, ConstructStep
<1>2. CASE SceneStep
  <2>1. ASSUME NEW position \in 1..MaxObjects, NEW look \in Looks,
               add_new_draw_obj(position, look)
        PROVE  RenderInv'
    BY <2>1, AddStep
  <2>2. ASSUME NEW position \in 1..MaxObjects, NEW look \in Looks,
               access_draw_obj_data(position, look)
        PROVE  RenderInv'
    BY <2>2, AccessStep
  <2>3. ASSUME NEW position \in 1..MaxObjects, remove_draw_obj(position)
        PROVE  RenderInv'
    BY <2>3, RemoveStep
  <2>4. ASSUME NEW camera \in Cameras, access_pipeline_data(camera)
        PROVE  RenderInv'
    BY <2>4, CameraStep
  <2> QED
    BY <1>2, <2>1, <2>2, <2>3, <2>4 DEF SceneStep
<1>3. CASE RecordAndSubmit /\ draw_commands
  BY <1>3, DrawStep
<1>4. CASE \E size \in Sizes : RecreateSwapchain(size) /\ update_swapchain
  BY <1>4, RecreateStep
<1>5. CASE GpuCompletes /\ shown' = Tail(shown) /\ UNCHANGED <<objectVars, bufferVars, ubo>>
  BY <1>5, CompletesStep
<1>6. CASE cleanup
  BY <1>6, CleanupStep
<1>7. CASE /\ \/ Constructed /\ (BeginFrame(FALSE) \/ LeaveLoop)
              \/ EndFrame
              \/ WaitFence
              \/ \E i \in Images : AcquireSuccess(i) \/ AcquireSuboptimal(i)
              \/ AcquireFails
              \/ RecreateFails
              \/ ~Constructed /\ destroy
              \/ FrameRests
           /\ UNCHANGED pipeVars
  BY <1>7, FrameOnlyStep
<1>8. CASE UNCHANGED renderVars
  BY <1>8, FrameOnlyStep DEF renderVars
<1> QED
  BY <1>1, <1>2, <1>3, <1>4, <1>5, <1>6, <1>7, <1>8 DEF RenderNext

LEMMA RenderInvariant == RenderSpec => []RenderInv
<1>1. RenderInit /\ FrameSyncTypeOK => RenderInv
  BY RenderInvInit
<1>2. RenderInv /\ FrameSyncTypeOK' /\ NoReuseInFlight /\ [RenderNext]_renderVars => RenderInv'
  BY RenderInvStep
<1> QED
  BY <1>1, <1>2, RenderImplementsFrames, FrameTypeCorrect, NoReuse, PTL DEF RenderSpec

-----------------------------------------------------------------------------
(* What follows from it.                                                   *)

\* The pipeline's state is well typed: whatever was submitted was submitted with
\* buffers that had been written.
THEOREM RenderTypeCorrect == RenderSpec => []RenderTypeOK
<1>1. RenderInv => RenderTypeOK
  BY DEF RenderInv
<1> QED
  BY <1>1, RenderInvariant, PTL

\* While the pipeline exists, what a submission reads stays what it was when it was
\* submitted (object_2d_pipeline.h: one buffer per frame in flight, and a wait
\* before the buffers are resized).
THEOREM MemoryStable == RenderSpec => []InFlightMemoryStable
<1>1. RenderInv => InFlightMemoryStable
  BY DEF RenderInv
<1> QED
  BY <1>1, RenderInvariant, PTL

\* Only a frame that was drawn makes the GPU's queue longer.
LEMMA OnlyDrawingSubmits ==
    ASSUME RenderInv, [RenderNext]_renderVars, Len(gpu') > Len(gpu)
    PROVE  RecordAndSubmit /\ draw_commands
<1>1. gpu \in Seq(Job)
  BY PipelineTypes DEF RenderInv
<1>2. gpu' # gpu
  BY <1>1
<1>3. ~GpuCompletes
  <2> SUFFICES ASSUME GpuCompletes PROVE FALSE
    OBVIOUS
  <2>1. gpu # <<>> /\ gpu' = Tail(gpu)
    BY DEF GpuCompletes
  <2> QED
    BY <1>1, <2>1
<1>4. ~(construct_pipeline \/ SceneStep \/ cleanup)
  BY <1>2 DEF construct_pipeline, SceneStep, cleanup, add_new_draw_obj, remove_draw_obj,
              access_draw_obj_data, access_pipeline_data, frameVars, chainVars
<1>5. ~\E size \in Sizes : RecreateSwapchain(size)
  BY <1>2 DEF RecreateSwapchain
<1>6. ~(\/ BeginFrame(FALSE) \/ LeaveLoop \/ EndFrame \/ WaitFence
        \/ \E i \in Images : AcquireSuccess(i) \/ AcquireSuboptimal(i)
        \/ AcquireFails \/ RecreateFails \/ destroy \/ FrameRests)
  BY <1>2 DEF BeginFrame, LeaveLoop, EndFrame, WaitFence, AcquireSuccess, AcquireSuboptimal,
              AcquireFails, RecreateFails, destroy, FrameRests, frameVars, chainVars
<1>7. ~UNCHANGED renderVars
  BY <1>2 DEF renderVars, frameVars, chainVars
<1> QED
  BY <1>3, <1>4, <1>5, <1>6, <1>7 DEF RenderNext

\* The order of a drawn frame and the number of its objects.
LEMMA DrawnOrder ==
    ASSUME RenderInv, RecordAndSubmit, draw_commands
    PROVE  /\ Constructed /\ render_order' = OrderUsed /\ Arranged(OrderUsed)
           /\ shown' = Append(shown, Picture) /\ shown'[Len(shown')] = Picture
<1>1. Constructed
  BY DEF RenderInv, ShapeInv, RecordAndSubmit
<1>2. shown' = Append(shown, Picture) /\ Picture \in Snapshot
  BY <1>1, DrawnPicture DEF RenderInv, draw_commands
<1>3. shown'[Len(shown')] = Picture
  <2>1. shown \in Seq(Snapshot)
    BY PipelineTypes DEF RenderInv
  <2> HIDE DEF Picture
  <2> QED
    BY <1>2, <2>1, QueuePositions
<1> QED
  BY <1>1, <1>2, <1>3, DrawnArranged DEF RenderInv, draw_commands, update_object_memory

\* Every frame shows every object once and as it is now, the current camera, at the
\* current resolution, and the font (update_object_memory and update_pipe_frame
\* write one frame's buffer at a time).
THEOREM DrawnCurrent == RenderSpec => DrawnIsCurrent
<1>1. ASSUME RenderInv, [RenderNext]_renderVars, Len(gpu') > Len(gpu)
      PROVE  LET drawn == shown'[Len(shown')]
             IN  /\ {render_order'[k].index : k \in DOMAIN render_order'} = DOMAIN draw_obj_data
                 /\ drawn.slots = [k \in DOMAIN draw_obj_data |->
                      [value |-> draw_obj_data[render_order'[k].index].look.value,
                       size |-> extent]]
                 /\ drawn.camera = [value |-> pipe_data.camera, size |-> extent]
                 /\ drawn.texture = HasAtlas
  <2>1. RecordAndSubmit /\ draw_commands
    BY <1>1, OnlyDrawingSubmits
  <2>2. /\ render_order' = OrderUsed /\ Arranged(OrderUsed)
        /\ shown'[Len(shown')] = Picture
    BY <1>1, <2>1, DrawnOrder
  <2>3. DOMAIN draw_obj_data = 1..Len(draw_obj_data) /\ DOMAIN OrderUsed = 1..Len(draw_obj_data)
    BY <1>1, <2>2, PipelineTypes DEF RenderInv, Arranged
  <2>4. {OrderUsed[k].index : k \in DOMAIN OrderUsed} = DOMAIN draw_obj_data
    BY <2>2, <2>3 DEF Arranged
  <2>5. Picture.slots = [k \in DOMAIN draw_obj_data |->
          [value |-> draw_obj_data[OrderUsed[k].index].look.value, size |-> extent]]
    BY <2>3 DEF Picture, CurrentOf, ObjectOf
  <2>6. Picture.camera = [value |-> pipe_data.camera, size |-> extent]
        /\ Picture.texture = HasAtlas
    BY DEF Picture
  <2> QED
    BY <2>2, <2>4, <2>5, <2>6
<1> QED
  BY <1>1, RenderInvariant, PTL DEF RenderSpec, DrawnIsCurrent

\* A frame before which no z_order changed draws its objects from the lowest to the
\* highest, as rebuild_order or the order kept from the frame before has it.
THEOREM OrderLate == RenderSpec => OrderAtMostOneFrameLate
<1>1. ASSUME RenderInv, [RenderNext]_renderVars, Len(gpu') > Len(gpu), ~z_touched
      PROVE  \A k, l \in DOMAIN render_order' :
               k < l => draw_obj_data[render_order'[k].index].look.z
                          <= draw_obj_data[render_order'[l].index].look.z
  <2>1. render_order' = OrderUsed /\ Arranged(OrderUsed)
    BY <1>1, OnlyDrawingSubmits, DrawnOrder
  <2>2. DOMAIN OrderUsed = 1..Len(OrderUsed)
    BY <2>1 DEF Arranged
  <2>3. ASSUME NEW k \in 1..Len(OrderUsed)
        PROVE  draw_obj_data[OrderUsed[k].index].look.z = OrderUsed[k].order
    <3>1. CASE render_order_dirty
      BY <1>1, <3>1, DrawnArranged DEF RenderInv, ObjectOf
    <3>2. CASE ~render_order_dirty
      <4>1. OrderUsed = render_order
        BY <3>2 DEF OrderUsed
      <4> QED
        BY <1>1, <3>2, <4>1 DEF RenderInv, ArrangedInv
    <3> QED
      BY <3>1, <3>2
  <2>4. \A k, l \in 1..Len(OrderUsed) : k < l => OrderUsed[k].order <= OrderUsed[l].order
    BY <2>1 DEF Arranged
  <2> QED
    BY <2>1, <2>2, <2>3, <2>4
<1> QED
  BY <1>1, RenderInvariant, PTL DEF RenderSpec, OrderAtMostOneFrameLate

\* When the renderer is gone, every Vulkan object of the pipeline but the atlas has
\* been destroyed, after any number of resizes and swapchains (~object_2d_pipeline).
THEOREM AtlasOnly == RenderSpec => OnlyAtlasLeaks
<1>1. ASSUME RenderInv, [RenderNext]_renderVars, at = "leaving", at' = "ended"
      PROVE  \A kind \in Kinds \ {"atlas"} : allocated'[kind] = 0
  <2>1. ~(construct_pipeline \/ SceneStep \/ cleanup)
    BY <1>1 DEF construct_pipeline, SceneStep, cleanup, add_new_draw_obj, remove_draw_obj,
                access_draw_obj_data, access_pipeline_data, frameVars, chainVars
  <2>2. ~RecordAndSubmit /\ ~(\E size \in Sizes : RecreateSwapchain(size)) /\ ~GpuCompletes
    BY <1>1 DEF RecordAndSubmit, RecreateSwapchain, GpuCompletes
  <2>3. ~(\/ BeginFrame(FALSE) \/ LeaveLoop \/ EndFrame \/ WaitFence
          \/ \E i \in Images : AcquireSuccess(i) \/ AcquireSuboptimal(i)
          \/ AcquireFails \/ RecreateFails)
    BY <1>1 DEF BeginFrame, LeaveLoop, EndFrame, WaitFence, AcquireSuccess, AcquireSuboptimal,
                AcquireFails, RecreateFails
  <2>4. ~UNCHANGED renderVars /\ ~FrameRests
    BY <1>1 DEF renderVars, frameVars, chainVars, FrameRests
  <2>5. ~Constructed /\ UNCHANGED pipeVars
    BY <1>1, <2>1, <2>2, <2>3, <2>4 DEF RenderNext
  <2> QED
    BY <1>1, <2>5 DEF RenderInv, ShapeInv, pipeVars, bufferVars
<1> QED
  BY <1>1, RenderInvariant, PTL DEF RenderSpec, OnlyAtlasLeaks
=============================================================================
