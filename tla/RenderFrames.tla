---------------------------- MODULE RenderFrames ----------------------------
(***************************************************************************)
(* An object_2d_pipeline drawn by FrameSync's frames, from the scene's     *)
(* init to its cleanup: the Vulkan objects it creates and destroys, the    *)
(* draw objects of the scene, their render order, and the host-visible     *)
(* buffers (one per frame in flight) that the CPU writes and the GPU reads *)
(* through the descriptor sets.                                            *)
(*                                                                         *)
(* Objects are told apart by their position in draw_obj_data; the ids that *)
(* give them that position are the subject of Pipelines, so an object is   *)
(* inserted and removed at any position here.                              *)
(***************************************************************************)
EXTENDS FrameSync, SequencesExt

CONSTANTS
    InitCapacity,    \* k_init_graphic_object_capacity
    MaxObjects,      \* bound: objects alive at a time
    HasAtlas,        \* the pipeline is a glyph_pipeline, which has a texture too
    Looks,           \* the z_order and the value (all else) an object may have
    Cameras          \* the camera transforms

ASSUME ObjectsAssumption ==
    /\ InitCapacity \in Nat \ {0}
    /\ MaxObjects \in Nat
    /\ HasAtlas \in BOOLEAN
    /\ Looks \subseteq [z : Nat, value : Nat \ {0}]
    /\ Cameras \subseteq Nat \ {0} /\ Cameras # {}

VARIABLES
    allocated,            \* how many Vulkan objects of each kind the pipeline owns
    bound,                \* what the descriptor sets point to and still exists
    draw_obj_data,        \* z_order, value and need_update of each object
    render_order_dirty,
    render_order,         \* index and render_order of each slot
    capacity,
    ssbo,                 \* per frame: the slots written, with their validity
    pipe_data,            \* the camera and need_update
    ubo,                  \* per frame: the camera written, with its validity
    shown,                \* history: what the buffers held at each submission in gpu
    z_touched             \* history: a z_order changed since the last draw_commands

objectVars == <<draw_obj_data, render_order_dirty, render_order, pipe_data, z_touched>>
bufferVars == <<allocated, bound, capacity, ssbo>>
pipeVars == <<objectVars, bufferVars, ubo, shown>>
renderVars == <<frameVars, pipeVars>>

\* "pipeline" stands for the pipeline and its layout, "sets" for the descriptor
\* sets with their pool and layout, "vertex" for the vertex and the index buffer,
\* "atlas" for the image of the font with its memory, view and sampler.
Kinds == {"vertex", "ubo", "ssbo", "atlas", "pipeline", "sets"}

\* There is a pipeline: its buffers have room from its construction on.
Constructed == capacity > 0

Object == [look : Looks, need_update : BOOLEAN]

\* What shaders read depends on the object and on the resolution it was
\* converted for.  A slot never written holds whatever the memory held.
Shown == [value : Cameras \cup {look.value : look \in Looks}, size : Sizes]
Unwritten == [value |-> 0, size |-> 0]

\* The types of the pipeline's state: whatever was submitted was submitted with
\* buffers that had been written (shown holds no Unwritten slot).
RenderTypeOK ==
    /\ FrameSyncTypeOK
    /\ allocated \in [Kinds -> Nat]
    /\ bound \subseteq Kinds
    /\ draw_obj_data \in Seq(Object)
    /\ render_order_dirty \in BOOLEAN
    /\ render_order \in Seq([index : Nat \ {0}, order : Nat])
    /\ capacity \in Nat
    /\ ssbo \in [Frames -> Seq([holds : Shown \cup {Unwritten}, valid : BOOLEAN])]
    /\ pipe_data \in [camera : Cameras, need_update : BOOLEAN]
    /\ ubo \in [Frames -> [holds : Shown \cup {Unwritten}, valid : BOOLEAN]]
    /\ shown \in Seq([slots : Seq(Shown), camera : Shown, texture : BOOLEAN])

-----------------------------------------------------------------------------
(* The Vulkan objects of the pipeline.  A failure to create one ends the   *)
(* process.                                                                *)

\* create_buffer, or any other vkCreate: a new handle replaces the old one.
Created(kinds, count) ==
    [kind \in Kinds |-> count[kind] + IF kind \in kinds THEN 1 ELSE 0]

\* A handle is destroyed if there is one.
Destroyed(kinds, count) ==
    [kind \in Kinds |->
        IF kind \in kinds /\ count[kind] > 0 THEN count[kind] - 1 ELSE count[kind]]

\* What a shader is given: a uniform and a storage buffer ...
BufferBindings == {"ubo", "ssbo"}

\* ... and of a glyph_pipeline the font.
Bindings == BufferBindings \cup IF HasAtlas THEN {"atlas"} ELSE {}

\* glyph_pipeline's override; the upload through a staging buffer is over, and
\* the staging buffer gone, when it returns.
create_atlas_texture(count) == IF HasAtlas THEN Created({"atlas"}, count) ELSE count

create_buffers(count) == create_atlas_texture(Created({"vertex", "ubo", "ssbo"}, count))

\* Called by ~object_2d_pipeline, in which glyph_pipeline's override of
\* destroy_graphical_buffers is not reached any more: the atlas stays.
destroy_buffers(count) == Destroyed({"vertex", "ubo", "ssbo"}, count)

\* init_pipeline and the init_descriptor_sets it begins with.
init_pipeline(count) == Created({"pipeline", "sets"}, count)

destroy_pipeline(count) == Destroyed({"pipeline", "sets"}, count)

\* Memory just mapped, none of it written.
FreshBuffer(n) == [k \in 1..n |-> [holds |-> Unwritten, valid |-> FALSE]]
FreshUbos == [f \in Frames |-> [holds |-> Unwritten, valid |-> FALSE]]

\* The renderer exists, the scene has not been initialised.
RenderInit ==
    /\ FrameInit
    /\ allocated = [kind \in Kinds |-> 0]
    /\ bound = {}
    /\ draw_obj_data = <<>>
    /\ render_order_dirty = FALSE
    /\ render_order = <<>>
    /\ capacity = 0
    /\ ssbo = [f \in Frames |-> <<>>]
    /\ \E camera \in Cameras : pipe_data = [camera |-> camera, need_update |-> TRUE]
    /\ ubo = FreshUbos
    /\ shown = <<>>
    /\ z_touched = FALSE

\* In the scene's init; the swapchain's format is already known.  The objects
\* come later.
construct_pipeline ==
    /\ at = "idle"
    /\ ~Constructed
    /\ allocated' = init_pipeline(create_buffers(allocated))
    /\ bound' = Bindings
    /\ capacity' = InitCapacity
    /\ ssbo' = [f \in Frames |-> FreshBuffer(InitCapacity)]
    /\ ubo' = FreshUbos
    /\ UNCHANGED <<frameVars, objectVars, shown>>

\* The scene's cleanup, after the loop: destroy_pipeline drops the last
\* reference, and ~object_2d_pipeline waits for nobody.
cleanup ==
    /\ at = "leaving"
    /\ Constructed
    /\ allocated' = destroy_buffers(destroy_pipeline(allocated))
    /\ bound' = {}
    /\ capacity' = 0
    /\ ssbo' = [f \in Frames |-> <<>>]
    /\ ubo' = FreshUbos
    /\ draw_obj_data' = <<>>
    /\ render_order_dirty' = FALSE
    /\ render_order' = <<>>
    /\ UNCHANGED <<frameVars, pipe_data, shown, z_touched>>

-----------------------------------------------------------------------------
(* The scene's part of an iteration: logic->tick, before draw_frame.       *)

SceneTicks == at = "idle" /\ Constructed

\* Mutant: the buffers are replaced under the GPU.
ResizeTo_at_once(new_capacity) ==
    /\ capacity' = new_capacity
    /\ ssbo' = [f \in Frames |-> FreshBuffer(new_capacity)]
    /\ allocated' = Created({"ssbo"}, Destroyed({"ssbo"}, allocated))
    /\ bound' = bound \cup {"ssbo"}

\* resize_capacity_draw_obj_ssbo_buffers: waits for the device, drops the
\* buffers with what they held, and points the descriptor sets to the new ones.
ResizeTo(new_capacity) ==
    /\ gpu = <<>>
    /\ capacity' = new_capacity
    /\ ssbo' = [f \in Frames |-> FreshBuffer(new_capacity)]
    /\ allocated' = Created({"ssbo"}, Destroyed({"ssbo"}, allocated))
    /\ bound' = bound \cup {"ssbo"}

KeepBuffers == UNCHANGED bufferVars

\* Mutant: the capacity is compared with the size before the insertion.
add_new_draw_obj_grows_late(position, look) ==
    /\ SceneTicks
    /\ Len(draw_obj_data) < MaxObjects
    /\ position \in 1..Len(draw_obj_data) + 1
    /\ draw_obj_data' = InsertAt(draw_obj_data, position,
                                 [look |-> look, need_update |-> TRUE])
    /\ render_order_dirty' = TRUE
    /\ IF capacity < Len(draw_obj_data) THEN ResizeTo(2 * capacity) ELSE KeepBuffers
    /\ z_touched' = TRUE
    /\ UNCHANGED <<frameVars, render_order, pipe_data, ubo, shown>>

\* create_draw_obj, and the first values the scene gives the object.
add_new_draw_obj(position, look) ==
    /\ SceneTicks
    /\ Len(draw_obj_data) < MaxObjects
    /\ position \in 1..Len(draw_obj_data) + 1
    /\ draw_obj_data' = InsertAt(draw_obj_data, position,
                                 [look |-> look, need_update |-> TRUE])
    /\ render_order_dirty' = TRUE
    /\ IF capacity < Len(draw_obj_data) + 1 THEN ResizeTo(2 * capacity) ELSE KeepBuffers
    /\ z_touched' = TRUE
    /\ UNCHANGED <<frameVars, render_order, pipe_data, ubo, shown>>

OptimizedCapacity ==
    IF capacity \div 2 > InitCapacity THEN capacity \div 2 ELSE InitCapacity

remove_draw_obj(position) ==
    /\ SceneTicks
    /\ position \in 1..Len(draw_obj_data)
    /\ draw_obj_data' = RemoveAt(draw_obj_data, position)
    /\ render_order_dirty' = TRUE
    /\ IF OptimizedCapacity >= Len(draw_obj_data) - 1
       THEN ResizeTo(OptimizedCapacity) ELSE KeepBuffers
    /\ UNCHANGED <<frameVars, render_order, pipe_data, ubo, shown, z_touched>>

\* access_draw_obj_data, and what the scene writes through it.
access_draw_obj_data(position, look) ==
    /\ SceneTicks
    /\ position \in 1..Len(draw_obj_data)
    /\ draw_obj_data' = [draw_obj_data EXCEPT ![position] =
                            [look |-> look, need_update |-> TRUE]]
    /\ z_touched' = (z_touched \/ look.z # draw_obj_data[position].look.z)
    /\ UNCHANGED <<frameVars, render_order_dirty, render_order, pipe_data, bufferVars,
                   ubo, shown>>

access_pipeline_data(camera) ==
    /\ SceneTicks
    /\ pipe_data' = [camera |-> camera, need_update |-> TRUE]
    /\ UNCHANGED <<frameVars, draw_obj_data, render_order_dirty, render_order, z_touched,
                   bufferVars, ubo, shown>>

-----------------------------------------------------------------------------
(* draw_commands, for the frame being recorded.                            *)

\* rebuild_order: a stable sort by z_order.
DrawnBefore(i, j) ==
    \/ draw_obj_data[i].look.z < draw_obj_data[j].look.z
    \/ draw_obj_data[i].look.z = draw_obj_data[j].look.z /\ i < j

Rank(i) == 1 + Cardinality({j \in DOMAIN draw_obj_data : DrawnBefore(j, i)})

RebuiltOrder ==
    [k \in DOMAIN draw_obj_data |->
        LET i == CHOOSE j \in DOMAIN draw_obj_data : Rank(j) = k
        IN  [index |-> i, order |-> draw_obj_data[i].look.z]]

OrderUsed == IF render_order_dirty THEN RebuiltOrder ELSE render_order

\* The object drawn from a slot.
ObjectOf(k) == draw_obj_data[OrderUsed[k].index]

NeedsUpdate(k) == render_order_dirty \/ ObjectOf(k).need_update

\* Mutant: the other frames' copies of a changed object stay valid.
SlotAfter_this_frame_only(f, k) ==
    LET old == ssbo[f][k]
    IN  IF k <= Len(OrderUsed) /\ f = frame_index /\ (NeedsUpdate(k) \/ ~old.valid)
        THEN [holds |-> [value |-> ObjectOf(k).look.value, size |-> extent], valid |-> TRUE]
        ELSE old

\* update_object_memory, slot by slot: what the scene changed is written to
\* this frame's buffer and invalidated in the others', what was invalidated
\* by an earlier frame is written now.
SlotAfter(f, k) ==
    LET old == ssbo[f][k]
    IN  IF k > Len(OrderUsed) THEN old
        ELSE IF f = frame_index /\ (NeedsUpdate(k) \/ ~old.valid)
        THEN [holds |-> [value |-> ObjectOf(k).look.value, size |-> extent], valid |-> TRUE]
        ELSE [old EXCEPT !.valid = @ /\ (f = frame_index \/ ~NeedsUpdate(k))]

\* Mutant: a changed z_order goes unnoticed.
update_object_memory_keeps_order ==
    /\ ssbo' = [f \in Frames |-> [k \in 1..capacity |-> SlotAfter(f, k)]]
    /\ draw_obj_data' = [i \in DOMAIN draw_obj_data |->
                            [draw_obj_data[i] EXCEPT !.need_update = FALSE]]
    /\ render_order' = OrderUsed
    /\ render_order_dirty' = FALSE

update_object_memory ==
    /\ ssbo' = [f \in Frames |-> [k \in 1..capacity |-> SlotAfter(f, k)]]
    /\ draw_obj_data' = [i \in DOMAIN draw_obj_data |->
                            [draw_obj_data[i] EXCEPT !.need_update = FALSE]]
    /\ render_order' = OrderUsed
    /\ render_order_dirty' =
         (/\ ~render_order_dirty
          /\ \E k \in DOMAIN OrderUsed :
               /\ NeedsUpdate(k) \/ ~ssbo[frame_index][k].valid
               /\ ObjectOf(k).look.z # OrderUsed[k].order)

UpdateCamera ==
    /\ ubo' = [f \in Frames |->
         IF f = frame_index
         THEN IF pipe_data.need_update \/ ~ubo[f].valid
              THEN [holds |-> [value |-> pipe_data.camera, size |-> extent], valid |-> TRUE]
              ELSE ubo[f]
         ELSE [ubo[f] EXCEPT !.valid = @ /\ ~pipe_data.need_update]]
    /\ pipe_data' = [pipe_data EXCEPT !.need_update = FALSE]

\* What the GPU finds behind the descriptor set of a frame.
Reads(f, slots, cameras, sets, count) ==
    [slots |-> [k \in 1..count |->
        IF "ssbo" \in sets /\ k <= Len(slots[f]) THEN slots[f][k].holds ELSE Unwritten],
     camera |-> IF "ubo" \in sets THEN cameras[f].holds ELSE Unwritten,
     texture |-> "atlas" \in sets]

draw_commands ==
    /\ UpdateCamera
    /\ update_object_memory
    /\ shown' = Append(shown, Reads(frame_index, ssbo', ubo', bound, Len(OrderUsed)))
    /\ z_touched' = FALSE
    /\ UNCHANGED <<allocated, bound, capacity>>

\* Mutant: the old pipeline and descriptor sets are not destroyed.
update_swapchain_keeps_pipeline ==
    /\ allocated' = init_pipeline(allocated)
    /\ bound' = Bindings
    /\ ssbo' = [f \in Frames |-> [k \in 1..capacity |-> [ssbo[f][k] EXCEPT !.valid = FALSE]]]
    /\ ubo' = [f \in Frames |-> [ubo[f] EXCEPT !.valid = FALSE]]
    /\ UNCHANGED <<objectVars, capacity, shown>>

\* renderer_set_swapchain_format reaches every pipeline: it is built anew, with
\* new descriptor sets for the old buffers, in which all is invalid.
update_swapchain ==
    /\ allocated' = init_pipeline(destroy_pipeline(allocated))
    /\ bound' = Bindings
    /\ ssbo' = [f \in Frames |-> [k \in 1..capacity |-> [ssbo[f][k] EXCEPT !.valid = FALSE]]]
    /\ ubo' = [f \in Frames |-> [ubo[f] EXCEPT !.valid = FALSE]]
    /\ UNCHANGED <<objectVars, capacity, shown>>

-----------------------------------------------------------------------------
SceneStep ==
    \/ \E position \in 1..MaxObjects, look \in Looks :
         \/ add_new_draw_obj(position, look)
         \/ access_draw_obj_data(position, look)
    \/ \E position \in 1..MaxObjects : remove_draw_obj(position)
    \/ \E camera \in Cameras : access_pipeline_data(camera)

\* The loop runs between the scene's init and its cleanup; the renderer's
\* destructor comes last.
RenderNext ==
    \/ construct_pipeline
    \/ SceneStep
    \/ RecordAndSubmit /\ draw_commands
    \/ \E size \in Sizes : RecreateSwapchain(size) /\ update_swapchain
    \/ GpuCompletes /\ shown' = Tail(shown) /\ UNCHANGED <<objectVars, bufferVars, ubo>>
    \/ cleanup
    \/ /\ \/ Constructed /\ (BeginFrame(FALSE) \/ LeaveLoop)
          \/ EndFrame
          \/ WaitFence
          \/ \E i \in Images : AcquireSuccess(i) \/ AcquireSuboptimal(i)
          \/ AcquireFails
          \/ RecreateFails
          \/ ~Constructed /\ destroy
          \/ FrameRests
       /\ UNCHANGED pipeVars

RenderSpec == RenderInit /\ [][RenderNext]_renderVars

-----------------------------------------------------------------------------
(* Properties.                                                             *)

\* The n-th submission still finds what it was submitted with.
StillReads(n) ==
    shown[n] = Reads(gpu[n].frame, ssbo, ubo, bound, Len(shown[n].slots))

\* What a submission reads is still, while it executes, what was in the
\* buffers when it was submitted: no tick, no later frame, no growth or
\* shrinking of the buffers and no new swapchain changes memory in use.
InFlightMemoryStable == Constructed => \A n \in 1..Len(gpu) : StillReads(n)

\* What resize_capacity_draw_obj_ssbo_buffers waits for ("Safe + dumb."): no
\* buffer, descriptor set or texture goes while a submission still reads it --
\* the scene's cleanup included.
NothingInUseDestroyed == \A n \in 1..Len(gpu) : StillReads(n)

\* Every frame shows every object once and as it is now, and the current
\* camera, at the current resolution -- though an update is written to one
\* frame's buffer at a time, the buffers are reused by slot and replaced as
\* objects come and go, and the descriptor sets are rebuilt with the swapchain.
DrawnIsCurrent ==
    [][Len(gpu') > Len(gpu) =>
        LET drawn == shown'[Len(shown')]
        IN  /\ {render_order'[k].index : k \in DOMAIN render_order'} = DOMAIN draw_obj_data
            /\ drawn.slots = [k \in DOMAIN draw_obj_data |->
                 [value |-> draw_obj_data[render_order'[k].index].look.value, size |-> extent]]
            /\ drawn.camera = [value |-> pipe_data.camera, size |-> extent]
            /\ drawn.texture = HasAtlas]_renderVars

\* A changed z_order is at most one frame late: a frame before which no
\* z_order changed draws its objects from the lowest to the highest.
OrderAtMostOneFrameLate ==
    [][Len(gpu') > Len(gpu) /\ ~z_touched =>
        \A k, l \in DOMAIN render_order' :
            k < l => draw_obj_data[render_order'[k].index].look.z
                       <= draw_obj_data[render_order'[l].index].look.z]_renderVars

\* When the renderer is gone, every Vulkan object of the pipeline has been
\* destroyed, however often its buffers were resized and the swapchain was
\* recreated: no handle was overwritten while it was alive.  Only the atlas of a
\* glyph_pipeline is left, which ~object_2d_pipeline does not reach.
OnlyAtlasLeaks ==
    [][at = "leaving" /\ at' = "ended"
        => \A kind \in Kinds \ {"atlas"} : allocated'[kind] = 0]_renderVars
=============================================================================
