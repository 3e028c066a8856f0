----------------------------- MODULE FrameSync -----------------------------
(***************************************************************************)
(* renderer::draw_frame: frames in flight, their fences and semaphores,    *)
(* the images of the swapchain, and the screenshot's staging buffer.  The  *)
(* logical thread records and submits; the GPU executes what it was given, *)
(* in order, and signals the fence of each submission.  Both go on at the  *)
(* same time, so draw_frame is split where it may block.                   *)
(*                                                                         *)
(* Around each call stands one iteration of the loop: a screenshot command *)
(* asks for the image before draw_frame and collects it afterwards.  When  *)
(* the loop has ended the renderer is destroyed.                           *)
(***************************************************************************)
EXTENDS Integers, Sequences, FiniteSets

CONSTANTS
    FramesInFlight,    \* k_frames_in_flight
    MinImageCount,     \* surface capability: what the presentation engine keeps
    MaxImageCount,     \* surface capability: 0 for no limit
    Sizes,             \* sizes, in pixels, that a framebuffer may have
    Headless,          \* the values of gl_window.expired() considered
    MaxSwapchains      \* bound: swapchains created in a run

ASSUME FramesAssumption == FramesInFlight \in Nat \ {0}
ASSUME SurfaceAssumption ==
    /\ MinImageCount \in Nat \ {0}
    /\ MaxImageCount \in Nat
    /\ MaxImageCount = 0 \/ MinImageCount <= MaxImageCount
ASSUME SizesAssumption == Sizes \subseteq Nat \ {0} /\ Sizes # {}
ASSUME HeadlessAssumption == Headless \subseteq BOOLEAN
ASSUME SwapchainsAssumption == MaxSwapchains \in Nat \ {0}

VARIABLES
    headless,         \* gl_window.expired()
    at,               \* where the logical thread is
    frame_index,
    frame_submitted,
    in_flight,        \* the fence of each frame: signalled or not
    image_available,  \* the semaphore of each frame: signalled (or about to be) or not
    swapchain,        \* the number of the swapchain, NoSwapchain for VK_NULL_HANDLE
    extent,           \* swapchain_extent
    owner,            \* who has each image
    image,            \* imageIndex
    gpu,              \* the submissions not yet executed
    shot_wanted,      \* this iteration executes a screenshot command
    shot,             \* screenshot_capture_requested, _data_ready, _staging_size
    swapchains,       \* history: swapchains created so far
    suboptimals,      \* history: images this swapchain lost to a suboptimal acquire
    late_capture      \* history: an image was captured by a frame that had not asked

syncVars == <<frame_index, frame_submitted, in_flight, image_available>>
chainVars == <<swapchain, extent, owner, image, swapchains, suboptimals>>
shotVars == <<shot_wanted, shot, late_capture>>
frameVars == <<headless, at, syncVars, chainVars, gpu, shotVars>>

Frames == 0..FramesInFlight - 1
NoSwapchain == 0

\* imageCount, as create_swapchain computes it.
ImageCount ==
    IF MaxImageCount > 0 /\ MinImageCount + 1 > MaxImageCount
    THEN MaxImageCount ELSE MinImageCount + 1

\* Offscreen images are indexed by the frame.
Images == 0..(IF ImageCount > FramesInFlight THEN ImageCount ELSE FramesInFlight) - 1

Layout == {"color_attachment", "transfer_src"}

Job == [frame : Frames, image : Images,
        copies : BOOLEAN,       \* the screenshot's copy to the staging buffer
        left_in : Layout,       \* the layout the commands leave the image in
        presented_from : Layout]  \* the old layout the present barrier states

\* The types of the renderer's state: the frame index and every image index stay
\* within the arrays they are used on.
FrameSyncTypeOK ==
    /\ headless \in BOOLEAN
    /\ at \in {"idle", "draw", "acquire", "recreate", "record", "returned", "leaving",
              "ended"}
    /\ frame_index \in Frames
    /\ frame_submitted \in [Frames -> BOOLEAN]
    /\ in_flight \in [Frames -> BOOLEAN]
    /\ image_available \in [Frames -> BOOLEAN]
    /\ swapchain \in 0..MaxSwapchains
    /\ extent \in Sizes
    /\ owner \in [Images -> {"engine", "app", "gpu"}]
    /\ image \in Images
    /\ gpu \in Seq(Job)
    /\ shot_wanted \in BOOLEAN
    /\ shot \in [requested : BOOLEAN, ready : BOOLEAN, staging : {0} \cup Sizes]
    /\ swapchains \in 1..MaxSwapchains
    /\ suboptimals \in Nat
    /\ late_capture \in BOOLEAN

\* create() succeeded.
FrameInit ==
    /\ headless \in Headless
    /\ at = "idle"
    /\ frame_index = 0
    /\ frame_submitted = [f \in Frames |-> FALSE]
    /\ in_flight = [f \in Frames |-> TRUE]
    /\ image_available = [f \in Frames |-> FALSE]
    /\ swapchain = 1
    /\ extent \in Sizes
    /\ owner = [i \in Images |-> "engine"]
    /\ image = 0
    /\ gpu = <<>>
    /\ shot_wanted = FALSE
    /\ shot = [requested |-> FALSE, ready |-> FALSE, staging |-> 0]
    /\ swapchains = 1
    /\ suboptimals = 0
    /\ late_capture = FALSE

-----------------------------------------------------------------------------
(* The iteration around draw_frame.                                        *)

request_screenshot == [shot EXCEPT !.requested = TRUE, !.ready = FALSE]

BeginFrame(wants_shot) ==
    /\ at = "idle"
    /\ at' = "draw"
    /\ shot_wanted' = wants_shot
    /\ shot' = IF wants_shot THEN request_screenshot ELSE shot
    /\ UNCHANGED <<headless, syncVars, chainVars, gpu, late_capture>>

\* Mutant: the image saved stays available.
EndFrame_keeps_image ==
    /\ at = "returned"
    /\ shot_wanted /\ shot.ready => gpu = <<>>
    /\ at' = "idle"
    /\ shot_wanted' = FALSE
    /\ UNCHANGED <<headless, syncVars, chainVars, gpu, shot, late_capture>>

\* execute_screenshot_save_png waits for the queue to be idle, if there is
\* anything to save.
EndFrame ==
    /\ at = "returned"
    /\ shot_wanted /\ shot.ready => gpu = <<>>
    /\ at' = "idle"
    /\ shot_wanted' = FALSE
    /\ shot' = IF shot_wanted THEN [shot EXCEPT !.ready = FALSE] ELSE shot
    /\ UNCHANGED <<headless, syncVars, chainVars, gpu, late_capture>>

-----------------------------------------------------------------------------
(* draw_frame.                                                             *)

\* Mutant: the fence is reset without waiting for it.
FrameFree_unchecked == TRUE

FrameFree == frame_submitted[frame_index] => in_flight[frame_index]

\* Mutant: the frame stays marked as submitted.
ResetFence_keeps_submitted ==
    /\ in_flight' = [in_flight EXCEPT ![frame_index] = FALSE]
    /\ UNCHANGED frame_submitted

ResetFence ==
    /\ in_flight' = [in_flight EXCEPT ![frame_index] = FALSE]
    /\ frame_submitted' = [frame_submitted EXCEPT ![frame_index] = FALSE]

\* Wait for the fence of the frame, if it was submitted, and reset it.
WaitFence ==
    /\ at = "draw"
    /\ headless \/ swapchain # NoSwapchain
    /\ FrameFree
    /\ ResetFence
    /\ at' = IF headless THEN "record" ELSE "acquire"
    /\ image' = IF headless THEN frame_index ELSE image
    /\ UNCHANGED <<headless, frame_index, image_available, swapchain, extent, owner,
                   swapchains, suboptimals, gpu, shotVars>>

\* vkAcquireNextImageKHR waits for an image as long as it takes.  The engine
\* only promises one while the application does not hold too many.
Held == {i \in Images : owner[i] = "app"}
MayAcquire(i) ==
    /\ i \in 0..ImageCount - 1
    /\ owner[i] = "engine"
    /\ Cardinality(Held) <= ImageCount - MinImageCount

Acquired(i) ==
    /\ MayAcquire(i)
    /\ owner' = [owner EXCEPT ![i] = "app"]
    /\ image_available' = [image_available EXCEPT ![frame_index] = TRUE]

AcquireSuccess(i) ==
    /\ at = "acquire"
    /\ Acquired(i)
    /\ image' = i
    /\ at' = "record"
    /\ UNCHANGED <<headless, frame_index, frame_submitted, in_flight, swapchain, extent,
                   swapchains, suboptimals, gpu, shotVars>>

\* VK_SUBOPTIMAL_KHR acquires the image too, but is not VK_SUCCESS: the frame
\* is given up with the image in hand and the semaphore signalled.
AcquireSuboptimal(i) ==
    /\ at = "acquire"
    /\ Acquired(i)
    /\ suboptimals' = suboptimals + 1
    /\ at' = "returned"
    /\ UNCHANGED <<headless, frame_index, frame_submitted, in_flight, swapchain, extent,
                   image, swapchains, gpu, shotVars>>

\* VK_ERROR_OUT_OF_DATE_KHR goes on to recreate_swapchain; of a minimised
\* window, and after any other error, the frame is given up.
AcquireFails ==
    /\ at = "acquire"
    /\ at' \in {"recreate", "returned"}
    /\ UNCHANGED <<headless, syncVars, chainVars, gpu, shotVars>>

\* Mutant: the semaphores outlive the swapchain.
RecreateSwapchain_keeps_semaphores(size) ==
    /\ at = "recreate"
    /\ gpu = <<>>
    /\ swapchains < MaxSwapchains
    /\ swapchain' = swapchains + 1
    /\ swapchains' = swapchains + 1
    /\ extent' = size
    /\ owner' = [i \in Images |-> "engine"]
    /\ in_flight' = [f \in Frames |-> TRUE]
    /\ suboptimals' = 0
    /\ at' = "returned"
    /\ UNCHANGED <<headless, frame_index, frame_submitted, image_available, image, gpu,
                   shotVars>>

\* Mutant: the swapchain is replaced under the GPU.
RecreateSwapchain_at_once(size) ==
    /\ at = "recreate"
    /\ swapchains < MaxSwapchains
    /\ swapchain' = swapchains + 1
    /\ swapchains' = swapchains + 1
    /\ extent' = size
    /\ owner' = [i \in Images |-> "engine"]
    /\ in_flight' = [f \in Frames |-> TRUE]
    /\ image_available' = [f \in Frames |-> FALSE]
    /\ suboptimals' = 0
    /\ at' = "returned"
    /\ UNCHANGED <<headless, frame_index, frame_submitted, image, gpu, shotVars>>

\* recreate_swapchain: everything is destroyed once the device is idle.  The
\* fences are created signalled, which is what the frames still marked as
\* submitted will wait for.
RecreateSwapchain(size) ==
    /\ at = "recreate"
    /\ gpu = <<>>
    /\ swapchains < MaxSwapchains
    /\ swapchain' = swapchains + 1
    /\ swapchains' = swapchains + 1
    /\ extent' = size
    /\ owner' = [i \in Images |-> "engine"]
    /\ in_flight' = [f \in Frames |-> TRUE]
    /\ image_available' = [f \in Frames |-> FALSE]
    /\ suboptimals' = 0
    /\ at' = "returned"
    /\ UNCHANGED <<headless, frame_index, frame_submitted, image, gpu, shotVars>>

\* create_swapchain or create_commands fails, which ray_log ends the process for.
RecreateFails ==
    /\ at = "recreate"
    /\ gpu = <<>>
    /\ swapchain' = NoSwapchain
    /\ at' = "ended"
    /\ UNCHANGED <<headless, syncVars, extent, owner, image, swapchains, suboptimals,
                   gpu, shotVars>>

\* tick_screenshot: a staging buffer too small for the image is replaced,
\* which may fail.  Returns the possible new values of shot.
Captures ==
    IF ~shot.requested THEN {shot}
    ELSE LET kept == [requested |-> FALSE, ready |-> TRUE, staging |-> shot.staging]
         IN  IF shot.staging >= extent THEN {kept}
             ELSE {[kept EXCEPT !.staging = extent],
                   [kept EXCEPT !.ready = FALSE, !.staging = 0]}

\* The layout that the present barrier takes the image to be in.
PresentedFrom(captured) ==
    IF captured.ready THEN "transfer_src" ELSE "color_attachment"

\* Mutant: the index runs past the last frame.
NextFrame_unbounded == frame_index + 1

NextFrame == (frame_index + 1) % FramesInFlight

\* Mutant: a frame that captures its image is not presented.
Presents_unless_captured(captured) ==
    IF headless \/ captured.ready THEN owner ELSE [owner EXCEPT ![image] = "gpu"]

\* vkQueuePresentKHR gives the image away, whatever its result.
Presents(captured) ==
    IF headless THEN owner ELSE [owner EXCEPT ![image] = "gpu"]

\* Record the commands, submit them with the frame's fence, present.
RecordAndSubmit ==
    /\ at = "record"
    /\ \E captured \in Captures :
         LET copies == shot.requested /\ captured.ready
         IN  /\ owner' = Presents(captured)
             /\ gpu' = Append(gpu,
                  [frame |-> frame_index, image |-> image, copies |-> copies,
                   left_in |-> IF copies THEN "transfer_src" ELSE "color_attachment",
                   presented_from |-> PresentedFrom(captured)])
             /\ shot' = captured
             /\ late_capture' = (late_capture \/ (copies /\ ~shot_wanted))
    /\ frame_submitted' = [frame_submitted EXCEPT ![frame_index] = TRUE]
    /\ frame_index' = NextFrame
    /\ at' = "returned"
    /\ UNCHANGED <<headless, in_flight, image_available, swapchain, extent, image,
                   swapchains, suboptimals, shot_wanted>>

-----------------------------------------------------------------------------
(* The end of the loop, and of the renderer.                               *)

\* The window was closed, the scene was told to shut down, or the thread to
\* stop: frames may still be executing.
LeaveLoop ==
    /\ at = "idle"
    /\ at' = "leaving"
    /\ UNCHANGED <<headless, syncVars, chainVars, gpu, shotVars>>

\* renderer::destroy waits for the device before anything goes.
destroy ==
    /\ at = "leaving"
    /\ gpu = <<>>
    /\ at' = "ended"
    /\ swapchain' = NoSwapchain
    /\ shot' = [shot EXCEPT !.staging = 0]
    /\ UNCHANGED <<headless, syncVars, extent, owner, image, swapchains, suboptimals,
                   gpu, shot_wanted, late_capture>>

\* The steps the thread takes by itself, and those that wait for an image or
\* for the device.
ThreadStep ==
    \/ \E wants_shot \in BOOLEAN : BeginFrame(wants_shot)
    \/ EndFrame
    \/ WaitFence
    \/ \E i \in Images : AcquireSuccess(i)
    \/ \E i \in Images : AcquireSuboptimal(i)
    \/ \E size \in Sizes : RecreateSwapchain(size)
    \/ RecreateFails
    \/ RecordAndSubmit
    \/ LeaveLoop
    \/ destroy

-----------------------------------------------------------------------------
\* The GPU executes the oldest submission: it waits for image_available, which
\* unsignals it, signals the fence, and the image goes to the presentation
\* engine.
GpuCompletes ==
    /\ gpu # <<>>
    /\ LET job == Head(gpu)
       IN  /\ in_flight' = [in_flight EXCEPT ![job.frame] = TRUE]
           /\ image_available' = IF headless THEN image_available
                                 ELSE [image_available EXCEPT ![job.frame] = FALSE]
           /\ owner' = IF headless THEN owner ELSE [owner EXCEPT ![job.image] = "engine"]
    /\ gpu' = Tail(gpu)
    /\ UNCHANGED <<headless, at, frame_index, frame_submitted, swapchain, extent, image,
                   swapchains, suboptimals, shotVars>>

\* The renderer is gone, or the process is.
FrameRests == at = "ended" /\ UNCHANGED frameVars

FrameNext == ThreadStep \/ AcquireFails \/ GpuCompletes \/ FrameRests

FrameSpec == FrameInit /\ [][FrameNext]_frameVars

\* The thread is scheduled and the GPU makes progress.  That an acquire fails
\* is nothing to count on.
FrameFairSpec == FrameSpec /\ WF_frameVars(ThreadStep) /\ WF_frameVars(GpuCompletes)

-----------------------------------------------------------------------------
(* Properties.                                                             *)

InQueue == {gpu[k] : k \in 1..Len(gpu)}

\* While a frame is recorded, nothing the GPU still has to execute uses its
\* command buffer, its descriptor set or its host-visible buffers.
NoReuseInFlight ==
    at = "record" => \A job \in InQueue : job.frame # frame_index

\* draw_frame always comes back: no wait is for a fence that nothing will
\* signal, whichever frames were given up between a reset and a submit.  Only
\* images leaked by suboptimal acquires can leave it waiting for an image.
DrawFrameReturns ==
    at = "draw" ~> (at \in {"returned", "ended"} \/ suboptimals > 0)

\* A semaphore handed to vkAcquireNextImageKHR is unsignalled, unless this
\* swapchain gave up a suboptimal image.
AcquireSemaphoreFree ==
    at = "acquire" /\ suboptimals = 0 => ~image_available[frame_index]

\* The images in the application's hands are the one being recorded and those
\* leaked by suboptimal acquires: no other failure leaks one.
ImagesAccounted ==
    ~headless /\ swapchain # NoSwapchain =>
        Cardinality(Held) = suboptimals + (IF at = "record" THEN 1 ELSE 0)

\* A staging buffer is not replaced while a submission still copies into it:
\* it is only too small after a new swapchain, for which the device was idle.
StagingNotInUse ==
    [][shot'.staging # shot.staging => \A job \in InQueue : ~job.copies]_frameVars

\* The present barrier states the layout the image is in, as long as every
\* captured image was asked for by the frame that captured it.
PresentLayoutTrue ==
    ~late_capture => \A job \in InQueue : ~headless => job.presented_from = job.left_in
=============================================================================
