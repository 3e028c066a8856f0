--------------------------- MODULE FrameSyncProofs ---------------------------
(***************************************************************************)
(* Proofs about FrameSync, for any number of frames in flight, any surface *)
(* capabilities and any framebuffer sizes: its type invariant, and that a  *)
(* frame's command buffer and its host-visible memory are never reused     *)
(* while the GPU still has to execute a submission that reads them; and,   *)
(* as far as it is a matter of safety, that draw_frame returns.            *)
(***************************************************************************)
EXTENDS FrameSync, FiniteSetTheorems, FunctionTheorems, TLAPS

-----------------------------------------------------------------------------
(* The operators the type invariant rests on.                              *)

\* Every frame has an offscreen image, and imageCount images exist at least.
LEMMA ImagesRange ==
    /\ ImageCount \in Nat \ {0}
    /\ Frames \subseteq Images
    /\ 0 \in Images
<1>1. ImageCount \in Nat \ {0}
  BY SurfaceAssumption DEF ImageCount
<1>2. Frames \subseteq Images
  BY <1>1, FramesAssumption DEF Frames, Images
<1>3. 0 \in Images
  BY <1>2, FramesAssumption DEF Frames
<1> QED
  BY <1>1, <1>2, <1>3

\* The index of the next frame stays within the frames in flight.
LEMMA NextFrameInRange ==
    ASSUME frame_index \in Frames
    PROVE  NextFrame \in Frames
  BY FramesAssumption DEF NextFrame, Frames

\* What tick_screenshot leaves behind is a screenshot state again.
LEMMA CapturesType ==
    ASSUME shot \in [requested : BOOLEAN, ready : BOOLEAN, staging : {0} \cup Sizes],
           extent \in Sizes,
           NEW captured \in Captures
    PROVE  captured \in [requested : BOOLEAN, ready : BOOLEAN, staging : {0} \cup Sizes]
<1>1. CASE ~shot.requested
  BY <1>1 DEF Captures
<1>2. CASE shot.requested
  <2> DEFINE kept == [requested |-> FALSE, ready |-> TRUE, staging |-> shot.staging]
  <2>1. captured \in {kept, [kept EXCEPT !.staging = extent],
                     [kept EXCEPT !.ready = FALSE, !.staging = 0]}
    BY <1>2, Zenon DEF Captures
  <2>2. kept \in [requested : BOOLEAN, ready : BOOLEAN, staging : {0} \cup Sizes]
    OBVIOUS
  <2> HIDE DEF kept
  <2> QED
    BY <2>1, <2>2
<1> QED
  BY <1>1, <1>2

-----------------------------------------------------------------------------
\* Every variable of draw_frame keeps its type: no frame index, image index or
\* screenshot state outside its range is ever computed.
THEOREM FrameTypeCorrect == FrameSpec => []FrameSyncTypeOK
<1>1. FrameInit => FrameSyncTypeOK
  <2> HAVE FrameInit
  <2>1. /\ headless \in BOOLEAN
        /\ frame_index \in Frames
        /\ swapchain \in 0..MaxSwapchains
        /\ swapchains \in 1..MaxSwapchains
    BY FramesAssumption, SwapchainsAssumption, HeadlessAssumption DEF FrameInit, Frames
  <2>2. /\ owner \in [Images -> {"engine", "app", "gpu"}]
        /\ image \in Images
    BY ImagesRange DEF FrameInit
  <2>3. /\ frame_submitted \in [Frames -> BOOLEAN]
        /\ in_flight \in [Frames -> BOOLEAN]
        /\ image_available \in [Frames -> BOOLEAN]
    BY DEF FrameInit
  <2>4. shot \in [requested : BOOLEAN, ready : BOOLEAN, staging : {0} \cup Sizes]
    BY DEF FrameInit
  <2> QED
    BY <2>1, <2>2, <2>3, <2>4 DEF FrameInit, FrameSyncTypeOK
<1>2. FrameSyncTypeOK /\ [FrameNext]_frameVars => FrameSyncTypeOK'
  <2> SUFFICES ASSUME FrameSyncTypeOK, [FrameNext]_frameVars
               PROVE  FrameSyncTypeOK'
    OBVIOUS
  <2> USE DEF FrameSyncTypeOK
  <2>1. ASSUME NEW wants_shot \in BOOLEAN, BeginFrame(wants_shot)
        PROVE  FrameSyncTypeOK'
    BY <2>1 DEF BeginFrame, request_screenshot, syncVars, chainVars
  <2>2. CASE EndFrame
    BY <2>2 DEF EndFrame, syncVars, chainVars
  <2>3. CASE LeaveLoop
    BY <2>3 DEF LeaveLoop, syncVars, chainVars, shotVars
  <2>4. CASE WaitFence
    BY <2>4, ImagesRange DEF WaitFence, ResetFence, shotVars
  <2>5. ASSUME NEW i \in Images, AcquireSuccess(i)
        PROVE  FrameSyncTypeOK'
    BY <2>5 DEF AcquireSuccess, Acquired, shotVars
  <2>6. ASSUME NEW i \in Images, AcquireSuboptimal(i)
        PROVE  FrameSyncTypeOK'
    BY <2>6 DEF AcquireSuboptimal, Acquired, shotVars
  <2>7. CASE AcquireFails
    BY <2>7 DEF AcquireFails, syncVars, chainVars, shotVars
  <2>8. ASSUME NEW size \in Sizes, RecreateSwapchain(size)
        PROVE  FrameSyncTypeOK'
    BY <2>8, SwapchainsAssumption DEF RecreateSwapchain, shotVars
  <2>9. CASE RecreateFails
    BY <2>9, SwapchainsAssumption DEF RecreateFails, NoSwapchain, syncVars, shotVars
  <2>10. CASE RecordAndSubmit
    <3>1. PICK captured \in Captures :
            /\ owner' = Presents(captured)
            /\ gpu' = Append(gpu,
                 [frame |-> frame_index, image |-> image,
                  copies |-> shot.requested /\ captured.ready,
                  left_in |-> IF shot.requested /\ captured.ready
                              THEN "transfer_src" ELSE "color_attachment",
                  presented_from |-> PresentedFrom(captured)])
            /\ shot' = captured
            /\ late_capture' = (late_capture
                                 \/ (shot.requested /\ captured.ready /\ ~shot_wanted))
      BY <2>10 DEF RecordAndSubmit
    <3>2. owner' \in [Images -> {"engine", "app", "gpu"}]
      BY <3>1 DEF Presents
    <3>3. gpu' \in Seq(Job)
      <4>1. [frame |-> frame_index, image |-> image,
             copies |-> shot.requested /\ captured.ready,
             left_in |-> IF shot.requested /\ captured.ready
                         THEN "transfer_src" ELSE "color_attachment",
             presented_from |-> PresentedFrom(captured)] \in Job
        BY CapturesType DEF Job, Layout, PresentedFrom
      <4> QED
        BY <3>1, <4>1
    <3>4. shot' \in [requested : BOOLEAN, ready : BOOLEAN, staging : {0} \cup Sizes]
      BY <3>1, CapturesType
    <3>5. frame_index' \in Frames
      BY <2>10, NextFrameInRange DEF RecordAndSubmit
    <3>6. late_capture' \in BOOLEAN
      BY <3>1
    <3> QED
      BY <2>10, <3>2, <3>3, <3>4, <3>5, <3>6 DEF RecordAndSubmit
  <2>11. CASE GpuCompletes
    <3>1. Head(gpu) \in Job /\ Tail(gpu) \in Seq(Job)
      BY <2>11 DEF GpuCompletes
    <3> QED
      BY <2>11, <3>1 DEF GpuCompletes, Job, shotVars
  <2>12. CASE FrameRests
    BY <2>12 DEF FrameRests, frameVars, syncVars, chainVars, shotVars
  <2>13. CASE UNCHANGED frameVars
    BY <2>13 DEF frameVars, syncVars, chainVars, shotVars
  <2>14. CASE destroy
    BY <2>14, SwapchainsAssumption DEF destroy, NoSwapchain, syncVars
  <2> QED
    BY <2>1, <2>2, <2>3, <2>4, <2>5, <2>6, <2>7, <2>8, <2>9, <2>10, <2>11, <2>12, <2>13,
       <2>14
       DEF FrameNext, ThreadStep
<1> QED
  BY <1>1, <1>2, PTL DEF FrameSpec

-----------------------------------------------------------------------------
(* The submission that a frame records, and the two ends of the queue.     *)

Submission(captured) ==
    [frame |-> frame_index, image |-> image,
     copies |-> shot.requested /\ captured.ready,
     left_in |-> IF shot.requested /\ captured.ready
                 THEN "transfer_src" ELSE "color_attachment",
     presented_from |-> PresentedFrom(captured)]

\* What recording a frame appends, with the screenshot it leaves named.
LEMMA RecordedSubmission ==
    ASSUME RecordAndSubmit
    PROVE  \E captured \in Captures :
             /\ owner' = Presents(captured)
             /\ gpu' = Append(gpu, Submission(captured))
             /\ shot' = captured
             /\ late_capture' = (late_capture
                   \/ (shot.requested /\ captured.ready /\ ~shot_wanted))
  BY DEF RecordAndSubmit, Submission

\* The positions of a queue after one submission and after one completion.
LEMMA QueuePositions ==
    ASSUME NEW T, NEW q \in Seq(T), NEW job \in T
    PROVE  /\ Len(Append(q, job)) = Len(q) + 1
           /\ \A k \in 1..Len(q) : Append(q, job)[k] = q[k]
           /\ Append(q, job)[Len(q) + 1] = job
           /\ q # <<>> =>
                /\ Len(q) >= 1 /\ Head(q) = q[1]
                /\ Len(Tail(q)) = Len(q) - 1
                /\ \A k \in 1..Len(q) - 1 : Tail(q)[k] = q[k + 1]
  OBVIOUS

\* What the submissions in the queue refer to exists.
LEMMA QueuedJobs ==
    ASSUME gpu \in Seq(Job)
    PROVE  /\ \A k \in 1..Len(gpu) : gpu[k] \in Job
           /\ \A k \in 1..Len(gpu) : gpu[k].frame \in Frames
           /\ \A k \in 1..Len(gpu) : gpu[k].image \in Images
<1>1. \A k \in 1..Len(gpu) : gpu[k] \in Job
  OBVIOUS
<1>2. \A job \in Job : job.frame \in Frames /\ job.image \in Images
  BY DEF Job
<1> QED
  BY <1>1, <1>2

-----------------------------------------------------------------------------
(* Reuse of a frame in flight.                                             *)

\* The strengthening of NoReuseInFlight: a submission in the queue has its
\* frame marked as submitted and its fence unsignalled, which is what makes
\* draw_frame wait for it; a frame has at most one submission in the queue, so
\* the fence it waits for is that of the right one; and the frame that is past
\* its wait is marked as not submitted.
FenceInv ==
    /\ \A k \in 1..Len(gpu) :
         frame_submitted[gpu[k].frame] /\ ~in_flight[gpu[k].frame]
    /\ \A k, l \in 1..Len(gpu) : gpu[k].frame = gpu[l].frame => k = l
    /\ at \in {"acquire", "recreate", "record"} =>
         ~frame_submitted[frame_index] /\ ~in_flight[frame_index]

\* The fence invariant is inductive: no step breaks it.
LEMMA FenceInvStep ==
    ASSUME FrameSyncTypeOK, FenceInv, [FrameNext]_frameVars
    PROVE  FenceInv'
<1> USE DEF FrameSyncTypeOK, FenceInv
<1>1. ASSUME NEW wants_shot \in BOOLEAN, BeginFrame(wants_shot)
      PROVE  FenceInv'
  BY <1>1 DEF BeginFrame, syncVars
<1>2. CASE EndFrame
  BY <1>2 DEF EndFrame, syncVars
<1>3. CASE LeaveLoop
  BY <1>3 DEF LeaveLoop, syncVars
<1>4. CASE WaitFence
  <2>1. \A k \in 1..Len(gpu) : gpu[k].frame # frame_index
    BY <1>4 DEF WaitFence, FrameFree
  <2>2. \A k \in 1..Len(gpu) : gpu[k].frame \in Frames
    BY QueuedJobs
  <2>3. /\ in_flight' = [in_flight EXCEPT ![frame_index] = FALSE]
        /\ frame_submitted' = [frame_submitted EXCEPT ![frame_index] = FALSE]
        /\ UNCHANGED <<gpu, frame_index>>
    BY <1>4 DEF WaitFence, ResetFence
  <2> QED
    BY <2>1, <2>2, <2>3
<1>5. ASSUME NEW i \in Images, AcquireSuccess(i)
      PROVE  FenceInv'
  BY <1>5 DEF AcquireSuccess
<1>6. ASSUME NEW i \in Images, AcquireSuboptimal(i)
      PROVE  FenceInv'
  BY <1>6 DEF AcquireSuboptimal
<1>7. CASE AcquireFails
  BY <1>7 DEF AcquireFails, syncVars
<1>8. ASSUME NEW size \in Sizes, RecreateSwapchain(size)
      PROVE  FenceInv'
  BY <1>8 DEF RecreateSwapchain
<1>9. CASE RecreateFails
  BY <1>9 DEF RecreateFails, syncVars
<1>10. CASE RecordAndSubmit
  <2>1. PICK captured \in Captures : gpu' = Append(gpu, Submission(captured))
    BY <1>10, RecordedSubmission
  <2>2. Submission(captured) \in Job
    BY CapturesType DEF Submission, Job, Layout, PresentedFrom
  <2>3. /\ Len(gpu') = Len(gpu) + 1
        /\ \A k \in 1..Len(gpu) : gpu'[k] = gpu[k]
        /\ gpu'[Len(gpu) + 1] = Submission(captured)
    BY <2>1, <2>2, QueuePositions
  <2>4. Submission(captured).frame = frame_index
    BY DEF Submission
  <2>5. \A k \in 1..Len(gpu) : gpu[k].frame \in Frames /\ gpu[k].frame # frame_index
    BY <1>10, QueuedJobs DEF RecordAndSubmit
  <2>6. /\ frame_submitted' = [frame_submitted EXCEPT ![frame_index] = TRUE]
        /\ in_flight' = in_flight
        /\ at' = "returned"
        /\ ~in_flight[frame_index]
    BY <1>10 DEF RecordAndSubmit
  <2>7. \A k \in 1..Len(gpu') :
          frame_submitted'[gpu'[k].frame] /\ ~in_flight'[gpu'[k].frame]
    BY <2>3, <2>4, <2>5, <2>6
  <2>8. \A k, l \in 1..Len(gpu') : gpu'[k].frame = gpu'[l].frame => k = l
    BY <2>3, <2>4, <2>5
  <2> QED
    BY <2>6, <2>7, <2>8
<1>11. CASE GpuCompletes
  <2>1. /\ Head(gpu) = gpu[1]
        /\ Len(gpu) >= 1
        /\ Len(gpu') = Len(gpu) - 1
        /\ \A k \in 1..Len(gpu') : gpu'[k] = gpu[k + 1]
    BY <1>11, QueuePositions DEF GpuCompletes
  <2>2. /\ in_flight' = [in_flight EXCEPT ![gpu[1].frame] = TRUE]
        /\ UNCHANGED <<frame_submitted, frame_index, at>>
    BY <1>11, <2>1 DEF GpuCompletes
  <2>3. \A k \in 1..Len(gpu) : gpu[k].frame \in Frames
    BY QueuedJobs
  <2>4. \A k \in 1..Len(gpu') : gpu'[k].frame # gpu[1].frame
    BY <2>1
  <2>5. at \in {"acquire", "recreate", "record"} => gpu[1].frame # frame_index
    BY <2>1
  <2>6. \A k \in 1..Len(gpu') :
          frame_submitted'[gpu'[k].frame] /\ ~in_flight'[gpu'[k].frame]
    BY <2>1, <2>2, <2>3, <2>4
  <2>7. \A k, l \in 1..Len(gpu') : gpu'[k].frame = gpu'[l].frame => k = l
    <3> SUFFICES ASSUME NEW k \in 1..Len(gpu'), NEW l \in 1..Len(gpu'),
                        gpu'[k].frame = gpu'[l].frame
                 PROVE  k = l
      OBVIOUS
    <3>1. k + 1 \in 1..Len(gpu) /\ l + 1 \in 1..Len(gpu)
      BY <2>1
    <3>2. gpu[k + 1].frame = gpu[l + 1].frame
      BY <2>1
    <3>3. k + 1 = l + 1
      BY <3>1, <3>2
    <3> QED
      BY <3>3
  <2> QED
    BY <2>2, <2>3, <2>5, <2>6, <2>7
<1>12. CASE FrameRests
  BY <1>12 DEF FrameRests, frameVars, syncVars
<1>13. CASE UNCHANGED frameVars
  BY <1>13 DEF frameVars, syncVars
<1>14. CASE destroy
  BY <1>14 DEF destroy, syncVars
<1> QED
  BY <1>1, <1>2, <1>3, <1>4, <1>5, <1>6, <1>7, <1>8, <1>9, <1>10, <1>11, <1>12, <1>13,
     <1>14
     DEF FrameNext, ThreadStep

\* While draw_frame records a frame, no submission that the GPU still has to
\* execute belongs to that frame: its command buffer, descriptor set and
\* host-visible buffers may be written.
THEOREM NoReuse == FrameSpec => []NoReuseInFlight
<1>1. FrameInit => FenceInv
  BY DEF FrameInit, FenceInv
<1>2. FrameSyncTypeOK /\ FenceInv /\ [FrameNext]_frameVars => FenceInv'
  BY FenceInvStep
<1>3. FenceInv => NoReuseInFlight
  BY DEF FenceInv, NoReuseInFlight, InQueue
<1> QED
  BY <1>1, <1>2, <1>3, FrameTypeCorrect, PTL DEF FrameSpec

-----------------------------------------------------------------------------
(* The semaphore of an acquire.                                            *)

\* Some submission in the queue waits for the semaphore of frame f.
Awaited(f) == \E k \in 1..Len(gpu) : gpu[k].frame = f

\* The strengthening of AcquireSemaphoreFree: unless an image was given up as
\* suboptimal, a signalled semaphore has a submission that will unsignal it,
\* or belongs to the frame being recorded.
SemaphoreInv ==
    /\ at = "acquire" => ~headless
    /\ headless => \A f \in Frames : ~image_available[f]
    /\ suboptimals = 0 =>
         \A f \in Frames :
            image_available[f] => Awaited(f) \/ (at = "record" /\ f = frame_index)

\* The semaphore invariant is inductive: no step breaks it.
LEMMA SemaphoreInvStep ==
    ASSUME FrameSyncTypeOK, FenceInv, SemaphoreInv, [FrameNext]_frameVars
    PROVE  SemaphoreInv'
<1> USE DEF FrameSyncTypeOK, SemaphoreInv
<1>1. ASSUME NEW wants_shot \in BOOLEAN, BeginFrame(wants_shot)
      PROVE  SemaphoreInv'
  BY <1>1 DEF BeginFrame, syncVars, chainVars, Awaited
<1>2. CASE EndFrame
  BY <1>2 DEF EndFrame, syncVars, chainVars, Awaited
<1>3. CASE LeaveLoop
  BY <1>3 DEF LeaveLoop, syncVars, chainVars, Awaited
<1>4. CASE WaitFence
  BY <1>4 DEF WaitFence, Awaited
<1>5. ASSUME NEW i \in Images, AcquireSuccess(i)
      PROVE  SemaphoreInv'
  BY <1>5 DEF AcquireSuccess, Acquired, Awaited
<1>6. ASSUME NEW i \in Images, AcquireSuboptimal(i)
      PROVE  SemaphoreInv'
  BY <1>6 DEF AcquireSuboptimal, Acquired, Awaited
<1>7. CASE AcquireFails
  BY <1>7 DEF AcquireFails, syncVars, chainVars, Awaited
<1>8. ASSUME NEW size \in Sizes, RecreateSwapchain(size)
      PROVE  SemaphoreInv'
  BY <1>8 DEF RecreateSwapchain
<1>9. CASE RecreateFails
  BY <1>9 DEF RecreateFails, syncVars, Awaited
<1>10. CASE RecordAndSubmit
  <2>1. PICK captured \in Captures : gpu' = Append(gpu, Submission(captured))
    BY <1>10, RecordedSubmission
  <2>2. Submission(captured) \in Job
    BY CapturesType DEF Submission, Job, Layout, PresentedFrom
  <2>3. /\ Len(gpu') = Len(gpu) + 1
        /\ \A k \in 1..Len(gpu) : gpu'[k] = gpu[k]
        /\ gpu'[Len(gpu) + 1].frame = frame_index
    BY <2>1, <2>2, QueuePositions DEF Submission
  <2>4. \A f \in Frames : Awaited(f) => Awaited(f)'
    BY <2>3 DEF Awaited
  <2>5. Len(gpu') \in 1..Len(gpu') /\ gpu'[Len(gpu')].frame = frame_index
    BY <2>3
  <2>6. \A f \in Frames : f = frame_index => Awaited(f)'
    BY <2>5 DEF Awaited
  <2> QED
    BY <1>10, <2>4, <2>6 DEF RecordAndSubmit
<1>11. CASE GpuCompletes
  <2>1. /\ Head(gpu) = gpu[1]
        /\ Len(gpu) >= 1
        /\ Len(gpu') = Len(gpu) - 1
        /\ \A k \in 1..Len(gpu') : gpu'[k] = gpu[k + 1]
    BY <1>11, QueuePositions DEF GpuCompletes
  <2>2. \A f \in Frames : Awaited(f) /\ f # gpu[1].frame => Awaited(f)'
    <3> SUFFICES ASSUME NEW f \in Frames, Awaited(f), f # gpu[1].frame
                 PROVE  Awaited(f)'
      OBVIOUS
    <3>1. PICK k \in 1..Len(gpu) : gpu[k].frame = f
      BY DEF Awaited
    <3>2. k # 1
      BY <3>1
    <3>3. k - 1 \in 1..Len(gpu') /\ (k - 1) + 1 = k
      BY <2>1, <3>2
    <3>4. gpu'[k - 1].frame = f
      BY <2>1, <3>1, <3>3
    <3> QED
      BY <3>3, <3>4 DEF Awaited
  <2>3. gpu[1].frame \in Frames
    BY <2>1, QueuedJobs
  <2> QED
    BY <1>11, <2>1, <2>2, <2>3 DEF GpuCompletes
<1>12. CASE FrameRests
  BY <1>12 DEF FrameRests, frameVars, syncVars, chainVars, Awaited
<1>13. CASE UNCHANGED frameVars
  BY <1>13 DEF frameVars, syncVars, chainVars, Awaited
<1>14. CASE destroy
  BY <1>14 DEF destroy, syncVars, Awaited
<1> QED
  BY <1>1, <1>2, <1>3, <1>4, <1>5, <1>6, <1>7, <1>8, <1>9, <1>10, <1>11, <1>12, <1>13,
     <1>14
     DEF FrameNext, ThreadStep

\* The semaphore that draw_frame hands to vkAcquireNextImageKHR is unsignalled
\* and has no signal pending, unless this swapchain gave up a suboptimal image.
THEOREM SemaphoreFree == FrameSpec => []AcquireSemaphoreFree
<1>1. FrameInit => FenceInv /\ SemaphoreInv
  BY DEF FrameInit, FenceInv, SemaphoreInv
<1>2. FrameSyncTypeOK /\ FenceInv /\ SemaphoreInv /\ [FrameNext]_frameVars
        => FenceInv' /\ SemaphoreInv'
  BY FenceInvStep, SemaphoreInvStep
<1>3. FrameSyncTypeOK /\ FenceInv /\ SemaphoreInv => AcquireSemaphoreFree
  BY DEF FrameSyncTypeOK, FenceInv, SemaphoreInv, AcquireSemaphoreFree, Awaited
<1> QED
  BY <1>1, <1>2, <1>3, FrameTypeCorrect, PTL DEF FrameSpec

-----------------------------------------------------------------------------
(* The screenshot's image and its staging buffer.                          *)

\* The strengthening of PresentLayoutTrue: the flag screenshot_data_ready, from
\* which the present barrier takes the old layout, is only up between a capture
\* and the end of the iteration that asked for it.
LayoutInv ==
    ~late_capture =>
        /\ shot.ready => at = "returned" /\ shot_wanted
        /\ PresentLayoutTrue

\* What StagingNotInUse needs: a submission that copies was given a staging
\* buffer that is large enough, and keeps it.
StagingInv == \A k \in 1..Len(gpu) : gpu[k].copies => shot.staging >= extent

\* A recorded frame takes the branches of tick_screenshot as follows.
LEMMA CapturesCases ==
    ASSUME shot \in [requested : BOOLEAN, ready : BOOLEAN, staging : {0} \cup Sizes],
           extent \in Sizes,
           NEW captured \in Captures
    PROVE  /\ ~shot.requested => captured = shot
           /\ shot.requested /\ captured.ready => captured.staging >= extent
           /\ captured.staging # shot.staging => shot.staging < extent
<1> shot.staging \in Nat /\ extent \in Nat
  <2>1. shot.staging \in {0} \cup Sizes
    OBVIOUS
  <2>2. \A size \in Sizes : size \in Nat
    BY SizesAssumption
  <2> QED
    BY <2>1, <2>2
<1>1. CASE ~shot.requested
  BY <1>1 DEF Captures
<1>2. CASE shot.requested
  <2> DEFINE kept == [requested |-> FALSE, ready |-> TRUE, staging |-> shot.staging]
  <2>1. CASE shot.staging >= extent
    <3>1. captured = kept
      BY <1>2, <2>1, Zenon DEF Captures
    <3> QED
      BY <1>2, <2>1, <3>1
  <2>2. CASE ~(shot.staging >= extent)
    <3>1. captured \in {[kept EXCEPT !.staging = extent],
                       [kept EXCEPT !.ready = FALSE, !.staging = 0]}
      BY <1>2, <2>2, Zenon DEF Captures
    <3>2. shot.staging < extent
      BY <2>2
    <3>3. \/ captured = [requested |-> FALSE, ready |-> TRUE, staging |-> extent]
          \/ captured = [requested |-> FALSE, ready |-> FALSE, staging |-> 0]
      BY <3>1
    <3> QED
      BY <1>2, <3>2, <3>3
  <2> QED
    BY <2>1, <2>2
<1> QED
  BY <1>1, <1>2

\* The layout invariant is inductive: no step breaks it.
LEMMA LayoutInvStep ==
    ASSUME FrameSyncTypeOK, LayoutInv, [FrameNext]_frameVars
    PROVE  LayoutInv'
<1> USE DEF FrameSyncTypeOK, LayoutInv, PresentLayoutTrue, InQueue
<1>1. ASSUME NEW wants_shot \in BOOLEAN, BeginFrame(wants_shot)
      PROVE  LayoutInv'
  BY <1>1 DEF BeginFrame, request_screenshot
<1>2. CASE EndFrame
  BY <1>2 DEF EndFrame
<1>3. CASE LeaveLoop
  BY <1>3 DEF LeaveLoop, shotVars
<1>4. CASE WaitFence
  BY <1>4 DEF WaitFence, shotVars
<1>5. ASSUME NEW i \in Images, AcquireSuccess(i)
      PROVE  LayoutInv'
  BY <1>5 DEF AcquireSuccess, shotVars
<1>6. ASSUME NEW i \in Images, AcquireSuboptimal(i)
      PROVE  LayoutInv'
  BY <1>6 DEF AcquireSuboptimal, shotVars
<1>7. CASE AcquireFails
  BY <1>7 DEF AcquireFails, shotVars
<1>8. ASSUME NEW size \in Sizes, RecreateSwapchain(size)
      PROVE  LayoutInv'
  BY <1>8 DEF RecreateSwapchain, shotVars
<1>9. CASE RecreateFails
  BY <1>9 DEF RecreateFails, shotVars
<1>10. CASE RecordAndSubmit
  <2> HAVE ~late_capture'
  <2>1. PICK captured \in Captures :
          /\ gpu' = Append(gpu, Submission(captured))
          /\ shot' = captured
          /\ late_capture' = (late_capture
                \/ (shot.requested /\ captured.ready /\ ~shot_wanted))
    BY <1>10, RecordedSubmission
  <2>2. Submission(captured) \in Job
    BY CapturesType DEF Submission, Job, Layout, PresentedFrom
  <2>3. ~late_capture /\ ~shot.ready
    BY <1>10, <2>1 DEF RecordAndSubmit
  <2>4. captured.ready => shot.requested /\ shot_wanted
    BY <2>1, <2>3, CapturesCases
  <2>5. Submission(captured).presented_from = Submission(captured).left_in
    BY <2>4 DEF Submission, PresentedFrom
  <2>6. /\ Len(gpu') = Len(gpu) + 1
        /\ \A k \in 1..Len(gpu) : gpu'[k] = gpu[k]
        /\ gpu'[Len(gpu) + 1] = Submission(captured)
    BY <2>1, <2>2, QueuePositions
  <2>7. PresentLayoutTrue'
    BY <1>10, <2>3, <2>5, <2>6 DEF RecordAndSubmit
  <2> QED
    BY <1>10, <2>1, <2>4, <2>7 DEF RecordAndSubmit
<1>11. CASE GpuCompletes
  <2>1. /\ Len(gpu) >= 1
        /\ Len(gpu') = Len(gpu) - 1
        /\ \A k \in 1..Len(gpu') : gpu'[k] = gpu[k + 1]
    BY <1>11, QueuePositions DEF GpuCompletes
  <2>2. /\ UNCHANGED <<headless, at, shotVars>>
    BY <1>11 DEF GpuCompletes
  <2> QED
    BY <2>1, <2>2 DEF shotVars
<1>12. CASE FrameRests
  BY <1>12 DEF FrameRests, frameVars, shotVars
<1>13. CASE UNCHANGED frameVars
  BY <1>13 DEF frameVars, shotVars
<1>14. CASE destroy
  BY <1>14 DEF destroy
<1> QED
  BY <1>1, <1>2, <1>3, <1>4, <1>5, <1>6, <1>7, <1>8, <1>9, <1>10, <1>11, <1>12, <1>13,
     <1>14
     DEF FrameNext, ThreadStep

\* As long as every image was captured by the frame that asked for it, the
\* barrier before a present states the layout the image is really in.
THEOREM PresentLayout == FrameSpec => []PresentLayoutTrue
<1>1. FrameInit => LayoutInv
  BY DEF FrameInit, LayoutInv, PresentLayoutTrue, InQueue
<1>2. FrameSyncTypeOK /\ LayoutInv /\ [FrameNext]_frameVars => LayoutInv'
  BY LayoutInvStep
<1>3. LayoutInv => PresentLayoutTrue
  BY DEF LayoutInv, PresentLayoutTrue
<1> QED
  BY <1>1, <1>2, <1>3, FrameTypeCorrect, PTL DEF FrameSpec

\* One step neither replaces a staging buffer in use nor breaks what that
\* rests on.
LEMMA StagingStep ==
    ASSUME FrameSyncTypeOK, StagingInv, [FrameNext]_frameVars
    PROVE  /\ StagingInv'
           /\ shot'.staging # shot.staging => \A job \in InQueue : ~job.copies
<1> DEFINE Kept == shot'.staging # shot.staging => \A job \in InQueue : ~job.copies
<1> USE DEF FrameSyncTypeOK, StagingInv
<1>1. ASSUME NEW wants_shot \in BOOLEAN, BeginFrame(wants_shot)
      PROVE  StagingInv' /\ Kept
  BY <1>1 DEF BeginFrame, request_screenshot, chainVars
<1>2. CASE EndFrame
  BY <1>2 DEF EndFrame, chainVars
<1>3. CASE RecordAndSubmit
  <2>1. PICK captured \in Captures :
          /\ gpu' = Append(gpu, Submission(captured))
          /\ shot' = captured
    BY <1>3, RecordedSubmission
  <2>2. Submission(captured) \in Job
    BY CapturesType DEF Submission, Job, Layout, PresentedFrom
  <2>3. /\ Len(gpu') = Len(gpu) + 1
        /\ \A k \in 1..Len(gpu) : gpu'[k] = gpu[k]
        /\ gpu'[Len(gpu) + 1] = Submission(captured)
    BY <2>1, <2>2, QueuePositions
  <2>4. /\ Submission(captured).copies => captured.staging >= extent
        /\ captured.staging # shot.staging => shot.staging < extent
    BY CapturesCases DEF Submission
  <2>5. shot.staging \in Int /\ extent \in Int
    <3>1. shot.staging \in {0} \cup Sizes
      OBVIOUS
    <3>2. \A size \in Sizes : size \in Nat
      BY SizesAssumption
    <3> QED
      BY <3>1, <3>2
  <2>6. Kept
    BY <2>1, <2>4, <2>5 DEF InQueue
  <2>7. extent' = extent
    BY <1>3 DEF RecordAndSubmit
  <2>8. StagingInv'
    <3> SUFFICES ASSUME NEW k \in 1..Len(gpu'), gpu'[k].copies
                 PROVE  captured.staging >= extent
      BY <2>1, <2>7
    <3>1. CASE k = Len(gpu) + 1
      BY <2>3, <2>4, <3>1
    <3>2. CASE k \in 1..Len(gpu)
      BY <2>3, <2>4, <2>5, <3>2
    <3> QED
      BY <2>3, <3>1, <3>2
  <2> QED
    BY <2>6, <2>8
<1>4. CASE GpuCompletes
  <2>1. /\ Len(gpu) >= 1
        /\ Len(gpu') = Len(gpu) - 1
        /\ \A k \in 1..Len(gpu') : gpu'[k] = gpu[k + 1]
    BY <1>4, QueuePositions DEF GpuCompletes
  <2> QED
    BY <1>4, <2>1 DEF GpuCompletes, shotVars
<1>5. ASSUME NEW size \in Sizes, RecreateSwapchain(size)
      PROVE  StagingInv' /\ Kept
  BY <1>5 DEF RecreateSwapchain, shotVars
<1>6. CASE RecreateFails
  BY <1>6 DEF RecreateFails, shotVars
<1>7. CASE WaitFence
  BY <1>7 DEF WaitFence, shotVars
<1>8. ASSUME NEW i \in Images, AcquireSuccess(i) \/ AcquireSuboptimal(i)
      PROVE  StagingInv' /\ Kept
  BY <1>8 DEF AcquireSuccess, AcquireSuboptimal, shotVars
<1>9. CASE LeaveLoop \/ AcquireFails \/ FrameRests \/ UNCHANGED frameVars
  BY <1>9 DEF LeaveLoop, AcquireFails, FrameRests, frameVars, chainVars, shotVars
<1>10. CASE destroy
  BY <1>10 DEF destroy, InQueue
<1> QED
  BY <1>1, <1>2, <1>3, <1>4, <1>5, <1>6, <1>7, <1>8, <1>9, <1>10 DEF FrameNext, ThreadStep

\* tick_screenshot never frees or replaces its staging buffer while the GPU
\* still has to copy an image into it.
THEOREM StagingSafe == FrameSpec => StagingNotInUse
<1>1. FrameInit => StagingInv
  BY DEF FrameInit, StagingInv
<1>2. FrameSyncTypeOK /\ StagingInv /\ [FrameNext]_frameVars
        => /\ StagingInv'
           /\ [shot'.staging # shot.staging
                 => \A job \in InQueue : ~job.copies]_frameVars
  BY StagingStep
<1> QED
  BY <1>1, <1>2, FrameTypeCorrect, PTL DEF FrameSpec, StagingNotInUse

-----------------------------------------------------------------------------
(* Who has the images of the swapchain.                                    *)

\* The strengthening of ImagesAccounted: the images of the submissions in the
\* queue are distinct and not the application's, the one being recorded is.
ImageInv ==
    ~headless =>
        /\ at \in {"acquire", "recreate", "record"} => swapchain # NoSwapchain
        /\ swapchain # NoSwapchain =>
             /\ \A k \in 1..Len(gpu) : owner[gpu[k].image] = "gpu"
             /\ \A k, l \in 1..Len(gpu) : gpu[k].image = gpu[l].image => k = l
             /\ at = "record" => owner[image] = "app"
             /\ ImagesAccounted

\* The application holds finitely many images, so they can be counted.
LEMMA HeldFinite == IsFiniteSet(Held)
<1>1. IsFiniteSet(Images)
  <2>1. ImageCount \in Int /\ FramesInFlight \in Int
    BY ImagesRange, FramesAssumption
  <2>2. (IF ImageCount > FramesInFlight THEN ImageCount ELSE FramesInFlight) - 1 \in Int
    BY <2>1
  <2> QED
    BY <2>2, FS_Interval DEF Images
<1>2. Held \in SUBSET Images
  BY DEF Held
<1> QED
  BY <1>1, <1>2, FS_Subset

\* An acquired image is one more in the application's hands.
LEMMA AcquireHolds ==
    ASSUME FrameSyncTypeOK, NEW i \in Images, Acquired(i)
    PROVE  /\ Cardinality(Held') = Cardinality(Held) + 1
           /\ Cardinality(Held) \in Nat
           /\ owner[i] = "engine"
           /\ owner' = [owner EXCEPT ![i] = "app"]
<1>1. owner[i] = "engine" /\ owner' = [owner EXCEPT ![i] = "app"]
  BY DEF Acquired, MayAcquire
<1>2. Held' = Held \cup {i} /\ i \notin Held
  BY <1>1 DEF Held, FrameSyncTypeOK
<1> QED
  BY <1>1, <1>2, HeldFinite, FS_AddElement, FS_CardinalityType

\* The image invariant is inductive: no step breaks it.
LEMMA ImageInvStep ==
    ASSUME FrameSyncTypeOK, ImageInv, [FrameNext]_frameVars
    PROVE  ImageInv'
<1> USE DEF FrameSyncTypeOK
<1>1. ASSUME NEW wants_shot \in BOOLEAN, BeginFrame(wants_shot)
      PROVE  ImageInv'
  BY <1>1 DEF BeginFrame, chainVars, ImageInv, ImagesAccounted, Held
<1>2. CASE EndFrame
  BY <1>2 DEF EndFrame, chainVars, ImageInv, ImagesAccounted, Held
<1>3. CASE LeaveLoop
  BY <1>3 DEF LeaveLoop, chainVars, ImageInv, ImagesAccounted, Held
<1>4. CASE WaitFence
  BY <1>4 DEF WaitFence, ImageInv, ImagesAccounted, Held
<1>5. ASSUME NEW i \in Images, AcquireSuccess(i)
      PROVE  ImageInv'
  <2> SUFFICES ASSUME ~headless
               PROVE  ImageInv'
    BY <1>5 DEF ImageInv, AcquireSuccess
  <2>1. /\ Cardinality(Held') = Cardinality(Held) + 1
        /\ owner[i] = "engine"
        /\ owner' = [owner EXCEPT ![i] = "app"]
    BY <1>5, AcquireHolds DEF AcquireSuccess
  <2>2. swapchain # NoSwapchain /\ Cardinality(Held) = suboptimals
    BY <1>5 DEF AcquireSuccess, ImageInv, ImagesAccounted
  <2>3. \A k \in 1..Len(gpu) : gpu[k].image # i /\ gpu[k].image \in Images
    BY <2>1, <2>2, QueuedJobs DEF ImageInv
  <2>4. ImagesAccounted'
    BY <1>5, <2>1, <2>2 DEF AcquireSuccess, ImagesAccounted
  <2> QED
    BY <1>5, <2>1, <2>2, <2>3, <2>4 DEF AcquireSuccess, ImageInv
<1>6. ASSUME NEW i \in Images, AcquireSuboptimal(i)
      PROVE  ImageInv'
  <2> SUFFICES ASSUME ~headless
               PROVE  ImageInv'
    BY <1>6 DEF ImageInv, AcquireSuboptimal
  <2>1. /\ Cardinality(Held') = Cardinality(Held) + 1
        /\ owner[i] = "engine"
        /\ owner' = [owner EXCEPT ![i] = "app"]
    BY <1>6, AcquireHolds DEF AcquireSuboptimal
  <2>2. swapchain # NoSwapchain /\ Cardinality(Held) = suboptimals
    BY <1>6 DEF AcquireSuboptimal, ImageInv, ImagesAccounted
  <2>3. \A k \in 1..Len(gpu) : gpu[k].image # i /\ gpu[k].image \in Images
    BY <2>1, <2>2, QueuedJobs DEF ImageInv
  <2>4. ImagesAccounted'
    BY <1>6, <2>1, <2>2 DEF AcquireSuboptimal, ImagesAccounted
  <2> QED
    BY <1>6, <2>1, <2>2, <2>3, <2>4 DEF AcquireSuboptimal, ImageInv
<1>7. CASE AcquireFails
  BY <1>7 DEF AcquireFails, chainVars, ImageInv, ImagesAccounted, Held
<1>8. ASSUME NEW size \in Sizes, RecreateSwapchain(size)
      PROVE  ImageInv'
  <2>1. Held' = {}
    BY <1>8 DEF RecreateSwapchain, Held
  <2>2. Cardinality(Held') = 0
    BY <2>1, FS_EmptySet
  <2>3. ImagesAccounted'
    BY <1>8, <2>2 DEF RecreateSwapchain, ImagesAccounted
  <2> QED
    BY <1>8, <2>3 DEF RecreateSwapchain, ImageInv
<1>9. CASE RecreateFails
  BY <1>9 DEF RecreateFails, ImageInv
<1>10. CASE RecordAndSubmit
  <2> SUFFICES ASSUME ~headless
               PROVE  ImageInv'
    BY <1>10 DEF ImageInv, RecordAndSubmit
  <2>1. PICK captured \in Captures :
          /\ owner' = Presents(captured)
          /\ gpu' = Append(gpu, Submission(captured))
    BY <1>10, RecordedSubmission
  <2>2. Submission(captured) \in Job
    BY CapturesType DEF Submission, Job, Layout, PresentedFrom
  <2>3. /\ Len(gpu') = Len(gpu) + 1
        /\ \A k \in 1..Len(gpu) : gpu'[k] = gpu[k]
        /\ gpu'[Len(gpu) + 1].image = image
    BY <2>1, <2>2, QueuePositions DEF Submission
  <2>4. /\ owner' = [owner EXCEPT ![image] = "gpu"]
        /\ owner[image] = "app"
        /\ swapchain # NoSwapchain
        /\ Cardinality(Held) = suboptimals + 1
    BY <1>10, <2>1 DEF RecordAndSubmit, ImageInv, ImagesAccounted, Presents
  <2>5. Held' = Held \ {image} /\ image \in Held
    BY <2>4 DEF Held
  <2>6. Cardinality(Held') = suboptimals
    <3>1. Cardinality(Held \ {image}) = Cardinality(Held) - 1
      BY <2>5, HeldFinite, FS_RemoveElement
    <3> QED
      BY <2>4, <2>5, <3>1
  <2>7. \A k \in 1..Len(gpu) : gpu[k].image # image /\ gpu[k].image \in Images
    BY <2>4, QueuedJobs DEF ImageInv
  <2>8. \A k \in 1..Len(gpu') : owner'[gpu'[k].image] = "gpu"
    BY <2>3, <2>4, <2>7 DEF ImageInv
  <2>9. \A k, l \in 1..Len(gpu') : gpu'[k].image = gpu'[l].image => k = l
    BY <2>3, <2>4, <2>7 DEF ImageInv
  <2>10. ImagesAccounted'
    BY <1>10, <2>6 DEF RecordAndSubmit, ImagesAccounted
  <2> QED
    BY <1>10, <2>8, <2>9, <2>10 DEF RecordAndSubmit, ImageInv
<1>11. CASE GpuCompletes
  <2> SUFFICES ASSUME ~headless, swapchain # NoSwapchain
               PROVE  ImageInv'
    BY <1>11 DEF ImageInv, GpuCompletes
  <2>1. /\ Head(gpu) = gpu[1]
        /\ Len(gpu) >= 1
        /\ Len(gpu') = Len(gpu) - 1
        /\ \A k \in 1..Len(gpu') : gpu'[k] = gpu[k + 1]
    BY <1>11, QueuePositions DEF GpuCompletes
  <2>2. /\ owner' = [owner EXCEPT ![gpu[1].image] = "engine"]
        /\ owner[gpu[1].image] = "gpu"
        /\ gpu[1].image \in Images
    BY <1>11, <2>1, QueuedJobs DEF GpuCompletes, ImageInv
  <2>3. Held' = Held
    BY <2>2 DEF Held
  <2>4. \A k \in 1..Len(gpu') : gpu'[k].image # gpu[1].image
    BY <2>1 DEF ImageInv
  <2>5. \A k \in 1..Len(gpu) : gpu[k].image \in Images
    BY QueuedJobs
  <2>6. \A k \in 1..Len(gpu') : owner'[gpu'[k].image] = "gpu"
    BY <2>1, <2>2, <2>4, <2>5 DEF ImageInv
  <2>7. \A k, l \in 1..Len(gpu') : gpu'[k].image = gpu'[l].image => k = l
    BY <2>1 DEF ImageInv
  <2>8. UNCHANGED <<headless, at, swapchain, suboptimals, image>>
    BY <1>11 DEF GpuCompletes
  <2>9. at = "record" => owner'[image] = "app"
    BY <2>2 DEF ImageInv
  <2> QED
    BY <2>3, <2>6, <2>7, <2>8, <2>9 DEF ImageInv, ImagesAccounted
<1>12. CASE FrameRests
  BY <1>12 DEF FrameRests, frameVars, chainVars, ImageInv, ImagesAccounted, Held
<1>13. CASE UNCHANGED frameVars
  BY <1>13 DEF frameVars, chainVars, ImageInv, ImagesAccounted, Held
<1>14. CASE destroy
  BY <1>14 DEF destroy, ImageInv
<1> QED
  BY <1>1, <1>2, <1>3, <1>4, <1>5, <1>6, <1>7, <1>8, <1>9, <1>10, <1>11, <1>12, <1>13,
     <1>14
     DEF FrameNext, ThreadStep

\* No failure of draw_frame leaks a swapchain image, but for the suboptimal
\* acquires: the application holds those and the image it is recording.
THEOREM ImagesAccountedFor == FrameSpec => []ImagesAccounted
<1>1. FrameInit => ImageInv
  <2> SUFFICES ASSUME FrameInit
               PROVE  ImageInv
    OBVIOUS
  <2>1. Held = {}
    BY DEF FrameInit, Held
  <2>2. Cardinality(Held) = 0
    BY <2>1, FS_EmptySet
  <2> QED
    BY <2>2 DEF FrameInit, ImageInv, ImagesAccounted
<1>2. FrameSyncTypeOK /\ ImageInv /\ [FrameNext]_frameVars => ImageInv'
  BY ImageInvStep
<1>3. ImageInv => ImagesAccounted
  BY DEF ImageInv, ImagesAccounted
<1> QED
  BY <1>1, <1>2, <1>3, FrameTypeCorrect, PTL DEF FrameSpec

-----------------------------------------------------------------------------
(* Progress, as far as it is a matter of safety: what a wait waits for is  *)
(* under way, and no wait is entered twice.                                *)

\* A frame that is waited for and an image that was presented have a submission
\* in the queue, which the GPU will execute without any help of the thread.
WaitInv ==
    /\ at # "ended" => swapchain # NoSwapchain
    /\ \A f \in Frames : frame_submitted[f] /\ ~in_flight[f] => Awaited(f)
    /\ \A i \in Images :
         owner[i] = "gpu" => ~headless /\ \E k \in 1..Len(gpu) : gpu[k].image = i

\* No wait of draw_frame is for something that will not come: the fence is that of
\* a submission in the queue, and once the GPU has nothing left to execute there is
\* an image, as long as not more of them were lost to suboptimal acquires than the
\* swapchain has beyond the surface's minimum.
DrawNotStuck ==
    /\ at = "draw" => swapchain # NoSwapchain
    /\ at = "draw" /\ ~FrameFree => \E job \in InQueue : job.frame = frame_index
    /\ at = "acquire" /\ gpu = <<>> /\ suboptimals <= ImageCount - MinImageCount
         => \E i \in Images : MayAcquire(i)

Drawing == {"draw", "acquire", "recreate", "record"}

\* An upper bound on the steps until draw_frame returns: those of the GPU, and its
\* own.
DrawSteps ==
    Len(gpu) + CASE at = "draw" -> 3
                 [] at = "acquire" -> 2
                 [] at \in {"recreate", "record"} -> 1
                 [] OTHER -> 0

\* Whatever happens inside draw_frame brings its return nearer, and it is never
\* further away than the frames in flight and three steps.
DrawFrameConverges ==
    /\ [](at \in Drawing => DrawSteps <= FramesInFlight + 3)
    /\ [][(at \in Drawing) => at' \in {"returned", "ended"} \/ DrawSteps' < DrawSteps]_frameVars

\* The wait invariant is inductive: no step breaks it.
LEMMA WaitInvStep ==
    ASSUME FrameSyncTypeOK, WaitInv, [FrameNext]_frameVars
    PROVE  WaitInv'
<1> USE DEF FrameSyncTypeOK, WaitInv, Awaited
<1>1. ASSUME NEW wants_shot \in BOOLEAN, BeginFrame(wants_shot)
      PROVE  WaitInv'
  BY <1>1 DEF BeginFrame, syncVars, chainVars
<1>2. CASE EndFrame
  BY <1>2 DEF EndFrame, syncVars, chainVars
<1>3. CASE LeaveLoop
  BY <1>3 DEF LeaveLoop, syncVars, chainVars
<1>4. CASE WaitFence
  BY <1>4 DEF WaitFence, ResetFence
<1>5. ASSUME NEW i \in Images, AcquireSuccess(i)
      PROVE  WaitInv'
  BY <1>5 DEF AcquireSuccess, Acquired
<1>6. ASSUME NEW i \in Images, AcquireSuboptimal(i)
      PROVE  WaitInv'
  BY <1>6 DEF AcquireSuboptimal, Acquired
<1>7. CASE AcquireFails
  BY <1>7 DEF AcquireFails, syncVars, chainVars
<1>8. ASSUME NEW size \in Sizes, RecreateSwapchain(size)
      PROVE  WaitInv'
  BY <1>8 DEF RecreateSwapchain, NoSwapchain
<1>9. CASE RecreateFails
  BY <1>9 DEF RecreateFails, syncVars
<1>10. CASE RecordAndSubmit
  <2>1. PICK captured \in Captures :
          /\ owner' = Presents(captured)
          /\ gpu' = Append(gpu, Submission(captured))
    BY <1>10, RecordedSubmission
  <2>2. Submission(captured) \in Job
    BY CapturesType DEF Submission, Job, Layout, PresentedFrom
  <2>3. /\ Len(gpu') = Len(gpu) + 1
        /\ \A k \in 1..Len(gpu) : gpu'[k] = gpu[k]
        /\ gpu'[Len(gpu) + 1].image = image
        /\ gpu'[Len(gpu) + 1].frame = frame_index
    BY <2>1, <2>2, QueuePositions DEF Submission
  <2>4. Len(gpu) \in Nat
    OBVIOUS
  <2>5. \A k \in 1..Len(gpu) : k \in 1..Len(gpu')
    BY <2>3, <2>4
  <2>6. Len(gpu) + 1 \in 1..Len(gpu')
    BY <2>3, <2>4
  <2>7. \A f \in Frames : frame_submitted'[f] /\ ~in_flight'[f] => Awaited(f)'
    BY <1>10, <2>3, <2>5, <2>6 DEF RecordAndSubmit
  <2>8. \A i \in Images : owner'[i] = "gpu" => ~headless /\ (owner[i] = "gpu" \/ i = image)
    BY <2>1 DEF Presents
  <2>9. \A i \in Images :
          owner'[i] = "gpu" => ~headless /\ \E k \in 1..Len(gpu') : gpu'[k].image = i
    BY <2>3, <2>5, <2>6, <2>8
  <2>10. at' # "ended" => swapchain' # NoSwapchain
    BY <1>10 DEF RecordAndSubmit
  <2> QED
    BY <1>10, <2>7, <2>9, <2>10 DEF RecordAndSubmit
<1>11. CASE GpuCompletes
  <2>1. /\ Head(gpu) = gpu[1]
        /\ Len(gpu) >= 1
        /\ Len(gpu') = Len(gpu) - 1
        /\ \A k \in 1..Len(gpu') : gpu'[k] = gpu[k + 1]
    BY <1>11, QueuePositions DEF GpuCompletes
  <2>2. /\ in_flight' = [in_flight EXCEPT ![gpu[1].frame] = TRUE]
        /\ UNCHANGED <<frame_submitted, at, swapchain>>
    BY <1>11, <2>1 DEF GpuCompletes
  <2>3. ASSUME NEW k \in 1..Len(gpu), k # 1
        PROVE  k - 1 \in 1..Len(gpu') /\ gpu'[k - 1] = gpu[k]
    BY <2>1, <2>3
  <2>4. \A f \in Frames : frame_submitted'[f] /\ ~in_flight'[f] => Awaited(f)'
    <3> SUFFICES ASSUME NEW f \in Frames, frame_submitted'[f], ~in_flight'[f]
                 PROVE  Awaited(f)'
      OBVIOUS
    <3>1. f # gpu[1].frame /\ frame_submitted[f] /\ ~in_flight[f]
      BY <2>2
    <3>2. PICK k \in 1..Len(gpu) : gpu[k].frame = f
      BY <3>1
    <3> QED
      BY <2>3, <3>1, <3>2
  <2>5. ASSUME NEW i \in Images, owner'[i] = "gpu"
        PROVE  ~headless /\ \E k \in 1..Len(gpu') : gpu'[k].image = i
    <3>1. ~headless
      BY <1>11, <2>5 DEF GpuCompletes
    <3>2. owner' = [owner EXCEPT ![gpu[1].image] = "engine"]
      BY <1>11, <2>1, <3>1 DEF GpuCompletes
    <3>3. i # gpu[1].image /\ owner[i] = "gpu"
      BY <2>5, <3>2
    <3>4. PICK k \in 1..Len(gpu) : gpu[k].image = i /\ k # 1
      BY <3>3
    <3> QED
      BY <2>3, <3>1, <3>4
  <2> QED
    BY <1>11, <2>2, <2>4, <2>5 DEF GpuCompletes
<1>12. CASE FrameRests \/ UNCHANGED frameVars
  BY <1>12 DEF FrameRests, frameVars, syncVars, chainVars
<1>13. CASE destroy
  BY <1>13 DEF destroy, syncVars
<1> QED
  BY <1>1, <1>2, <1>3, <1>4, <1>5, <1>6, <1>7, <1>8, <1>9, <1>10, <1>11, <1>12, <1>13
     DEF FrameNext, ThreadStep

\* The submissions in the queue are of different frames: there are at most as many.
LEMMA QueueBounded ==
    ASSUME FrameSyncTypeOK, FenceInv
    PROVE  Len(gpu) \in Nat /\ Len(gpu) <= FramesInFlight
<1> DEFINE of == [k \in 1..Len(gpu) |-> gpu[k].frame]
<1>1. gpu \in Seq(Job) /\ Len(gpu) \in Nat
  BY DEF FrameSyncTypeOK
<1>2. \A k \in 1..Len(gpu) : gpu[k].frame \in Frames
  BY <1>1, QueuedJobs
<1>3. of \in [1..Len(gpu) -> Frames]
  BY <1>2
<1>4. \A k, l \in 1..Len(gpu) : of[k] = of[l] => k = l
  BY DEF FenceInv
<1>5. of \in Injection(1..Len(gpu), Frames)
  BY <1>3, <1>4, Fun_IsInj
<1>6. IsFiniteSet(Frames) /\ Cardinality(Frames) = FramesInFlight
  <2>1. 0 \in Int /\ FramesInFlight - 1 \in Int
    BY FramesAssumption
  <2>2. /\ IsFiniteSet(0..FramesInFlight - 1)
        /\ Cardinality(0..FramesInFlight - 1)
             = IF 0 > FramesInFlight - 1 THEN 0 ELSE FramesInFlight - 1 - 0 + 1
    BY <2>1, FS_Interval
  <2> QED
    BY <2>2, FramesAssumption DEF Frames
<1>7. Cardinality(1..Len(gpu)) = Len(gpu)
  <2>1. 1 \in Int /\ Len(gpu) \in Int
    BY <1>1
  <2>2. Cardinality(1..Len(gpu)) = IF 1 > Len(gpu) THEN 0 ELSE Len(gpu) - 1 + 1
    BY <2>1, FS_Interval
  <2> QED
    BY <1>1, <2>2
<1>8. Cardinality(1..Len(gpu)) <= Cardinality(Frames)
  <2> HIDE DEF of
  <2> QED
    BY <1>5, <1>6, FS_Injection
<1> QED
  BY <1>1, <1>6, <1>7, <1>8

\* Among the images of the swapchain one is the engine's, when the GPU has none and
\* the application fewer than there are.
LEMMA ImageIsFree ==
    ASSUME FrameSyncTypeOK, WaitInv, gpu = <<>>,
           Cardinality(Held) <= ImageCount - MinImageCount
    PROVE  \E i \in Images : MayAcquire(i)
<1>1. ImageCount \in Nat \ {0} /\ MinImageCount \in Nat \ {0}
  BY ImagesRange, SurfaceAssumption
<1>2. 0..ImageCount - 1 \subseteq Images
  BY <1>1, FramesAssumption DEF Images
<1>3. Cardinality(0..ImageCount - 1) = ImageCount
  <2>1. 0 \in Int /\ ImageCount - 1 \in Int
    BY <1>1
  <2>2. Cardinality(0..ImageCount - 1)
          = IF 0 > ImageCount - 1 THEN 0 ELSE ImageCount - 1 - 0 + 1
    BY <2>1, FS_Interval
  <2> QED
    BY <1>1, <2>2
<1>4. Cardinality(Held) \in Nat
  BY HeldFinite, FS_CardinalityType
<1>5. ~(0..ImageCount - 1 \subseteq Held)
  <2>1. SUFFICES ASSUME 0..ImageCount - 1 \subseteq Held
                 PROVE  FALSE
    OBVIOUS
  <2>2. Cardinality(0..ImageCount - 1) <= Cardinality(Held)
    BY <2>1, HeldFinite, FS_Subset
  <2> QED
    BY <1>1, <1>3, <1>4, <2>2
<1>6. PICK i \in 0..ImageCount - 1 : i \notin Held
  BY <1>5
<1>7. i \in Images /\ owner[i] # "app" /\ owner[i] # "gpu"
  <2>1. i \in Images /\ owner[i] # "app"
    BY <1>2, <1>6 DEF Held
  <2>2. Len(gpu) = 0
    OBVIOUS
  <2>3. ~\E k \in 1..Len(gpu) : gpu[k].image = i
    BY <2>2
  <2> QED
    BY <2>1, <2>3 DEF WaitInv
<1>8. owner[i] = "engine"
  BY <1>7 DEF FrameSyncTypeOK
<1> QED
  BY <1>6, <1>7, <1>8 DEF MayAcquire

LEMMA DrawStepsFewer ==
    ASSUME FrameSyncTypeOK, FenceInv, at \in Drawing, [FrameNext]_frameVars
    PROVE  \/ at' \in {"returned", "ended"}
           \/ DrawSteps' < DrawSteps
           \/ UNCHANGED frameVars
<1>0. Len(gpu) \in Nat
  BY QueueBounded
<1>1. CASE WaitFence
  BY <1>0, <1>1 DEF WaitFence, DrawSteps
<1>2. ASSUME NEW i \in Images, AcquireSuccess(i) \/ AcquireSuboptimal(i)
      PROVE  at' = "returned" \/ DrawSteps' < DrawSteps
  BY <1>0, <1>2 DEF AcquireSuccess, AcquireSuboptimal, DrawSteps
<1>3. CASE AcquireFails
  BY <1>0, <1>3 DEF AcquireFails, DrawSteps
<1>4. CASE RecordAndSubmit \/ RecreateFails \/ \E size \in Sizes : RecreateSwapchain(size)
  BY <1>4 DEF RecordAndSubmit, RecreateFails, RecreateSwapchain
<1>5. CASE GpuCompletes
  <2>1. Len(gpu') = Len(gpu) - 1 /\ at' = at
    BY <1>5, QueuePositions DEF GpuCompletes, FrameSyncTypeOK
  <2> QED
    BY <1>0, <2>1 DEF DrawSteps
<1>6. CASE EndFrame \/ LeaveLoop \/ destroy \/ FrameRests
           \/ \E wants_shot \in BOOLEAN : BeginFrame(wants_shot)
  BY <1>6 DEF EndFrame, LeaveLoop, destroy, FrameRests, BeginFrame, Drawing
<1> QED
  BY <1>1, <1>2, <1>3, <1>4, <1>5, <1>6 DEF FrameNext, ThreadStep

LEMMA WaitInvariant ==
    FrameSpec => [](FrameSyncTypeOK /\ FenceInv /\ ImageInv /\ SemaphoreInv /\ WaitInv)
<1>1. FrameInit => FenceInv /\ SemaphoreInv /\ ImageInv /\ WaitInv
  <2> SUFFICES ASSUME FrameInit
               PROVE  FenceInv /\ SemaphoreInv /\ ImageInv /\ WaitInv
    OBVIOUS
  <2>1. Held = {}
    BY DEF FrameInit, Held
  <2>2. Cardinality(Held) = 0
    BY <2>1, FS_EmptySet
  <2>3. ImageInv
    BY <2>2 DEF FrameInit, ImageInv, ImagesAccounted
  <2> QED
    BY <2>3 DEF FrameInit, FenceInv, SemaphoreInv, WaitInv, NoSwapchain
<1>2. FrameSyncTypeOK /\ FenceInv /\ SemaphoreInv /\ ImageInv /\ WaitInv
        /\ [FrameNext]_frameVars
        => FenceInv' /\ SemaphoreInv' /\ ImageInv' /\ WaitInv'
  BY FenceInvStep, SemaphoreInvStep, ImageInvStep, WaitInvStep
<1> QED
  BY <1>1, <1>2, FrameTypeCorrect, PTL DEF FrameSpec

\* draw_frame never waits for a fence that nothing will signal, nor, unless a
\* suboptimal acquire cost it too many images, for an image that nobody gives back:
\* whichever frames were given up after the reset of their fence, and whatever
\* became of the swapchain.
THEOREM DrawWaitsForGpuOnly == FrameSpec => []DrawNotStuck
<1>1. FrameSyncTypeOK /\ ImageInv /\ SemaphoreInv /\ WaitInv => DrawNotStuck
  <2> SUFFICES ASSUME FrameSyncTypeOK, ImageInv, SemaphoreInv, WaitInv
               PROVE  DrawNotStuck
    OBVIOUS
  <2>1. ASSUME at = "draw", ~FrameFree
        PROVE  \E job \in InQueue : job.frame = frame_index
    <3>1. frame_index \in Frames
      BY DEF FrameSyncTypeOK
    <3>2. frame_submitted[frame_index] /\ ~in_flight[frame_index]
      BY <2>1 DEF FrameFree
    <3>3. Awaited(frame_index)
      BY <3>1, <3>2 DEF WaitInv
    <3> QED
      BY <3>3 DEF Awaited, InQueue
  <2>2. ASSUME at = "acquire", gpu = <<>>, suboptimals <= ImageCount - MinImageCount
        PROVE  \E i \in Images : MayAcquire(i)
    <3>1. Cardinality(Held) = suboptimals
      <4>1. ~headless /\ swapchain # NoSwapchain
        BY <2>2 DEF SemaphoreInv, WaitInv
      <4>2. suboptimals \in Nat
        BY DEF FrameSyncTypeOK
      <4> QED
        BY <2>2, <4>1, <4>2 DEF ImageInv, ImagesAccounted
    <3> QED
      BY <2>2, <3>1, ImageIsFree
  <2> QED
    BY <2>1, <2>2 DEF DrawNotStuck, WaitInv
<1> QED
  BY <1>1, WaitInvariant, PTL

\* draw_frame comes back after at most three steps of its own and one of the GPU for
\* every frame in flight: nothing it waits for starts anew.
THEOREM DrawFrameIsBounded == FrameSpec => DrawFrameConverges
<1>1. FrameSyncTypeOK /\ FenceInv => (at \in Drawing => DrawSteps <= FramesInFlight + 3)
  <2> SUFFICES ASSUME FrameSyncTypeOK, FenceInv, at \in Drawing
               PROVE  DrawSteps <= FramesInFlight + 3
    OBVIOUS
  <2>1. Len(gpu) \in Nat /\ Len(gpu) <= FramesInFlight
    BY QueueBounded
  <2> QED
    BY <2>1, FramesAssumption DEF DrawSteps, Drawing
<1>2. FrameSyncTypeOK /\ FenceInv /\ [FrameNext]_frameVars
        => [(at \in Drawing) => at' \in {"returned", "ended"} \/ DrawSteps' < DrawSteps]_frameVars
  BY DrawStepsFewer
<1> QED
  BY <1>1, <1>2, WaitInvariant, PTL DEF FrameSpec, DrawFrameConverges
=============================================================================
