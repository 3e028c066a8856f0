---------------------------- MODULE DriverHandles ----------------------------
(***************************************************************************)
(* g_app_driver: the Vulkan instance and device that all renderers of the  *)
(* process share.  Each renderer lives in the thread of its logical loop,  *)
(* holds a counted driver_handler from its constructor to its destructor,  *)
(* and shares the device with the others; the first one decides the mode,  *)
(* whoever comes first to try_init_with_surface makes the device, and the  *)
(* last one to go destroys both.                                           *)
(*                                                                         *)
(* A renderer is reduced to what it asks of the driver: how its frames are *)
(* drawn is the subject of FrameSync.                                      *)
(***************************************************************************)
EXTENDS Naturals, Sequences, FiniteSets

CONSTANTS
    Renderers,         \* the threads that may create a renderer
    NoOwner,           \* init_mtx is free
    Gpus,              \* the physical devices, in the order of their enumeration
    DiscreteBias,      \* 1 << 42, in the unit of memory
    FramesInFlight,    \* k_frames_in_flight
    MaxLives           \* bound: renderers a thread creates, one after the other

ASSUME RenderersAssumption == IsFiniteSet(Renderers) /\ NoOwner \notin Renderers
ASSUME GpusAssumption ==
    Gpus \in Seq([gfx : BOOLEAN, present : BOOLEAN, swapchain : BOOLEAN,
                  type : {"discrete", "integrated", "other"}, memory : Nat])
ASSUME NumbersAssumption ==
    DiscreteBias \in Nat /\ FramesInFlight \in Nat \ {0} /\ MaxLives \in Nat

VARIABLES
    init_mtx,             \* its owner, or NoOwner
    init_done,
    current_drivers_num,
    headless_mode,
    instance,             \* whether it exists
    physical,             \* the place of the device's GPU in Gpus, NoGpu for none
    device,               \* whether it exists
    gfx_queue,            \* whether it, and present_queue, are set
    pc,                   \* where each renderer is
    headless,             \* per renderer: it has no window
    jobs,                 \* per renderer: its submissions not yet executed
    terminated,           \* std::terminate was called
    lives,                \* history: renderers each thread has created
    early                 \* history: renderers that found a device without queues

handleVars == <<init_done, current_drivers_num, headless_mode, instance>>
deviceVars == <<physical, device, gfx_queue>>
driverVars == <<init_mtx, handleVars, deviceVars, pc, headless, jobs, terminated,
                lives, early>>

NoGpu == 0

\* The types of the driver's state.
DriverTypeOK ==
    /\ init_mtx \in Renderers \cup {NoOwner}
    /\ init_done \in BOOLEAN
    /\ current_drivers_num \in Nat
    /\ headless_mode \in BOOLEAN
    /\ instance \in BOOLEAN
    /\ physical \in DOMAIN Gpus \cup {NoGpu}
    /\ device \in BOOLEAN
    /\ gfx_queue \in BOOLEAN
    /\ pc \in [Renderers -> {"off", "surface", "check", "lock", "make", "load", "create",
                             "running", "leaving", "release"}]
    /\ headless \in [Renderers -> BOOLEAN]
    /\ jobs \in [Renderers -> 0..FramesInFlight]
    /\ terminated \in BOOLEAN
    /\ lives \in [Renderers -> 0..MaxLives]
    /\ early \subseteq Renderers

DriverInit ==
    /\ init_mtx = NoOwner
    /\ init_done = FALSE
    /\ current_drivers_num = 0
    /\ headless_mode = FALSE
    /\ instance = FALSE
    /\ physical = NoGpu
    /\ device = FALSE
    /\ gfx_queue = FALSE
    /\ pc = [r \in Renderers |-> "off"]
    /\ headless = [r \in Renderers |-> FALSE]
    /\ jobs = [r \in Renderers |-> 0]
    /\ terminated = FALSE
    /\ lives = [r \in Renderers |-> 0]
    /\ early = {}

At(r, place) == ~terminated /\ pc[r] = place
Goes(r, place) == pc' = [pc EXCEPT ![r] = place]

\* ray_log ends the process, or a crash does.
ProcessEnds(r) ==
    /\ terminated' = TRUE
    /\ UNCHANGED <<init_mtx, handleVars, deviceVars, pc, headless, jobs, lives, early>>

-----------------------------------------------------------------------------
(* The renderer's constructor.                                             *)

\* Mutant: every renderer sets the mode.
init_driver_handler_last_mode(r, mode) ==
    /\ At(r, "off")
    /\ lives[r] < MaxLives
    /\ init_mtx = NoOwner
    /\ init_done' = TRUE
    /\ instance' = TRUE
    /\ headless_mode' = mode
    /\ current_drivers_num' = current_drivers_num + 1
    /\ headless' = [headless EXCEPT ![r] = mode]
    /\ lives' = [lives EXCEPT ![r] = @ + 1]
    /\ Goes(r, "surface")
    /\ UNCHANGED <<init_mtx, deviceVars, jobs, terminated, early>>

\* The whole function holds init_mtx.  graphic_init makes the instance, with the
\* extensions for windows or without, as the first renderer needs it.
init_driver_handler(r, mode) ==
    /\ At(r, "off")
    /\ lives[r] < MaxLives
    /\ init_mtx = NoOwner
    /\ init_done' = TRUE
    /\ instance' = TRUE
    /\ headless_mode' = IF init_done THEN headless_mode ELSE mode
    /\ current_drivers_num' = current_drivers_num + 1
    /\ headless' = [headless EXCEPT ![r] = mode]
    /\ lives' = [lives EXCEPT ![r] = @ + 1]
    /\ Goes(r, "surface")
    /\ UNCHANGED <<init_mtx, deviceVars, jobs, terminated, early>>

\* An instance made for a headless renderer cannot make a window's surface.
create_surface(r) ==
    /\ At(r, "surface")
    /\ IF ~headless[r] /\ headless_mode
       THEN ProcessEnds(r)
       ELSE /\ Goes(r, "check")
            /\ UNCHANGED <<init_mtx, handleVars, deviceVars, headless, jobs, terminated,
                           lives, early>>

\* try_init_with_surface first looks at the device without the lock: another
\* renderer may be between making it and fetching its queues.
CheckDevice(r) ==
    /\ At(r, "check")
    /\ Goes(r, IF device THEN "create" ELSE "lock")
    /\ early' = IF device /\ ~gfx_queue THEN early \cup {r} ELSE early
    /\ UNCHANGED <<init_mtx, handleVars, deviceVars, headless, jobs, terminated, lives>>

\* With a device there is nothing to do under the lock but to release it.
LockDevice(r) ==
    /\ At(r, "lock")
    /\ init_mtx = NoOwner
    /\ init_mtx' = IF device THEN NoOwner ELSE r
    /\ Goes(r, IF device THEN "create" ELSE "make")
    /\ UNCHANGED <<handleVars, deviceVars, headless, jobs, terminated, lives, early>>

\* A GPU that graphic_init_surface does not pass over.
MayUse(gpu, mode) ==
    /\ gpu.gfx
    /\ mode \/ (gpu.swapchain /\ gpu.present)
    /\ gpu.type \in {"discrete", "integrated"}

Weight(gpu) == gpu.memory + IF gpu.type = "discrete" THEN DiscreteBias ELSE 0

\* The first of those that weigh most, if they weigh anything.
Candidates(mode) ==
    {i \in DOMAIN Gpus : MayUse(Gpus[i], mode) /\ Weight(Gpus[i]) > 0}
IsBest(i, mode) ==
    /\ i \in Candidates(mode)
    /\ \A j \in Candidates(mode) :
         \/ Weight(Gpus[j]) < Weight(Gpus[i])
         \/ Weight(Gpus[j]) = Weight(Gpus[i]) /\ i <= j

\* graphic_init_surface, up to vkCreateDevice.  A headless renderer has no surface
\* to ask a GPU about; a driver made for windows asks all the same, and the call
\* crashes.
graphic_init_surface(r) ==
    /\ At(r, "make")
    /\ \/ /\ headless_mode \/ ~headless[r]
          /\ \E i \in DOMAIN Gpus : IsBest(i, headless_mode) /\ physical' = i
          /\ device' = TRUE
          /\ Goes(r, "load")
          /\ UNCHANGED <<init_mtx, handleVars, gfx_queue, headless, jobs, terminated,
                         lives, early>>
       \/ /\ (headless[r] /\ ~headless_mode) \/ Candidates(headless_mode) = {}
          /\ ProcessEnds(r)

\* Its end: volkLoadDevice, the two queues, and the lock is released.
LoadQueues(r) ==
    /\ At(r, "load")
    /\ gfx_queue' = TRUE
    /\ init_mtx' = NoOwner
    /\ Goes(r, "create")
    /\ UNCHANGED <<handleVars, physical, device, headless, jobs, terminated, lives, early>>

\* The rest of create, and the scene's init, which uploads the font through
\* gfx_queue: without the queue that may crash.
create(r) ==
    /\ At(r, "create")
    /\ \/ /\ Goes(r, "running")
          /\ UNCHANGED <<init_mtx, handleVars, deviceVars, headless, jobs, terminated,
                         lives, early>>
       \/ ~gfx_queue /\ ProcessEnds(r)

-----------------------------------------------------------------------------
(* The renderer at work, and its destructor.                               *)

\* draw_frame refuses to draw without a queue, and the loop ends.
draw_frame(r) ==
    /\ At(r, "running")
    /\ IF gfx_queue
       THEN /\ jobs[r] < FramesInFlight
            /\ jobs' = [jobs EXCEPT ![r] = @ + 1]
            /\ UNCHANGED pc
       ELSE /\ Goes(r, "leaving")
            /\ UNCHANGED jobs
    /\ UNCHANGED <<init_mtx, handleVars, deviceVars, headless, terminated, lives, early>>

LeaveLoop(r) ==
    /\ At(r, "running")
    /\ Goes(r, "leaving")
    /\ UNCHANGED <<init_mtx, handleVars, deviceVars, headless, jobs, terminated, lives,
                   early>>

\* Mutant: it waits until no renderer has anything left to execute.
destroy_waits_for_all(r) ==
    /\ At(r, "leaving")
    /\ \A other \in Renderers : jobs[other] = 0
    /\ Goes(r, "release")
    /\ UNCHANGED <<init_mtx, handleVars, deviceVars, headless, jobs, terminated, lives,
                   early>>

\* renderer::destroy: vkDeviceWaitIdle waits for the renderer's own submissions,
\* and for those of the others that came before.
destroy(r) ==
    /\ At(r, "leaving")
    /\ jobs[r] = 0
    /\ Goes(r, "release")
    /\ UNCHANGED <<init_mtx, handleVars, deviceVars, headless, jobs, terminated, lives,
                   early>>

\* Mutant: the first renderer to go takes the driver with it.
IsLast_never_counts == TRUE

IsLast == current_drivers_num = 1

\* The whole function, graphic_destroy included, holds init_mtx.
driver_handler_deleter(r) ==
    /\ At(r, "release")
    /\ init_mtx = NoOwner
    /\ current_drivers_num' = current_drivers_num - 1
    /\ IF IsLast
       THEN /\ init_done' = FALSE /\ instance' = FALSE
            /\ physical' = NoGpu /\ device' = FALSE /\ gfx_queue' = FALSE
       ELSE UNCHANGED <<init_done, instance, deviceVars>>
    /\ early' = early \ {r}
    /\ Goes(r, "off")
    /\ UNCHANGED <<init_mtx, headless_mode, headless, jobs, terminated, lives>>

-----------------------------------------------------------------------------
GpuCompletes(r) ==
    /\ ~terminated
    /\ jobs[r] > 0
    /\ jobs' = [jobs EXCEPT ![r] = @ - 1]
    /\ UNCHANGED <<init_mtx, handleVars, deviceVars, pc, headless, terminated, lives,
                   early>>

\* What the thread of a renderer does once it has begun to create one.
RendererStep(r) ==
    \/ create_surface(r)
    \/ CheckDevice(r)
    \/ LockDevice(r)
    \/ graphic_init_surface(r)
    \/ LoadQueues(r)
    \/ create(r)
    \/ destroy(r)
    \/ driver_handler_deleter(r)

DriverRests ==
    /\ terminated \/ \A r \in Renderers : pc[r] = "off" /\ lives[r] = MaxLives
    /\ UNCHANGED driverVars

DriverNext ==
    \/ \E r \in Renderers :
         \/ \E mode \in BOOLEAN : init_driver_handler(r, mode)
         \/ RendererStep(r)
         \/ draw_frame(r)
         \/ LeaveLoop(r)
         \/ GpuCompletes(r)
    \/ DriverRests

DriverSpec == DriverInit /\ [][DriverNext]_driverVars

\* The threads are scheduled and the GPU makes progress.  The mutex need not be
\* fair, for a thread creates finitely many renderers; how long a loop runs is open.
DriverFairSpec ==
    /\ DriverSpec
    /\ \A r \in Renderers :
         WF_driverVars(RendererStep(r)) /\ WF_driverVars(GpuCompletes(r))

-----------------------------------------------------------------------------
(* Properties.                                                             *)

\* Where a renderer uses the device.
Using == {"create", "running", "leaving"}

\* The instance exists as long as a renderer holds a handle, and the device as
\* long as one uses it or the GPU executes what one submitted -- whichever
\* renderer made them, and in whatever order the others come and go.
DeviceOutlivesUse ==
    \A r \in Renderers :
        /\ pc[r] # "off" => instance
        /\ pc[r] \in Using \/ jobs[r] > 0 => device

\* The device fits its users: one with a window finds a GPU that can present,
\* though the device may have been made for another renderer; and all but those
\* that found it between vkCreateDevice and vkGetDeviceQueue find its queues.
DeviceFitsUse ==
    ~terminated =>
        \A r \in Renderers :
            pc[r] \in Using =>
                /\ physical # NoGpu
                /\ ~headless[r] => MayUse(Gpus[physical], FALSE)
                /\ gfx_queue \/ r \in early

\* A renderer that leaves its loop goes, and one that was begun is created or
\* ends the process: nobody waits for ever for init_mtx or for the device.
RendererProceeds ==
    \A r \in Renderers :
        /\ (pc[r] = "leaving") ~> (pc[r] = "off" \/ terminated)
        /\ (pc[r] = "surface") ~> (pc[r] = "running" \/ terminated)
=============================================================================
