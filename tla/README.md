# RandomRaypath in TLA+

RandomRaypath is a Vulkan renderer of 2D scenes that can be driven from outside: an agent calls MCP tools
of a Python server, the server sends sets of commands over TCP, and the renderer executes one set per
frame and answers it. This directory models the parts of it in which order, concurrency and
failure matter, checks them with TLC and proves the central results with TLAPS.

```
 agent --tools--> RaypathMCPServer --- RemoteControlServer ===TCP/JSON lines=== remote_control_client
                       |                  (asyncio)                             (network thread, asio)
                       | launches                                                 | incoming_queue
                       v                                                          | outgoing_queue
                 the renderer process                                             v
                                     logical_thread::operator()  --- base_scene --- window, camera, crates
                                       (frame loop)                   |
                                          | draw_frame                | handles, draw objects
                                          v                           v
                                       renderer  ---------------- pipeline_manager, object_2d_pipeline
                                          |                           |
                                          +------------ GPU ----------+
```

## 1. Inventory

| component | source | state | operations | modules |
|---|---|---|---|---|
| frame loop | `engine/logical_loop.cpp` | command queue, command in hand, answer begun, pass count, pause mode | one iteration: intake, tick, answer; set-up; shutdown | LogicalLoop, FrameService |
| command handlers | `logical_scene/core/base_scene.cpp` | shutdown flag | inject_remote_control_pre / _post, tick | LogicalLoop (answers), RemoteInput (input) |
| remote client | `network/remote_control/` | both queues, connection_alive, pending answers | connect, read, write, retry, stop | ControlFrames, ControlQueues, ControlWire, RemoteClient, RemoteApp |
| control server | `remote_control_server.py` | session tag, net id, staged commands, client, answer queue, pending count | stage, commit, receive, connect, disconnect | RemoteServer |
| MCP tools | `mcp_server.py` | the application process | stage, commit, discard, wait, launch, shut down | McpSession |
| renderer | `graphics/rhi/renderer.cpp` | frame index, fences, semaphores, swapchain, screenshot latch and staging buffer | draw_frame, recreate_swapchain, screenshot, destroy | FrameSync |
| object_2d_pipeline | `pipeline/object_2d_pipeline.h`, `pipeline/impl/` | Vulkan objects and descriptor sets, draw objects, update flags, render order, per-frame mapped buffers, glyph atlas | construct, add, remove, change, update memory, resize, update swapchain, destroy | RenderFrames |
| pipelines, handles, ids | `pipeline_manager.*`, `pipeline.h`, `ray_index.h` | pipelines in draw order, free ids, cached indices | create, destroy, find | Pipelines |
| window | `graphics/window/window.cpp` | wheel, injected position, buttons, scroll | draw_window, getters, inject, clear | RemoteInput, LogicalLoop |
| world view | `logical_2d_world_view.cpp` | camera, drag base | tick_camera_transform | RemoteInput |
| crate simulation | `logical_crate_sim.cpp` | focus, capture; positions and velocities | tick | RemoteInput (focus and capture) |
| text lines, HUD, cursor, grid | `logical_system/` | draw objects they own | create, update, destroy | Pipelines (as owners) |
| graphics driver | `g_app_driver.cpp` | counted handles, mode, instance, device and its queues | init, make the device, release | DriverHandles |
| configuration, logging, profiling, glyph files, connection test | `config/`, `utils/`, `network/connection_test.cpp` | none that changes in operation | reading and writing files | not modelled |

Interaction. The logical thread and the network thread share two mutex-protected queues and a stop token;
everything else is owned by one of them. The stop callback is the exception: it closes the socket from the
logical thread. Instance and device are shared by all renderers of the process, one per logical thread, under a mutex
that is not taken everywhere. Renderer and GPU share per-frame resources guarded by fences. The Python server is one
event loop: its coroutines interleave at `await`.

Hard behaviours, and what makes a component correct:

* *Loop and protocol.* Frames must be executed in the order they arrived and be answered once each, with
  pauses, missed ticks, given-up frames and shutdown in between; a screenshot must be of the frame that
  asked for it although a frame may be given up after the request.
* *Connection.* It drops and comes back at any moment; no frame may be taken twice or out of order, no
  answer duplicated, and none lost while the connection stands. Shutdown must not hang.
* *Server.* A commit may be suspended in `drain()` while another connection replaces its own; names of
  frames must stay unique, and an agent that harvests until nothing is pending must have got everything
  it can get.
* *Rendering.* The CPU records a frame while the GPU executes another; nothing in use may be written,
  resized or replaced, no wait may be for a signal that never comes, and yet every frame must be current.
* *Handles.* Ids are recycled and positions cached; a handle must keep finding its own object.
* *Ownership of Vulkan objects.* They are created and destroyed by hand, across resizes, new swapchains and the end of
  the scene: none may be overwritten while alive, and none destroyed while a submission uses it.
* *The shared device.* It is made by whoever comes first and destroyed by whoever goes last.
* *Input.* Overrides, scrolls, drags and captured crates outlive the frame that began them.

`PROJECT.json` lists every hazard at its line with the properties aimed at it.

## 2. Modules

Names follow the source: `PreExecute`, `inject_remote_control_pre`, `pass_control_frames`. Variables marked *history*
in a module are not program state; they record what happened so that a property can speak of it.
Mutated forms (`Definition_what`) stand before the definition they mutate; they are used by no
specification.

**ControlFrames, ControlQueues, ControlWire** are the shared vocabulary: command sets, answers and
how a line is parsed (a line that cannot be parsed becomes an *empty* frame, which is executed and
answered like any other); the two queues; TCP connections as reliable byte streams per
direction, each end open or closed, or reset with what was in transit lost.

**LogicalLoop** is `logical_thread::operator()` and `tick()`. The steps of an iteration are `Pre...`
(intake: no client, a pass frame, idle, or execute), `Tick...` (the outcomes of `tick()`: window closed,
minimised, paused, shut down, played) and `Post...` (answer). `TickPlays` includes `draw_frame` as its
two outcomes (drawn, given up) and with it the capture of the screenshot; a frame that fails is a fatal log, which
ends the process. The network
thread is an environment that may deliver any line at any time.

**FrameService** is what the loop promises from outside: command sets are executed one by one in
the order accepted, and each is answered before the next is executed or the service stops. `LogicalLoop`
implements it under the mapping `accepted <- received, answered <- Len(sent)`.

**RemoteClient** is `network_loop` with its two coroutines: the code between two `co_await`s is one action.
**AppControl** puts it in the environment's place in `LogicalLoop`, with the stop callback in the logical thread's step
`RequestNetStop`, and adds a peer that numbers its frames as the protocol asks.

**RemoteApp** is what these two threads promise the server: a queue of frames that were read and whose answers' fate is
open, answered on the wire in order and at most once, given up only with the connection or the process, and what the
process may still do once its loop has ended. `AppControl` implements it under the mapping
`process <- IF net_stop THEN "exited" ELSE "running"`, `app_queue <- the frames received beyond those settled`, wherever in the
two threads they are. RemoteApp also says what the peer and the network may do to the process (`PeerMay`).

**RemoteServer** is `RemoteControlServer`: commit, drain, receive, the connection handler, each split at its
awaits. **McpSession** adds the tools called one at a time by an agent, and composes the server with `RemoteApp` in place of
the application process: an application may exit at any moment, asked or not, lose answers with a connection, and connect again.

**FrameSync** is `draw_frame` split where it may block (fence wait, acquire), `recreate_swapchain`, the
screenshot latch, the end of the loop with `renderer::destroy`, which waits for the device, and a GPU that executes
submissions in order whenever it likes. Images move between `engine`, `app` and `gpu`. A suboptimal acquire loses its
image, as in the code.

**RenderFrames** extends FrameSync with one `object_2d_pipeline` from the scene's `init` to its `cleanup`: what
`construct_pipeline` creates, counted by kind (`allocated`) so that a handle overwritten while it is alive leaves
a trace; the descriptor sets (`bound`); changes to objects and camera in the tick;
`update_object_memory`, which runs while a frame is recorded and writes that frame's buffers only; capacity that grows and
shrinks; `update_swapchain`. A glyph pipeline (`HasAtlas`) also has its atlas texture, which its destructor does not
reach. What a submission reads is recorded when it is submitted (`shown`). RenderFrames refines FrameSync.

**Pipelines** is the pipeline manager with the shared id pool: creation and destruction of pipelines
and objects in any order, handles with cached indices. `renderer_shutdown` clears the vector one
destructor per step.

**DriverHandles** is `g_app_driver` under renderers of several threads: the counted handles, the mode that the first one
decides, the look at `device` without the mutex and again with it, the choice of a GPU, and `graphic_destroy` by the last
one. A renderer is reduced to what it asks of the driver. The functions that run under `init_mtx` from end to end are one
action; `graphic_init_surface` is two, because others can see the device before its queues.

**RemoteInput** is the effect of a command on the scene: injected position, buttons and scroll, the
order in which a command set is handled, `tick_camera_transform`, and the focus and capture of crates.
Coordinates are exact and one-dimensional (both axes are computed alike); a zoom of `exp(d)` is `2^d`.

**LogicalLoopProofs, AppControlProofs, McpSessionProofs, FrameSyncProofs, RenderFramesProofs, PipelinesProofs,
DriverHandlesProofs and RemoteInputProofs** hold theorems and proofs. **MC...** modules give constants.

How the modules compose: `AppControl` is `LogicalLoop` and `RemoteClient` over the wire of `ControlWire`, and implements
`FrameService` and `RemoteApp`; `McpSession` is `RemoteServer` with the tools and `RemoteApp`; `RenderFrames` is `FrameSync`
with a pipeline. `Pipelines`, `DriverHandles` and `RemoteInput` stand alone.

The two halves of the remote control meet in `RemoteApp`, and each is proved against it. Under a peer that does anything
`PeerMay` allows, with frames of any name and body (`FrameBodies` and `FrameNames` are parameters), the two threads
implement it (`AnyPeerIsServed`; `AppImplementsRemoteApp` is the same for AppControl's own peer, which TLC runs). Next
to an application that does anything `RemoteApp` allows, server, tools and network keep to `PeerMay`, send whole lines
only, and launch a process in the state `RemoteAppInit` describes (`ServerIsPeer`). All of this is safety, and neither
side can be the first to break its promise, so what is shown of a session in `McpSession` holds with the two threads of
`AppControl` in it, although no module runs all of them at once. That last step, and the renumbering of connections when
a process is launched again, is this argument and not a theorem.

## 3. Runs

| run | question | properties |
|---|---|---|
| `loop` | does the frame loop keep the protocol in every configuration? | FramesInReceiptOrder, OneAnswerPerFrame, TicklessAdvancesByCommand, PassTicksRespected, ScreenshotIsOfItsFrame, ReceivedIsExecuted, FrameServiceSpec |
| `app` | do both threads together, over connections that fail? | ReceivedInCommitOrder, AnswersConserved, RemoteAppSpec, AnswersFlow, AppShutdownEnds |
| `mcp` | do names stay unique and answers in order on the server's side? | NamesUnique, HarvestInCommitOrder, PendingCoversCommits |
| `frames` | are frames in flight kept apart, and does draw_frame return? | NoReuseInFlight, DrawFrameReturns, AcquireSemaphoreFree, ImagesAccounted, StagingNotInUse, PresentLayoutTrue |
| `render` | is what the GPU reads current and stable, and is everything destroyed? | InFlightMemoryStable, DrawnIsCurrent, OrderAtMostOneFrameLate, OnlyAtlasLeaks |
| `pipelines` | do handles survive recycled ids? | PoolPartition, HandleFindsItsObject |
| `input` | does input do what was commanded, and once? | AimHolds, DragHoldsPoint, ScrollActsOnce, HeldCrateStays |
| `driver` | does the shared device outlive and fit its users? | DeviceOutlivesUse, DeviceFitsUse, RendererProceeds |

Six of the runs also check a type invariant; those of AppControl and DriverHandles are proved (section 4). Four runs show
a disagreement and are meant to be violated:

* `last_answer`: the answer to a shutdown command is dropped with a faultless network, because the stop
  callback closes the socket before the writer's 20 ms timer has fired.
* `response_order`: the answer to the shutdown tool's own frame stays in the answer queue and is returned to the first
  wait of the next session, the None of the closed connection to the second; from then on the responses lag two waits
  behind the commits. The run holds the agent to the protocol (`orderly`: it commits only to an application it has
  launched and not shut down, waits once per commit, and relaunches when all commits are answered), so the trace has two
  launches: commit, response, shutdown, launch, commit, and a response with the shutdown's net id.
* `cleanup_in_use`: the scene's `cleanup` destroys the pipeline, its buffers and descriptor sets without waiting for the
  device, while the last submissions may still read them; everywhere else the code waits.
* `stray_wheel`: a headless window never initialises `mouse_wheel_delta_frame`, which every tick reads.

Seen while modelling and not shown by a run of their own: `debug_command` gets no answer (`base_scene.cpp:87`), although
CONTROL_PROTOCOL.md:28 promises one for the full command set, for which reason `OneAnswerPerFrame` excepts it; ticks promised by
`pass_ticks_after` are counted but not played while the window is minimised (`logical_loop.cpp:90,172` against
`mcp_server.py:359`); and `~object_2d_pipeline` calls a virtual function in which the override of `glyph_pipeline` is not
reached any more, so that the atlas texture is never destroyed, which `OnlyAtlasLeaks` excepts.

Some properties carry a condition that names such a fault, and hold without it:
`AcquireSemaphoreFree`, `DrawFrameReturns` and `ImagesAccounted` make allowance for images lost to
suboptimal acquires; `PresentLayoutTrue` for an image captured late, by a frame that had not asked
(`screenshot_data_ready` is then left set and the layout of later frames is stated wrongly);
`PassTicksRespected` and the liveness properties of the loop are about headless servers, as a minimised
window stops the loop in `glfwWaitEvents`.

### Bounds, and why they are enough

* `loop`: two frames (`MaxFrames`) with five kinds of command set, among them a screenshot, a shutdown and pass
  counts of 2 and -1. Two frames are what it takes for something left behind by one to meet another: a late screenshot, a pass count
  overwritten, a queue out of order. `PlayedCap` is above every tick count that a property compares with. All
  eight combinations of tickless, window and remote.
* `app`: two frames, two connections, one reset: a frame may be read on one connection and answered on the
  next, and the stop may meet every phase of the network thread.
* `mcp`: two launches, two connections, three commits, two waits, one reset: enough for a commit suspended across a
  reconnect, a stale handler, and answers left over from a session.
* `frames`: two frames in flight as in the code, three images, three swapchains, two sizes, with and without a window.
* `render`: a glyph pipeline (`HasAtlas`); two objects at most, one in a windowed run (`FewObjects`), where a swapchain is
  created again once: growth and shrinking happen at one and two objects with `InitCapacity` 1, and
  a second frame's buffer is stale whenever the first one was written. The constraint only cuts
  what follows from states with more objects.
* `pipelines`: three pipelines of two priorities, four objects: an id is freed, reused by another
  pipeline, and freed again.
* `driver`: three threads, each of which may create a second renderer after its first, so that the driver
  is destroyed and made again; one frame in flight each; a discrete GPU that cannot present and weighs more than the one that
  can: a headless driver takes the one that a windowed driver must pass over.
* `input`: five iterations, three command frames of six kinds, two crates, with and without a window. A frame is about all it takes to
  begin something (a drag, a carry, an override), a second to disturb it and a third to end it.

Deadlock is checked everywhere but in `pipelines` (`CHECK_DEADLOCK FALSE`), where a bounded number of creations leaves
nothing to do.

### Fairness

Safety runs assume none. `LoopFairSpec` and `AppFairSpec` assume that the two threads are scheduled, and that an
attempt to resolve, connect or write comes to an end, which the operating system's time-outs
give; nothing is assumed of the peer, of the network or of the user. `LoopFairSpec` also assumes that a
network thread told to stop exits, which `app` checks of the network thread itself (`AppShutdownEnds`).
`FrameFairSpec` assumes that the logical thread runs, and that the GPU and the presentation engine make progress.
`DriverFairSpec` assumes that the threads that create or destroy a renderer are scheduled and the GPU makes progress; how
long a loop runs is left open, and the mutex need not be fair because a thread creates finitely many renderers.

## 4. Proofs

Proved for every value of the constants that meets the named assumptions (the checked instances
are one choice of them), with any number of frames:

*LogicalLoopProofs*, from `PlayedCapAssumption` and its companions:

| theorem | strengthening and why it is needed |
|---|---|
| LoopTypeCorrect | `InHand`: a command is in hand exactly between intake and answer, is the last one executed, and its answer has been begun for exactly the commands the first half answers. Without it the answer stage might dereference an empty optional. |
| ReceiptOrder | `OrderInv`: besides the order itself, `command_queue` is empty between iterations; else a frame polled later could overtake. |
| OneAnswer | from `InHand`: at the answer stage the two halves together cover the command set. |
| LoopImplementsService | step by step from `OrderInv`, `InHand` and one answer per frame: each step of the loop is a step of FrameService or a stutter. |
| ScreenshotFresh | `ShotInv`: while a frame that asked for a screenshot is in hand, an image that is ready is its own. |
| PassTicks | `PlaysInv`: on a headless server, ticks played plus ticks still due (`Due`) are at least those bought. |
| TicklessWaits | `TicklessInv`: in a tickless scene they are at most those bought. |
| NextFrameIsNear | `LeftInv`: the ticks still to be spent (`TicksLeft`) are never more than the last frame bought. With a frame waiting on a headless server, each step of the loop takes one from `StepsToNext`, executes exactly the next frame received, or ends the loop; no step of another thread adds to it. |

*AppControlProofs*, for any number of frames, connections and resets:

| theorem | strengthening and why it is needed |
|---|---|
| AppTypeCorrect | `ClientInv`: the coroutines run and have a connection only inside `io.run()`, and answers are pending only in a write. Without it a read might be of a connection that does not exist. |
| AppImplementsService | each step of the network thread is one of the environment that LogicalLoop was proved under, or is not seen by the loop: what LogicalLoopProofs shows carries over to the real network thread. |
| AnswersAreConserved, LossIsDisconnect | step by step: answers settled, pending and queued add up (`Sum`) to those posted, in order. |
| AppImplementsRemoteApp | the answers settled are those of the first frames received, in order (`OneAnswer`, `AnswersAreConserved`), so that one more settled answer is the oldest entry of the abstract queue; `LinkInv`: who writes has the connection, who gave up lost it, and after the stop request the socket is closed. |
| AnyPeerIsServed | the same invariants under any peer: `PeerMay` keeps the app's end and never brings a connection back (`EndsFade`). |
| ShutdownIsBounded | `ToldInv`: requests to stop are not taken back and the loop joins only after its request. `LoopStepsLeft` (at most 5) and, after the stop request, `ClientStepsLeft` (at most 7, besides lines that are still read) fall with every step of their thread and rise with none. |
| ShutdownWaitsForNothing | from the same: the guard of some step of the thread that has to go on always holds; the stop callback has closed the socket, so that neither coroutine waits for the peer. |
| CoroutinesKeepGoing | `LinkInv` again: a reader that returned has taken `connection_alive` down, which ends the writer at its next timer. |
| ReceivedOrdered | `ArrivalInv`: names of committed frames are unique because ids only grow within a session, and what is received and in transit is ordered by the place of commit. |

*McpSessionProofs*, for any number of commits, connections, launches and resets:

| theorem | strengthening and why it is needed |
|---|---|
| SessionTypeCorrect | `SessionTypes`: every connection the server speaks of exists, and `session_tag` is the number of those it accepted, which keeps the tag in range. |
| NamesAreUnique | `NamesInv`: every name given out is behind the one the next commit takes, in its session or in an earlier one. |
| HarvestOrdered | `WireInv`: a connection that is not the last is lost to the server or to the network, so no answer arrives there any more. `FlowInv`: a name travels through six places, from the write buffer of a suspended commit to the harvest; a step moves items from one place to the next, drops some, or adds a new name behind all others, so that read together the places are always in the order of the commits. A frame whose commit fails is never answered, because its connection is gone by then. |
| ServerIsPeer | `NoProcessNoTraffic`: what is launched starts without a connection and without a queue; then each step of a tool, of a coroutine of the server or of the network is one of `PeerMay` on one connection, or leaves the wire alone. |
| PendingCovers | `KnownInv` and the other half of `FlowInv`: what travels belongs to a returned commit or to the one being drained, each once, so that an answer taken from the queue lowers the number of commits without one together with `pending_count`. |

*FrameSyncProofs*, for any number of frames in flight and any surface:

| theorem | strengthening and why it is needed |
|---|---|
| FrameTypeCorrect | inductive as it stands. |
| NoReuse | `FenceInv`: a frame with a submission in the queue has `frame_submitted` set and its fence unsignalled, and has one submission only; `frame_submitted` is what makes the wait happen. |
| SemaphoreFree | `SemaphoreInv`: a signalled semaphore has a submission that waits for it, or belongs to the frame being recorded, unless an image was lost. |
| PresentLayout | `LayoutInv`: `screenshot_data_ready`, from which the barrier takes the old layout, is only up between a capture and the end of the iteration that asked for it, unless an image was captured late. |
| StagingSafe | `StagingInv`: a submission that copies fits into the staging buffer, so that it is replaced only for a larger extent, which only an idle device gets. |
| ImagesAccountedFor | `ImageInv`: the images of queued submissions are distinct and the GPU's, the one being recorded is the application's; the count follows. |
| DrawWaitsForGpuOnly | `WaitInv`: a frame marked submitted whose fence is not signalled has its submission in the queue, also where the fence was reset and the frame given up. And from `ImageInv`: with an idle GPU every image is the engine's but those lost to suboptimal acquires. |
| DrawFrameIsBounded | `QueueBounded`: one submission per frame at most are queued, so that draw_frame, with the submissions it may wait for, is never more than `FramesInFlight + 3` steps from its return. |

*RenderFramesProofs*, for any number of objects, looks, resizes and swapchains:

| theorem | strengthening and why it is needed |
|---|---|
| RenderImplementsFrames | each step is a step of FrameSync or a stutter: everything proved there holds here. |
| RenderTypeCorrect | with all of the below: `ShapeInv` (the buffers have one length, which no order exceeds), `ArrangedInv` (a clean order names every object once, by the z_order it has seen), `FreshInv` (a slot that is marked valid holds its object as it is, unless that changed since the last frame). |
| MemoryStable | from `NoReuse` of FrameSync: memory that is written belongs to the frame being recorded, which no submission in the queue has; and buffers are replaced only when the queue is empty. |
| DrawnCurrent | from `ArrangedInv` and `FreshInv` at the end of `draw_commands`, where every slot has been visited. |
| OrderLate | from `ArrangedInv`: an order rebuilt or kept while no z_order changed is sorted by the present ones. |
| AtlasOnly | from the last conjunct of `ShapeInv`: of every kind but the atlas there is exactly one as long as the pipeline exists, and none after it. |

*PipelinesProofs*, for any number of pipelines and objects:

| theorem | strengthening and why it is needed |
|---|---|
| PipelinesTypeCorrect | an id that is allocated is never 0 and never above the number of objects ever made. |
| PoolIsPartition | `PartitionInv`, the property one element at a time: no id is free twice, free and used, or used twice; none up to `last_max_index` is forgotten. |
| HandlesFind | `SortedInv`: objects are sorted by id, which is what binary search needs and what insertion at the lower bound keeps, though ids come back in any order; `OwnedInv`: the object of a handle is somewhere in its pipeline under the handle's id. As ids are unique, whatever position matches is the right one. |

*DriverHandlesProofs*, for any number of threads and any GPUs:

| theorem | strengthening and why it is needed |
|---|---|
| DriverTypeCorrect | `CountInv`: the counter is the number of renderers that hold a handle, so the unsigned counter never wraps, and the driver is initialised exactly while there is one. |
| DeviceSafe | `OwnerInv` and `UseInv`: the device is made by the owner of the mutex, and who is past that point keeps the driver alive by its own handle. |
| DeviceFits | `QueueInv`: the device lacks its queues only while it is made; `FitInv`: it was chosen for the driver's mode, and a renderer with a window got its surface only from a driver made for windows. |
| DriverNeverStuck | from `OwnerInv`: the owner of `init_mtx` is inside one of two functions, neither of which waits; the first of them finds a GPU where one can be used, because a finite set of GPUs ordered by score and place has a first element (lemma `OneGpuIsChosen`). |
| RendererIsBounded | no invariant: `StepsLeft` falls with each step of a renderer that is underway, and with each of the GPU it waits for, and no other renderer changes it. |

*RemoteInputProofs*, for any resolution, zoom limits, commands, wheel movements and crates:

| theorem | strengthening and why it is needed |
|---|---|
| InputTypeCorrect | `TicksInv`: an iteration begun is within the bound. Positive commanded zooms are assumed (`CommandedZoomAssumption`), not shown: `base_scene` checks none, and the example of CONTROL_PROTOCOL.md:19 sends 0. Then no division by the zoom leaves the numbers. |
| ZoomReturnsToLimits | without that assumption: only the shape of the camera is needed. `ClampLimits`: the clamp is applied whatever comes out of the exponential, so a tick that scrolls ends within the limits also after a commanded 0 (in floats, unless the exponential overflows). |
| AimIsHeld | `AimInv`, the property for the pointer a command has put there. `ScreenShows`: a command puts it where its point is shown; `ZoomHolds`: a zoom keeps the point under it, also where the division is not exact, because both sides round alike. |
| ScrollOnce | `ScrollInv`: a scroll is gone by the tick after the one of the frame that commanded it. |
| HeldStays | `CarriedInv`: a crate is carried only with the focus on it. |
| DragHolds | under the hypothesis `DragIsExact`: in each tick of a drag the way of the mouse is a multiple of the zoom that divides it, which every step of the checked instance satisfies. `SplitDivision`: then taking the division apart loses nothing. |
| DragDrift | no hypothesis: a division taken apart loses 0 or 1 (`SplitDivision`), so the point slips by a unit per tick at most. Its sign is that of `\div`, which rounds down, and not of the floats of the code. Zooming adds nothing (`ZoomHolds`). |

### What the proofs say of progress

Liveness is out of the prover's reach, but most of it rests on safety, and that part is proved. Each of the five liveness
properties says that something comes to an end. Behind each stand a theorem that a step which has to come is possible whatever
the others do (`...NotStuck`, `DrawWaitsForGpuOnly`), a theorem that such a step brings the end nearer by a measure that
nothing else raises (`...IsBounded`, `NextFrameIsNear`), or both:

| property | not stuck | comes nearer |
|---|---|---|
| ReceivedIsExecuted | (no step of the loop waits on a headless server) | NextFrameIsNear |
| AppShutdownEnds | ShutdownWaitsForNothing | ShutdownIsBounded |
| AnswersFlow | CoroutinesKeepGoing | |
| DrawFrameReturns | DrawWaitsForGpuOnly | DrawFrameIsBounded |
| RendererProceeds | DriverNeverStuck | RendererIsBounded |

Where it is bounded, the fairness of section 3 does the rest, which TLC checks on the instances. `AnswersFlow` has no measure: the
peer may commit for ever, and each answer waits for those before it only.

### Only model-checked

The five liveness properties themselves, for the reason above; and the four runs that show a disagreement, whose
counterexamples are TLC's. Every invariant and every action property of the passing runs is proved.

## 5. What is not modelled

* Values: colours, geometry, glyphs, file contents, the wording of answers, time. Floating-point rounding; a camera
  zoom of 0, which the code accepts and divides by.
* A buffer of an `object_2d_pipeline` that cannot be created or mapped: the code warns and writes through a null pointer. A
  failure while a swapchain is made is fatal and ends the process; it is modelled as no step.
* The render-finished semaphores: one per frame and not per image, which nothing in the code observes.
* The physics of the crates, the interactive console of the Python server, the build it starts.
* Submissions of several renderers to the one `gfx_queue`, which no mutex guards: `main.cpp` makes a single loop.
  DriverHandles lets several renderers live at a time, as the counted handles intend, and counts their submissions apart.
* HUD, cursor and grid systems, which present state kept elsewhere; the list of pipelines the world view tells camera and time.
* Configuration and entry point, the connection test, glyph files, logging, profiling and time: sequential reading and
  writing, with no state that changes in operation.
* A second window in the same process, which a comment in `window.cpp` rules out.

## 6. Plan

Order of work: the loop and its promise first, since everything else serves it; then the
connection, the server, the frames in flight, what they draw, who owns it, and what commands do to the scene. This is
done, and so are the life of a pipeline in RenderFrames, DriverHandles, RemoteApp between the two halves of the remote
control, and the proofs for every component. Next:

1. A composition of Pipelines and RenderFrames: several pipelines drawn in order of priority, created and destroyed
   while frames are in flight.
2. Registered pipelines of the world view, HUD text and what its answer claims of "this tick".
