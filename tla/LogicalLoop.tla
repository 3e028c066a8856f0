---------------------------- MODULE LogicalLoop ----------------------------
(***************************************************************************)
(* The logical thread: the frame loop of logical_thread::operator() with   *)
(* tick(), the command handlers of base_scene that run inside it, and the  *)
(* renderer's screenshot latch that they set, capture and consume.         *)
(*                                                                         *)
(* The thread shares only the queues of ControlQueues; what happens        *)
(* between two accesses to them is one action.  The network thread is the  *)
(* environment here (NetDeliver, NetTake, NetExit); AppControl puts        *)
(* RemoteClient in its place.                                              *)
(***************************************************************************)
EXTENDS ControlQueues

CONSTANTS
    Configs,      \* start configurations: tickless, window, remote
    MaxFrames,    \* bound: frames delivered in a run
    PlayedCap     \* bound: the history counter `played' saturates here

ASSUME ConfigsAssumption ==
    Configs \subseteq [tickless : BOOLEAN, window : BOOLEAN, remote : BOOLEAN]
ASSUME BoundsAssumption == MaxFrames \in Nat /\ PlayedCap \in Nat
ASSUME PlayedCapAssumption ==
    2 <= PlayedCap /\ \A b \in FrameBodies : b.pass + 2 <= PlayedCap

VARIABLES
    cfg,                  \* logical_thread::cfg
    pc,                   \* where the thread is in operator()
    stop_requested,       \* the worker's own stop token
    tick_running,
    pause_mode,
    pass_control_frames,
    command_queue,
    this_frame_command,   \* std::optional: <<>> or <<frame>>
    answer_set_pre,       \* std::optional: <<>> or <<answer>>
    shutdown_command,     \* base_scene::shutdown_command
    shot,                 \* renderer: screenshot_capture_requested/_data_ready
    executed,             \* history: the frames injected, in order
    sent,                 \* history: the answers sent, in order
    played                \* history: logic ticks since the last injection

loopVars == <<cfg, pc, stop_requested, tick_running, pause_mode,
              pass_control_frames, command_queue, this_frame_command,
              answer_set_pre, shutdown_command, shot, executed, sent, played>>

vars == <<queueVars, loopVars>>

\* The owner of the image in the staging buffer: the command frame that was
\* being executed when it was captured, NoFrame for a frame without one.
NoFrame == 0

Shot == [requested : BOOLEAN, ready : BOOLEAN, of : Nat]

\* The types of the loop's state; in particular an answer never claims a command
\* type that does not exist, and both optionals hold at most what was put there.
LoopTypeOK ==
    /\ QueuesTypeOK
    /\ cfg \in [tickless : BOOLEAN, window : BOOLEAN, remote : BOOLEAN]
    /\ pc \in {"start", "head", "tick", "post", "unwind", "join", "done"}
    /\ stop_requested \in BOOLEAN
    /\ tick_running \in BOOLEAN
    /\ pause_mode \in BOOLEAN
    /\ pass_control_frames \in Int
    /\ command_queue \in Seq(Frame)
    /\ this_frame_command \in Seq(Frame)
    /\ answer_set_pre \in Seq(Answer)
    /\ shutdown_command \in BOOLEAN
    /\ shot \in Shot
    /\ executed \in Seq(Frame)
    /\ sent \in Seq(Answer)
    /\ played \in Nat

LoopInit ==
    /\ QueuesInit
    /\ cfg \in Configs
    /\ pc = "start"
    /\ stop_requested = FALSE
    /\ tick_running = TRUE
    /\ pause_mode = FALSE
    /\ pass_control_frames = 0
    /\ command_queue = <<>>
    /\ this_frame_command = <<>>
    /\ answer_set_pre = <<>>
    /\ shutdown_command = FALSE
    /\ shot = [requested |-> FALSE, ready |-> FALSE, of |-> NoFrame]
    /\ executed = <<>>
    /\ sent = <<>>
    /\ played = 0

-----------------------------------------------------------------------------
(* base_scene's two command handlers, and the screenshot latch.            *)

\* Mutant: the loop over the command map runs one past the last type.
inject_remote_control_pre_overruns(frame) ==
    [tag |-> frame.tag, id |-> frame.id,
     answered |-> (frame.body.cmds \cap PreAnswered) \cup {"count"}, shot |-> "none"]

\* inject_remote_control_pre, as far as the answer goes.
inject_remote_control_pre(frame) ==
    [tag |-> frame.tag, id |-> frame.id,
     answered |-> frame.body.cmds \cap PreAnswered, shot |-> "none"]

\* The loop answers pass_ticks_after itself.
AnswerPassTicks(answer, frame) ==
    [answer EXCEPT !.answered = @ \cup (frame.body.cmds \cap {"pass_ticks_after"})]

\* Mutant: the image of an earlier request stays available.
request_screenshot_keeps_image == [shot EXCEPT !.requested = TRUE]

\* request_screenshot: a pending image of an earlier request is forgotten.
request_screenshot == [requested |-> TRUE, ready |-> FALSE, of |-> shot.of]

\* The effects of inject_remote_control_pre on the scene and the renderer.
InjectPreEffects(frame) ==
    /\ shutdown_command' = (shutdown_command \/ "shutdown" \in frame.body.cmds)
    /\ shot' = IF "screenshot" \in frame.body.cmds THEN request_screenshot ELSE shot

\* tick_screenshot: the copy into the staging buffer, which may be missing
\* when its allocation failed.
Captures(allocated) ==
    IF shot.requested
    THEN [requested |-> FALSE, ready |-> allocated,
          of |-> IF this_frame_command = <<>> THEN NoFrame ELSE Len(executed)]
    ELSE shot

\* execute_screenshot_save_png: nothing captured is an error, and a captured
\* image is consumed whether or not the file can be written.
ScreenshotResults(frame) ==
    IF "screenshot" \notin frame.body.cmds THEN {"none"}
    ELSE IF shot.ready THEN {"saved", "error"} ELSE {"error"}

ConsumeShot(frame) ==
    IF "screenshot" \in frame.body.cmds THEN [shot EXCEPT !.ready = FALSE] ELSE shot

\* Mutant: a fresh answer set instead of a copy of answer_set_pre.
inject_remote_control_post_forgets(answer, frame, result) ==
    [tag |-> frame.tag, id |-> frame.id,
     answered |-> frame.body.cmds \cap PostAnswered, shot |-> result]

inject_remote_control_post(answer, frame, result) ==
    [tag |-> frame.tag, id |-> frame.id,
     answered |-> answer.answered \cup (frame.body.cmds \cap PostAnswered),
     shot |-> result]

-----------------------------------------------------------------------------
(* operator(): set-up, and the part of an iteration before tick().         *)

netVars == <<outgoing_queue, net_stop, net_exited, received>>
sceneVars == <<shutdown_command, shot>>
frameVars == <<this_frame_command, answer_set_pre, executed, sent>>

\* The scene exists and its init succeeded: of an unknown scene, or after a failed
\* init, ray_log ends the process.
EnterLoop ==
    /\ pc = "start"
    /\ pc' = "head"
    /\ UNCHANGED <<queueVars, cfg, stop_requested, tick_running, pause_mode,
                   pass_control_frames, command_queue, sceneVars, frameVars, played>>

IterationStarts == pc = "head" /\ tick_running /\ ~stop_requested

\* No remote client: a tickless scene is paused for ever.
PreLocal ==
    /\ IterationStarts
    /\ ~cfg.remote
    /\ pause_mode' = cfg.tickless
    /\ pc' = "tick"
    /\ UNCHANGED <<queueVars, cfg, stop_requested, tick_running,
                   pass_control_frames, command_queue, sceneVars, frameVars, played>>

\* Mutant: pass_control_frames is not counted down.
PrePassFrame_not_counted ==
    /\ IterationStarts
    /\ cfg.remote
    /\ pass_control_frames > 0
    /\ pause_mode' = FALSE
    /\ pc' = "tick"
    /\ UNCHANGED <<queueVars, cfg, stop_requested, tick_running, pass_control_frames,
                   command_queue, sceneVars, frameVars, played>>

\* One of the frames that pass_ticks_after bought: nothing is received.
PrePassFrame ==
    /\ IterationStarts
    /\ cfg.remote
    /\ pass_control_frames > 0
    /\ pass_control_frames' = pass_control_frames - 1
    /\ pause_mode' = FALSE
    /\ pc' = "tick"
    /\ UNCHANGED <<queueVars, cfg, stop_requested, tick_running, command_queue,
                   sceneVars, frameVars, played>>

\* command_queue after receive_next_frame_command's result is pushed to it.
Polled == command_queue \o NextFrameCommand

PreIdle ==
    /\ IterationStarts
    /\ cfg.remote
    /\ pass_control_frames <= 0
    /\ Polled = <<>>
    /\ ReceiveNextFrameCommand
    /\ pause_mode' = cfg.tickless
    /\ pc' = "tick"
    /\ UNCHANGED <<netVars, cfg, stop_requested, tick_running, pass_control_frames,
                   command_queue, sceneVars, frameVars, played>>

\* Mutant: the command's own frame counts as one of those requested.
PassAfter_counts_own_frame(frame) ==
    IF "pass_ticks_after" \in frame.body.cmds
    THEN frame.body.pass - 1 ELSE pass_control_frames

\* Mutant: one frame more than requested.
PassAfter_one_more(frame) ==
    IF "pass_ticks_after" \in frame.body.cmds
    THEN frame.body.pass + 1 ELSE pass_control_frames

\* pass_control_frames after a frame: its own request, or what was there.
PassAfter(frame) ==
    IF "pass_ticks_after" \in frame.body.cmds THEN frame.body.pass ELSE pass_control_frames

PreExecute ==
    /\ IterationStarts
    /\ cfg.remote
    /\ pass_control_frames <= 0
    /\ Polled # <<>>
    /\ ReceiveNextFrameCommand
    /\ LET frame == Head(Polled)
       IN  /\ this_frame_command' = <<frame>>
           /\ InjectPreEffects(frame)
           /\ answer_set_pre' =
                 <<AnswerPassTicks(inject_remote_control_pre(frame), frame)>>
           /\ pass_control_frames' = PassAfter(frame)
           /\ executed' = Append(executed, frame)
    /\ command_queue' = Tail(Polled)
    /\ played' = 0
    /\ pause_mode' = FALSE
    /\ pc' = "tick"
    /\ UNCHANGED <<netVars, cfg, stop_requested, tick_running, sent>>

-----------------------------------------------------------------------------
(* tick().  A headless window is always valid and never closes.            *)

\* A paused iteration skips the post stage (`continue').
AfterTick == pc = "tick" /\ pc' = IF pause_mode THEN "head" ELSE "post"

\* draw_window found the window missing or asked to close.
TickWindowClosed ==
    /\ AfterTick
    /\ cfg.window
    /\ tick_running' = FALSE
    /\ UNCHANGED <<queueVars, cfg, stop_requested, pause_mode, pass_control_frames,
                   command_queue, sceneVars, frameVars, played>>

\* draw_window found a minimised window: no logic tick, no frame.
TickInvalidView ==
    /\ AfterTick
    /\ cfg.window
    /\ UNCHANGED <<queueVars, cfg, stop_requested, tick_running, pause_mode,
                   pass_control_frames, command_queue, sceneVars, frameVars, played>>

TickPaused ==
    /\ AfterTick
    /\ pause_mode
    /\ UNCHANGED <<queueVars, cfg, stop_requested, tick_running, pause_mode,
                   pass_control_frames, command_queue, sceneVars, frameVars, played>>

\* Mutant: the loop is left at once, without the post stage.
TickShutsDown_breaks ==
    /\ pc = "tick"
    /\ ~pause_mode
    /\ shutdown_command
    /\ tick_running' = FALSE
    /\ pc' = "unwind"
    /\ UNCHANGED <<queueVars, cfg, stop_requested, pause_mode, pass_control_frames,
                   command_queue, sceneVars, frameVars, played>>

\* base_scene::tick refuses to run after a shutdown command.
TickShutsDown ==
    /\ AfterTick
    /\ ~pause_mode
    /\ shutdown_command
    /\ tick_running' = FALSE
    /\ UNCHANGED <<queueVars, cfg, stop_requested, pause_mode, pass_control_frames,
                   command_queue, sceneVars, frameVars, played>>

\* logic.tick ran, then draw_frame: the frame was drawn ("drawn"), or was given
\* up for want of a swapchain image ("skipped", windowed only).
TickPlays(drawn) ==
    /\ AfterTick
    /\ ~pause_mode
    /\ ~shutdown_command
    /\ played' = IF played < PlayedCap THEN played + 1 ELSE played
    /\ \/ drawn = "drawn" /\ \E allocated \in BOOLEAN : shot' = Captures(allocated)
       \/ drawn = "skipped" /\ cfg.window /\ UNCHANGED shot
    /\ UNCHANGED <<queueVars, cfg, stop_requested, tick_running, pause_mode,
                   pass_control_frames, command_queue, shutdown_command, frameVars>>

-----------------------------------------------------------------------------
(* After tick(): the answer, and the way out.                              *)

PostNoCommand ==
    /\ pc = "post"
    /\ this_frame_command = <<>>
    /\ pc' = "head"
    /\ UNCHANGED <<queueVars, cfg, stop_requested, tick_running, pause_mode,
                   pass_control_frames, command_queue, sceneVars, frameVars, played>>

PostAnswer ==
    /\ pc = "post"
    /\ this_frame_command # <<>>
    /\ LET frame == this_frame_command[1]
       IN  \E result \in ScreenshotResults(frame) :
             LET answer == inject_remote_control_post(answer_set_pre[1], frame, result)
             IN  /\ send_answer(answer)
                 /\ sent' = Append(sent, answer)
                 /\ shot' = ConsumeShot(frame)
    /\ this_frame_command' = <<>>
    /\ answer_set_pre' = <<>>
    /\ pc' = "head"
    /\ UNCHANGED <<incoming_queue, net_stop, net_exited, received, cfg,
                   stop_requested, tick_running, pause_mode, pass_control_frames,
                   command_queue, shutdown_command, executed, played>>

\* The while condition fails: logic->cleanup.
LeaveLoop ==
    /\ pc = "head"
    /\ stop_requested \/ ~tick_running
    /\ pc' = "unwind"
    /\ UNCHANGED <<queueVars, cfg, stop_requested, tick_running, pause_mode,
                   pass_control_frames, command_queue, sceneVars, frameVars, played>>

\* wait_shutdown, first half: request_stop.
RequestNetStop ==
    /\ pc = "unwind"
    /\ cfg.remote
    /\ net_stop' = TRUE
    /\ pc' = "join"
    /\ UNCHANGED <<incoming_queue, outgoing_queue, net_exited, received, cfg,
                   stop_requested, tick_running, pause_mode, pass_control_frames,
                   command_queue, sceneVars, frameVars, played>>

\* wait_shutdown, second half: join.  Without a client there is nothing to wait for.
Finish ==
    /\ \/ pc = "unwind" /\ ~cfg.remote
       \/ pc = "join" /\ net_exited
    /\ pc' = "done"
    /\ UNCHANGED <<queueVars, cfg, stop_requested, tick_running, pause_mode,
                   pass_control_frames, command_queue, sceneVars, frameVars, played>>

\* async_logical_loop::signal_terminate, from the thread that owns the loop.
signal_terminate ==
    /\ ~stop_requested
    /\ stop_requested' = TRUE
    /\ UNCHANGED <<queueVars, cfg, pc, tick_running, pause_mode, pass_control_frames,
                   command_queue, sceneVars, frameVars, played>>

\* Everything but the one step that also acts on the client's socket.
LoopLocalStep ==
    \/ EnterLoop
    \/ PreLocal
    \/ PrePassFrame
    \/ PreIdle
    \/ PreExecute
    \/ TickWindowClosed
    \/ TickInvalidView
    \/ TickPaused
    \/ TickShutsDown
    \/ \E drawn \in {"drawn", "skipped"} : TickPlays(drawn)
    \/ PostNoCommand
    \/ PostAnswer
    \/ LeaveLoop
    \/ Finish

LoopStep == LoopLocalStep \/ RequestNetStop
-----------------------------------------------------------------------------
(* The network thread as the environment of the loop.                      *)

\* A line arrives and is pushed, as long as the reader runs.
NetDeliver(line) ==
    /\ cfg.remote
    /\ ~net_exited
    /\ PushIncoming(line)
    /\ UNCHANGED <<outgoing_queue, net_stop, net_exited, loopVars>>

\* The writer swaps outgoing_queue with an empty queue.
NetTake ==
    /\ ~net_exited
    /\ outgoing_queue # <<>>
    /\ outgoing_queue' = <<>>
    /\ UNCHANGED <<incoming_queue, net_stop, net_exited, received, loopVars>>

NetExit ==
    /\ net_stop
    /\ ~net_exited
    /\ net_exited' = TRUE
    /\ UNCHANGED <<incoming_queue, outgoing_queue, net_stop, received, loopVars>>

\* Nothing is left to do: the only state in which the program rests.
LoopTerminated == pc = "done" /\ UNCHANGED vars

LoopNext ==
    \/ LoopStep
    \/ LoopTerminated
    \/ signal_terminate
    \/ Len(received) < MaxFrames /\ \E line \in Line : NetDeliver(line)
    \/ NetTake
    \/ NetExit

LoopSpec == LoopInit /\ [][LoopNext]_vars

\* The scheduler runs the logical thread, and a network thread told to stop
\* exits (RemoteClient shows why).
LoopFairness == WF_vars(LoopStep) /\ WF_vars(NetExit)

LoopFairSpec == LoopSpec /\ LoopFairness

-----------------------------------------------------------------------------
(* Properties.                                                             *)

\* Frames are executed in the order they came in over TCP, each exactly
\* once, and none is lost on the way: what was received is what was
\* executed, then the frame queue, then what still waits in incoming_queue.
FramesInReceiptOrder == received = executed \o command_queue \o incoming_queue

\* command_queue lives across iterations but never holds a frame between two
\* of them: at most one is received per iteration and it is executed there.
CommandQueueDrained == command_queue = <<>>

\* The number of answers owed: the frame in hand, if there is one.
Owed == Len(this_frame_command)

\* Every executed frame is answered once, in execution order, under its own
\* (session tag, net id) and, but for debug_command, for every command it
\* enabled -- whatever the window, the renderer and the shutdown did in
\* between.
OneAnswerPerFrame ==
    /\ Len(sent) + Owed = Len(executed)
    /\ \A i \in 1..Len(sent) :
         /\ NameOf(sent[i]) = NameOf(executed[i])
         /\ sent[i].answered = executed[i].body.cmds \ {"debug_command"}

\* The last frame injected, and the logic ticks it bought: its own one and
\* those of pass_ticks_after.
LastExecuted == executed[Len(executed)]

TicksBought(frame) ==
    1 + (IF "pass_ticks_after" \in frame.body.cmds /\ frame.body.pass > 0
         THEN frame.body.pass ELSE 0)

\* With a view that is always valid, the next frame is not injected before
\* all the ticks bought by the previous one have been played ("N+1 frames
\* will be executed").
PassTicksRespected ==
    [][(executed' # executed /\ executed # <<>> /\ ~cfg.window)
         => played >= TicksBought(LastExecuted)]_vars

\* A tickless scene only advances by remote command: never before the first
\* frame, and never by more ticks than the last frame bought.
TicklessAdvancesByCommand ==
    cfg.tickless =>
        IF executed = <<>> THEN played = 0
        ELSE played <= TicksBought(LastExecuted)

\* A screenshot reported as saved shows the very frame its command was
\* executed in: an image captured late, for an earlier request, is never
\* passed off as this one's.
ScreenshotIsOfItsFrame ==
    [][(sent' # sent /\ sent'[Len(sent')].shot = "saved")
         => shot.of = Len(executed)]_vars

\* On a headless server every frame received is eventually executed, unless
\* the loop ends first.
ReceivedIsExecuted ==
    ~cfg.window /\ cfg.remote =>
        \A n \in 1..MaxFrames :
            (Len(received) >= n) ~> (Len(executed) >= n \/ pc = "done")

\* The loop implements FrameService: seen from outside, frames are executed
\* one by one in receipt order, and each is answered before the next one is
\* executed and before the loop stops.
Service == INSTANCE FrameService WITH
    CommandSet <- Frame, accepted <- received, answered <- Len(sent),
    up <- pc \notin {"unwind", "join", "done"}

\* The abstract service, as a property of the loop.
FrameServiceSpec == Service!ServiceSpec
=============================================================================
