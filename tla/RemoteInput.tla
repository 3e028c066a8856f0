---------------------------- MODULE RemoteInput ----------------------------
(***************************************************************************)
(* What a remote command does to the scene: window's injected input, the   *)
(* handlers of base_scene that set it, and the two systems that read it in *)
(* every logic tick -- the camera of logical_2d_world_view and the crate   *)
(* that logical_crate_sim lets the mouse carry.                            *)
(*                                                                         *)
(* LogicalLoop says when a frame is executed; here one may come in any     *)
(* iteration.  Coordinates have one dimension (both are computed alike)    *)
(* and are exact: Positions, Camera values and HalfViewport are multiples  *)
(* of a unit fine enough for the divisions of a bounded run.  A zoom of    *)
(* exp(delta) is one of 2^delta.                                           *)
(***************************************************************************)
EXTENDS Integers, Sequences, FiniteSetsExt

CONSTANTS
    Windowed,        \* the values of graphics_window_enabled considered
    FrameInputs,     \* the input part of the command frames that may arrive
    Positions,       \* where the user's own mouse may be, on the screen
    Wheels,          \* what the user may scroll in a frame
    StrayWheels,     \* what an uninitialised mouse_wheel_delta_frame may hold
    HalfViewport,    \* half of get_target_resolution
    MinZoom,
    MaxZoom,         \* the limits tick_camera_transform clamps to
    Crates,          \* indices of crate_sim_objs
    MaxTicks,        \* bound: iterations in a run
    MaxInputs        \* bound: command frames in a run

\* std::optional: <<>> or <<value>>.
IsOptional(v, S) == v = <<>> \/ (Len(v) = 1 /\ v[1] \in S)

ASSUME InputAssumption ==
    /\ Windowed \subseteq BOOLEAN
    /\ \A f \in FrameInputs :
         /\ IsOptional(f.camera, [x : Int, z : Int])
         /\ IsOptional(f.mouse, Int)
         /\ IsOptional(f.left, BOOLEAN)
         /\ IsOptional(f.right, BOOLEAN)
         /\ f.scroll \in Int
    /\ Positions \subseteq Int /\ Wheels \subseteq Int /\ StrayWheels \subseteq Int
    /\ HalfViewport \in Int
    /\ {MinZoom, MaxZoom} \subseteq Nat \ {0} /\ 1 \in MinZoom..MaxZoom
    /\ Crates \subseteq Nat
    /\ {MaxTicks, MaxInputs} \subseteq Nat

\* base_scene checks no zoom that is commanded.  Under one that is not positive no
\* position of the screen has a point of the world: a run commands others.
ASSUME CommandedZoomAssumption ==
    \A f \in FrameInputs : f.camera # <<>> => f.camera[1].z > 0

VARIABLES
    windowed,                    \* graphics_window_enabled
    at,                          \* where the loop is; "paused" is a tick in pause mode
    in_hand,                     \* this_frame_command has a value
    injected_mouse_position,     \* std::optional, and the next two
    injected_mouse_button_left,
    injected_mouse_button_right,
    injected_mouse_scroll_add,
    mouse_wheel_delta_frame,
    camera_transform,
    base_move_position,          \* std::optional
    focus_index,                 \* std::optional
    crate_captured,
    ticks, inputs,               \* history: counted for the bounds
    aimed,    \* history: the world point the pointer was put on, until something
              \* that may take it away
    grabbed   \* history: the world point a drag took hold of, likewise

injectedVars == <<injected_mouse_position, injected_mouse_button_left,
                  injected_mouse_button_right, injected_mouse_scroll_add>>
viewVars == <<camera_transform, base_move_position>>
crateVars == <<focus_index, crate_captured>>
historyVars == <<ticks, inputs, aimed, grabbed>>
inputVars == <<windowed, at, in_hand, injectedVars, mouse_wheel_delta_frame,
               viewVars, crateVars, historyVars>>

CommandedZooms == {f.camera[1].z : f \in {g \in FrameInputs : g.camera # <<>>}}

\* The types; in particular the zoom is one that was commanded or one within the
\* limits, and the focus is on a crate that exists.
InputTypeOK ==
    /\ windowed \in BOOLEAN
    /\ at \in {"head", "tick", "paused", "ended"}
    /\ in_hand \in BOOLEAN
    /\ IsOptional(injected_mouse_position, Int)
    /\ IsOptional(injected_mouse_button_left, BOOLEAN)
    /\ IsOptional(injected_mouse_button_right, BOOLEAN)
    /\ injected_mouse_scroll_add \in Int
    /\ mouse_wheel_delta_frame \in Int
    /\ camera_transform \in [x : Int, z : MinZoom..MaxZoom \cup CommandedZooms]
    /\ IsOptional(base_move_position, Int)
    /\ IsOptional(focus_index, Crates)
    /\ crate_captured \in BOOLEAN
    /\ ticks \in 0..MaxTicks
    /\ inputs \in 0..MaxInputs
    /\ IsOptional(aimed, Int)
    /\ IsOptional(grabbed, Int)

\* Only a window that is enabled sets its wheel to zero when it is constructed.
InputInit ==
    /\ windowed \in Windowed
    /\ at = "head"
    /\ in_hand = FALSE
    /\ injected_mouse_position = <<>>
    /\ injected_mouse_button_left = <<>>
    /\ injected_mouse_button_right = <<>>
    /\ injected_mouse_scroll_add = 0
    /\ mouse_wheel_delta_frame \in IF windowed THEN {0} ELSE StrayWheels
    /\ camera_transform = [x |-> 0, z |-> 1]
    /\ base_move_position = <<>>
    /\ focus_index = <<>>
    /\ crate_captured = FALSE
    /\ ticks = 0
    /\ inputs = 0
    /\ aimed = <<>>
    /\ grabbed = <<>>

-----------------------------------------------------------------------------
(* Screen and world.                                                       *)

\* The world point under a position of the screen.
WorldAt(camera, position) == camera.x + (position - HalfViewport) \div camera.z

\* Where on the screen a world point is.
ScreenAt(camera, point) == (point - camera.x) * camera.z + HalfViewport

\* An optional's value, or one of those the window reports.
ValueOr(optional, reported) == IF optional # <<>> THEN {optional[1]} ELSE reported

\* get_mouse_position: glfw is asked each time, so two reads may differ.
get_mouse_position ==
    ValueOr(injected_mouse_position, IF windowed THEN Positions ELSE {0})

get_mouse_button(injected) == ValueOr(injected, IF windowed THEN BOOLEAN ELSE {FALSE})

-----------------------------------------------------------------------------
(* Before the tick.                                                        *)

\* The camera after set_camera_position, if the frame has one.
CameraSet(frame) == IF frame.camera # <<>> THEN frame.camera[1] ELSE camera_transform

\* Mutant: set_mouse_position is handled before set_camera_position.
PointerSet_before_camera(frame) ==
    IF frame.mouse # <<>> THEN <<ScreenAt(camera_transform, frame.mouse[1])>>
    ELSE injected_mouse_position

\* set_mouse_position names a world point; the commands are handled in the
\* order of their types, so the camera it is seen with is the new one.
PointerSet(frame) ==
    IF frame.mouse # <<>> THEN <<ScreenAt(CameraSet(frame), frame.mouse[1])>>
    ELSE injected_mouse_position

Override(old, new) == IF new # <<>> THEN new ELSE old

\* clear_injected_input, then inject_remote_control_pre.
ReceiveFrame(frame) ==
    /\ at = "head"
    /\ ticks < MaxTicks
    /\ inputs < MaxInputs
    /\ at' = "tick"
    /\ in_hand' = TRUE
    /\ camera_transform' = CameraSet(frame)
    /\ injected_mouse_position' = PointerSet(frame)
    /\ injected_mouse_button_left' = Override(injected_mouse_button_left, frame.left)
    /\ injected_mouse_button_right' = Override(injected_mouse_button_right, frame.right)
    /\ injected_mouse_scroll_add' = frame.scroll
    /\ aimed' = IF frame.mouse # <<>> THEN frame.mouse
                ELSE IF frame.camera # <<>> THEN <<>> ELSE aimed
    /\ grabbed' = IF frame.camera # <<>> THEN <<>> ELSE grabbed
    /\ inputs' = inputs + 1
    /\ UNCHANGED <<windowed, mouse_wheel_delta_frame, base_move_position, crateVars, ticks>>

\* Mutant: the injected scroll stays during the ticks of pass_ticks_after.
NoFrame_keeps_scroll(paused) ==
    /\ at = "head"
    /\ ticks < MaxTicks
    /\ at' = IF paused THEN "paused" ELSE "tick"
    /\ UNCHANGED <<windowed, in_hand, injectedVars, mouse_wheel_delta_frame, viewVars,
                   crateVars, historyVars>>

\* An iteration without a frame: one that pass_ticks_after bought, an idle one
\* of a scene that ticks by itself, or one in pause mode.
NoFrame(paused) ==
    /\ at = "head"
    /\ ticks < MaxTicks
    /\ at' = IF paused THEN "paused" ELSE "tick"
    /\ injected_mouse_scroll_add' = 0
    /\ UNCHANGED <<windowed, in_hand, injected_mouse_position, injected_mouse_button_left,
                   injected_mouse_button_right, mouse_wheel_delta_frame, viewVars,
                   crateVars, historyVars>>

-----------------------------------------------------------------------------
(* The tick.                                                               *)

\* draw_window with a valid view: a headless window touches nothing.
DrawWindow(wheel) ==
    IF windowed THEN mouse_wheel_delta_frame' = wheel
    ELSE UNCHANGED mouse_wheel_delta_frame

\* z * 2^delta, for the integers that occur.
Scaled(z, delta) ==
    IF delta >= 0 THEN z * 2 ^ delta ELSE Max({1, z \div 2 ^ (-delta)})

\* Mutant: the zoom is not limited.
Zoomed_unlimited(z, delta) == IF delta = 0 THEN z ELSE Scaled(z, delta)

\* std::clamp
Clamped(z) ==
    IF z \in MinZoom..MaxZoom THEN z ELSE IF z > MaxZoom THEN MaxZoom ELSE MinZoom

Zoomed(z, delta) == IF delta = 0 THEN z ELSE Clamped(Scaled(z, delta))

\* The camera after the zoom of tick_camera_transform: it moves so that the
\* point under the mouse stays there.
ZoomedCamera(mouse, delta) ==
    LET zoomed == [camera_transform EXCEPT !.z = Zoomed(@, delta)]
    IN  [zoomed EXCEPT !.x = @ + WorldAt(camera_transform, mouse) - WorldAt(zoomed, mouse)]

\* Mutant: the drag is measured from where it began.
DragBase_stays(mouse, pressed) ==
    IF ~pressed THEN <<>>
    ELSE IF base_move_position # <<>> THEN base_move_position ELSE <<mouse>>

DragBase(mouse, pressed) == IF pressed THEN <<mouse>> ELSE <<>>

Drags(pressed) == pressed /\ base_move_position # <<>>

\* The camera after tick_camera_transform.
MovedCamera(mouse, delta, pressed) ==
    LET camera == ZoomedCamera(mouse, delta)
    IN  IF Drags(pressed)
        THEN [camera EXCEPT !.x = @ + (base_move_position[1] - mouse) \div camera.z]
        ELSE camera

\* The right button held or not, and what becomes of the two world points.
CameraTick(mouse, delta, pressed) ==
    /\ camera_transform' = MovedCamera(mouse, delta, pressed)
    /\ base_move_position' = DragBase(mouse, pressed)
    /\ aimed' = IF Drags(pressed) /\ base_move_position # <<mouse>> THEN <<>> ELSE aimed
    /\ grabbed' =
         IF ~pressed THEN <<>>
         ELSE IF base_move_position = <<>> THEN <<WorldAt(camera_transform, mouse)>>
         ELSE IF delta # 0 /\ base_move_position # <<mouse>> THEN <<>>
         ELSE grabbed

\* crate_captured, by the left button; nothing can be carried without focus.
Captured(pressed) == focus_index # <<>> /\ pressed

\* Mutant: the focus follows the mouse also while a crate is carried.
Focused_always(captured, under) == under

\* The first crate under the mouse, unless one is being carried.
Focused(captured, under) == IF captured THEN focus_index ELSE under

\* logical_crate_sim::tick.  Where the crates are is a matter of their physics,
\* so any of them, or none, may be the first under the mouse.
CrateTick(pressed, under) ==
    LET captured == Captured(pressed)
    IN  /\ crate_captured' = captured
        /\ focus_index' = Focused(captured, under)

\* The loop after tick(): the answer is sent.
IterationEnds ==
    /\ at' = "head"
    /\ in_hand' = FALSE
    /\ ticks' = ticks + 1
    /\ UNCHANGED <<windowed, inputs>>

\* A valid view, and not paused: ph_crates_scene::tick.
TickPlays ==
    /\ at = "tick"
    /\ \E wheel \in Wheels : DrawWindow(wheel)
    /\ LET delta == mouse_wheel_delta_frame' + injected_mouse_scroll_add
       IN  \E mouse \in get_mouse_position, pressed \in get_mouse_button(injected_mouse_button_right) :
             CameraTick(mouse, delta, pressed)
    /\ \E pressed \in get_mouse_button(injected_mouse_button_left),
         under \in {<<>>} \cup {<<crate>> : crate \in Crates} :
         CrateTick(pressed, under)
    /\ IterationEnds
    /\ UNCHANGED injectedVars

\* A valid view in pause mode: what the user scrolled is gone.
TickPaused ==
    /\ at = "paused"
    /\ \E wheel \in Wheels : DrawWindow(wheel)
    /\ IterationEnds
    /\ UNCHANGED <<injectedVars, viewVars, crateVars, aimed, grabbed>>

\* A minimised window: draw_window waits for events, whose scroll callback may
\* run, and nothing else happens.
TickInvalidView ==
    /\ at \in {"tick", "paused"}
    /\ windowed
    /\ \E wheel \in Wheels : mouse_wheel_delta_frame' = mouse_wheel_delta_frame + wheel
    /\ IterationEnds
    /\ UNCHANGED <<injectedVars, viewVars, crateVars, aimed, grabbed>>

\* The loop may be left between any two iterations.
LoopEnds ==
    /\ at = "head"
    /\ at' = "ended"
    /\ UNCHANGED <<windowed, in_hand, injectedVars, mouse_wheel_delta_frame, viewVars,
                   crateVars, historyVars>>

Ended == at = "ended" /\ UNCHANGED inputVars

InputNext ==
    \/ \E frame \in FrameInputs : ReceiveFrame(frame)
    \/ \E paused \in BOOLEAN : NoFrame(paused)
    \/ TickPlays
    \/ TickPaused
    \/ TickInvalidView
    \/ LoopEnds
    \/ Ended

InputSpec == InputInit /\ [][InputNext]_inputVars

-----------------------------------------------------------------------------
(* Properties.                                                             *)

\* Once a command has put the pointer on a point of the world it stays on that
\* point, however the zoom changes -- in the same frame, by later scrolls, by a
\* scroll that runs into a limit -- until the camera is set again or dragged.
AimHolds ==
    aimed # <<>> => WorldAt(camera_transform, injected_mouse_position[1]) = aimed[1]

\* A drag holds on to the point it took: with the right button down that point
\* stays under the pointer over any number of ticks, also with ticks missed in
\* between, unless the camera is set or the wheel turned while the mouse moves.
DragHoldsPoint ==
    grabbed # <<>> => WorldAt(camera_transform, base_move_position[1]) = grabbed[1]

\* A commanded scroll acts in the tick of its own frame only: the ticks that
\* follow, those of pass_ticks_after among them, zoom by the wheel alone.
ScrollActsOnce ==
    [][at = "tick" /\ ~in_hand /\ mouse_wheel_delta_frame' = 0
         => camera_transform'.z = camera_transform.z]_inputVars

\* A crate that is carried stays the one that is carried until the button is
\* released, whatever comes under the mouse meanwhile.
HeldCrateStays ==
    [][crate_captured' =>
         /\ focus_index' # <<>>
         /\ (crate_captured => focus_index' = focus_index)]_inputVars

\* window.h says of get_mouse_wheel_delta: "per window frame".  In a tick of a
\* headless application without a command, nothing was scrolled and the zoom
\* stays as it is.
WheelIsOfItsFrame ==
    [][~windowed /\ at = "tick" /\ ~in_hand
         => camera_transform'.z = camera_transform.z]_inputVars
=============================================================================
