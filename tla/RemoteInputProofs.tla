-------------------------- MODULE RemoteInputProofs --------------------------
(***************************************************************************)
(* Proofs about RemoteInput, for any resolution, zoom limits, positions    *)
(* and command frames.  Only DragHoldsPoint needs divisions that are       *)
(* exact; that is the hypothesis DragIsExact of its theorem, and DragDrift *)
(* says what is left without it.  That commanded zooms are positive is     *)
(* used where there is a division by them; ZoomObeysLimits does without.   *)
(***************************************************************************)
EXTENDS RemoteInput, TLAPS

Zooms == MinZoom..MaxZoom \cup CommandedZooms
Camera == [x : Int, z : Zooms]

\* Every zoom is one that may divide.
LEMMA ZoomTypes == Zooms \subseteq Nat \ {0} /\ MinZoom..MaxZoom \subseteq Zooms /\ 1 \in Zooms
<1>1. \A f \in FrameInputs :
        /\ IsOptional(f.camera, [x : Int, z : Int])
        /\ f.camera # <<>> => f.camera[1].z > 0
  BY InputAssumption, CommandedZoomAssumption
<1>2. CommandedZooms \subseteq Nat \ {0}
  BY <1>1 DEF CommandedZooms, IsOptional
<1>3. /\ MinZoom \in Nat \ {0} /\ MaxZoom \in Nat \ {0} /\ 1 \in MinZoom..MaxZoom
  BY InputAssumption
<1> QED
  BY <1>2, <1>3 DEF Zooms

LEMMA CommandTypes ==
    ASSUME NEW frame \in FrameInputs
    PROVE  /\ IsOptional(frame.camera, Camera)
           /\ IsOptional(frame.mouse, Int)
           /\ IsOptional(frame.left, BOOLEAN)
           /\ IsOptional(frame.right, BOOLEAN)
           /\ frame.scroll \in Int
<1>1. /\ IsOptional(frame.camera, [x : Int, z : Int])
      /\ IsOptional(frame.mouse, Int)
      /\ IsOptional(frame.left, BOOLEAN)
      /\ IsOptional(frame.right, BOOLEAN)
      /\ frame.scroll \in Int
  BY InputAssumption
<1>2. frame.camera # <<>> => frame.camera[1].z \in CommandedZooms
  BY DEF CommandedZooms
<1> QED
  BY <1>1, <1>2 DEF IsOptional, Camera, Zooms

-----------------------------------------------------------------------------
(* Screen and world.                                                       *)

LEMMA WorldType ==
    ASSUME NEW camera \in Camera, NEW position \in Int
    PROVE  WorldAt(camera, position) \in Int
<1>1. camera.x \in Int /\ camera.z \in Nat \ {0} /\ HalfViewport \in Int
  BY ZoomTypes, InputAssumption DEF Camera
<1> QED
  BY <1>1 DEF WorldAt

LEMMA ScreenType ==
    ASSUME NEW camera \in Camera, NEW point \in Int
    PROVE  ScreenAt(camera, point) \in Int
<1>1. camera.x \in Int /\ camera.z \in Nat \ {0} /\ HalfViewport \in Int
  BY ZoomTypes, InputAssumption DEF Camera
<1> QED
  BY <1>1 DEF ScreenAt

\* The place of a point on the screen shows that point, whatever the zoom.
LEMMA ScreenShows ==
    ASSUME NEW camera \in Camera, NEW point \in Int
    PROVE  WorldAt(camera, ScreenAt(camera, point)) = point
<1>1. camera.x \in Int /\ camera.z \in Nat \ {0} /\ HalfViewport \in Int
  BY ZoomTypes, InputAssumption DEF Camera
<1> DEFINE offset == (point - camera.x) * camera.z
<1>2. offset \in Int /\ offset \div camera.z = point - camera.x
  BY <1>1
<1>3. ScreenAt(camera, point) - HalfViewport = offset
  BY <1>1, <1>2 DEF ScreenAt
<1>4. camera.x + (point - camera.x) = point
  BY <1>1
<1> QED
  BY <1>2, <1>3, <1>4 DEF WorldAt

\* However the wheel is turned, the zoom stays in its limits; at rest it stays.
LEMMA ZoomedType ==
    ASSUME NEW z \in Zooms, NEW delta \in Int
    PROVE  Zoomed(z, delta) \in Zooms
<1>1. \A wild : Clamped(wild) \in MinZoom..MaxZoom
  BY InputAssumption DEF Clamped
<1> QED
  BY <1>1, ZoomTypes DEF Zoomed

\* Zooming keeps the point under the mouse, limits included.
LEMMA ZoomHolds ==
    ASSUME camera_transform \in Camera, NEW mouse \in Int, NEW delta \in Int
    PROVE  /\ ZoomedCamera(mouse, delta) \in Camera
           /\ ZoomedCamera(mouse, delta).z = Zoomed(camera_transform.z, delta)
           /\ WorldAt(ZoomedCamera(mouse, delta), mouse) = WorldAt(camera_transform, mouse)
<1> DEFINE zoomed == [camera_transform EXCEPT !.z = Zoomed(@, delta)]
           shift == WorldAt(camera_transform, mouse) - WorldAt(zoomed, mouse)
<1>1. zoomed \in Camera /\ zoomed.x = camera_transform.x
      /\ zoomed.z = Zoomed(camera_transform.z, delta)
  BY ZoomedType DEF Camera
<1>2. WorldAt(camera_transform, mouse) \in Int /\ WorldAt(zoomed, mouse) \in Int
  BY <1>1, WorldType
<1>3. ZoomedCamera(mouse, delta) = [zoomed EXCEPT !.x = @ + shift]
  BY <1>1, <1>2 DEF ZoomedCamera, Camera
<1> HIDE DEF zoomed
<1>4. camera_transform.x \in Int /\ zoomed.z \in Nat \ {0} /\ HalfViewport \in Int
  BY <1>1, ZoomTypes, InputAssumption DEF Camera
<1> DEFINE under == (mouse - HalfViewport) \div zoomed.z
<1>5. under \in Int
  BY <1>4
<1> HIDE DEF under
<1>6. WorldAt(zoomed, mouse) = zoomed.x + under
  BY DEF WorldAt, under
<1>7. shift \in Int /\ zoomed.x + shift + under = WorldAt(camera_transform, mouse)
  BY <1>1, <1>2, <1>4, <1>5, <1>6
<1> HIDE DEF shift
<1>8. ZoomedCamera(mouse, delta) \in Camera
      /\ ZoomedCamera(mouse, delta).z = zoomed.z
      /\ ZoomedCamera(mouse, delta).x = zoomed.x + shift
  BY <1>1, <1>3, <1>4, <1>7 DEF Camera
<1> QED
  BY <1>1, <1>7, <1>8 DEF WorldAt, under

-----------------------------------------------------------------------------
(* The invariant.                                                          *)

\* A crate is carried only with the focus on it.
CarriedInv == crate_captured => focus_index # <<>>

\* A commanded scroll does not outlive the tick of its frame.
ScrollInv == at = "tick" /\ ~in_hand => injected_mouse_scroll_add = 0

\* AimHolds, for the pointer a command has put there.
AimInv ==
    aimed # <<>> =>
        /\ injected_mouse_position # <<>>
        /\ WorldAt(camera_transform, injected_mouse_position[1]) = aimed[1]

\* The bound on iterations leaves room for the one that was begun.
TicksInv == at \in {"tick", "paused"} => ticks < MaxTicks

InputInv == InputTypeOK /\ CarriedInv /\ ScrollInv /\ TicksInv /\ AimInv

LEMMA InputInvInit == InputInit => InputInv
<1> SUFFICES ASSUME InputInit PROVE InputInv
  OBVIOUS
<1>1. mouse_wheel_delta_frame \in Int /\ windowed \in BOOLEAN
  BY InputAssumption DEF InputInit
<1>2. camera_transform \in Camera
  BY ZoomTypes DEF InputInit, Camera
<1>3. 0 \in 0..MaxTicks /\ 0 \in 0..MaxInputs
  BY InputAssumption
<1>4. InputTypeOK
  BY <1>1, <1>2, <1>3 DEF InputInit, InputTypeOK, IsOptional, Camera, Zooms
<1> QED
  BY <1>4 DEF InputInit, InputInv, CarriedInv, ScrollInv, TicksInv, AimInv

LEMMA ReceiveStep ==
    ASSUME InputInv, NEW frame \in FrameInputs, ReceiveFrame(frame)
    PROVE  InputInv'
<1>0. InputTypeOK
  BY DEF InputInv
<1>1. /\ IsOptional(frame.camera, Camera) /\ IsOptional(frame.mouse, Int)
      /\ IsOptional(frame.left, BOOLEAN) /\ IsOptional(frame.right, BOOLEAN)
      /\ frame.scroll \in Int
  BY CommandTypes
<1>2. CameraSet(frame) \in Camera
  BY <1>0, <1>1 DEF CameraSet, IsOptional, InputTypeOK, Camera, Zooms
<1>3. frame.mouse # <<>> =>
        /\ PointerSet(frame) = <<ScreenAt(CameraSet(frame), frame.mouse[1])>>
        /\ frame.mouse[1] \in Int
        /\ ScreenAt(CameraSet(frame), frame.mouse[1]) \in Int
        /\ WorldAt(CameraSet(frame), ScreenAt(CameraSet(frame), frame.mouse[1])) = frame.mouse[1]
  BY <1>1, <1>2, ScreenType, ScreenShows DEF PointerSet, IsOptional
<1>4. IsOptional(PointerSet(frame), Int)
  <2>1. CASE frame.mouse = <<>>
    BY <1>0, <2>1 DEF PointerSet, InputTypeOK
  <2>2. CASE frame.mouse # <<>>
    BY <1>3, <2>2 DEF IsOptional
  <2> QED
    BY <2>1, <2>2
<1>5. InputTypeOK'
  <2>1. inputs' \in 0..MaxInputs
    BY <1>0, InputAssumption DEF InputTypeOK, ReceiveFrame
  <2>2. camera_transform' \in Camera /\ IsOptional(injected_mouse_position', Int)
    BY <1>2, <1>4 DEF ReceiveFrame
  <2>3. /\ IsOptional(injected_mouse_button_left', BOOLEAN)
        /\ IsOptional(injected_mouse_button_right', BOOLEAN)
    BY <1>0, <1>1 DEF ReceiveFrame, Override, InputTypeOK
  <2>4. IsOptional(aimed', Int) /\ IsOptional(grabbed', Int)
    BY <1>0, <1>1 DEF ReceiveFrame, IsOptional, InputTypeOK
  <2>5. /\ at' = "tick" /\ in_hand' = TRUE /\ injected_mouse_scroll_add' = frame.scroll
        /\ UNCHANGED <<windowed, mouse_wheel_delta_frame, base_move_position, crateVars, ticks>>
    BY DEF ReceiveFrame
  <2> QED
    BY <1>0, <1>1, <2>1, <2>2, <2>3, <2>4, <2>5
    DEF InputTypeOK, crateVars, Camera, Zooms
<1>6. AimInv'
  <2>1. /\ camera_transform' = CameraSet(frame)
        /\ injected_mouse_position' = PointerSet(frame)
        /\ aimed' = IF frame.mouse # <<>> THEN frame.mouse
                    ELSE IF frame.camera # <<>> THEN <<>> ELSE aimed
    BY DEF ReceiveFrame
  <2>2. CASE frame.mouse # <<>>
    BY <1>3, <2>1, <2>2 DEF AimInv
  <2>3. CASE frame.mouse = <<>> /\ frame.camera # <<>>
    BY <2>1, <2>3 DEF AimInv
  <2>4. CASE frame.mouse = <<>> /\ frame.camera = <<>>
    BY <2>1, <2>4 DEF AimInv, InputInv, CameraSet, PointerSet
  <2> QED
    BY <2>2, <2>3, <2>4
<1>7. CarriedInv' /\ ScrollInv' /\ TicksInv'
  BY DEF ReceiveFrame, InputInv, CarriedInv, ScrollInv, TicksInv, crateVars
<1> QED
  BY <1>5, <1>6, <1>7 DEF InputInv

\* What a tick may see: the pointer a command has set, or the user's.
LEMMA MouseTypes ==
    ASSUME InputTypeOK, NEW mouse \in get_mouse_position
    PROVE  /\ mouse \in Int
           /\ injected_mouse_position # <<>> => mouse = injected_mouse_position[1]
<1>1. Positions \subseteq Int
  BY InputAssumption
<1>2. CASE injected_mouse_position = <<>>
  <2>1. mouse \in IF windowed THEN Positions ELSE {0}
    BY <1>2 DEF get_mouse_position, ValueOr
  <2>2. CASE windowed
    BY <1>1, <1>2, <2>1, <2>2
  <2>3. CASE ~windowed
    BY <1>2, <2>1, <2>3
  <2> QED
    BY <2>2, <2>3
<1>3. CASE injected_mouse_position # <<>>
  <2>1. injected_mouse_position[1] \in Int
    BY <1>3 DEF InputTypeOK, IsOptional
  <2>2. mouse \in {injected_mouse_position[1]}
    BY <1>3 DEF get_mouse_position, ValueOr
  <2> QED
    BY <2>1, <2>2
<1> QED
  BY <1>2, <1>3

LEMMA ButtonTypes ==
    ASSUME NEW injected, IsOptional(injected, BOOLEAN), NEW pressed \in get_mouse_button(injected)
    PROVE  pressed \in BOOLEAN
BY DEF get_mouse_button, ValueOr, IsOptional

LEMMA WheelTypes ==
    ASSUME InputTypeOK, NEW wheel \in Wheels, DrawWindow(wheel)
    PROVE  mouse_wheel_delta_frame' \in Int
<1>1. wheel \in Int
  BY InputAssumption
<1> QED
  BY <1>1 DEF DrawWindow, InputTypeOK

\* The camera keeps its type, and the point the pointer was put on; the zoom moves
\* only with the wheel.
LEMMA CameraStep ==
    ASSUME InputInv, NEW mouse \in get_mouse_position, NEW delta \in Int,
           NEW pressed \in BOOLEAN, CameraTick(mouse, delta, pressed),
           UNCHANGED injectedVars
    PROVE  /\ camera_transform' \in Camera
           /\ camera_transform'.z = Zoomed(camera_transform.z, delta)
           /\ IsOptional(base_move_position', Int)
           /\ IsOptional(aimed', Int) /\ IsOptional(grabbed', Int)
           /\ AimInv'
<1> DEFINE zoomed == ZoomedCamera(mouse, delta)
           step == (base_move_position[1] - mouse) \div zoomed.z
<1>0. InputTypeOK /\ camera_transform \in Camera
  BY DEF InputInv, InputTypeOK, Camera, Zooms
<1>1. mouse \in Int /\ (injected_mouse_position # <<>> => mouse = injected_mouse_position[1])
  BY <1>0, MouseTypes
<1>2. /\ zoomed \in Camera /\ zoomed.z = Zoomed(camera_transform.z, delta)
      /\ WorldAt(zoomed, mouse) = WorldAt(camera_transform, mouse)
  BY <1>0, <1>1, ZoomHolds
<1>3. /\ camera_transform' = IF Drags(pressed) THEN [zoomed EXCEPT !.x = @ + step] ELSE zoomed
      /\ base_move_position' = IF pressed THEN <<mouse>> ELSE <<>>
      /\ aimed' = IF Drags(pressed) /\ base_move_position # <<mouse>> THEN <<>> ELSE aimed
      /\ grabbed' =
           IF ~pressed THEN <<>>
           ELSE IF base_move_position = <<>> THEN <<WorldAt(camera_transform, mouse)>>
           ELSE IF delta # 0 /\ base_move_position # <<mouse>> THEN <<>>
           ELSE grabbed
  BY DEF CameraTick, MovedCamera, DragBase
<1> HIDE DEF zoomed
<1>4. zoomed.x \in Int /\ zoomed.z \in Nat \ {0}
  BY <1>2, ZoomTypes DEF Camera
<1>5. Drags(pressed) => /\ base_move_position[1] \in Int /\ step \in Int
                        /\ (base_move_position = <<mouse>> => step = 0)
  <2>1. Drags(pressed) => base_move_position[1] \in Int
    BY <1>0 DEF Drags, InputTypeOK, IsOptional
  <2>2. base_move_position[1] \in Int => step \in Int
    BY <1>1, <1>4
  <2>3. base_move_position = <<mouse>> => base_move_position[1] - mouse = 0
    BY <1>1
  <2>4. 0 \div zoomed.z = 0
    BY <1>4
  <2> QED
    BY <2>1, <2>2, <2>3, <2>4
<1> HIDE DEF step
<1>6. camera_transform' \in Camera /\ camera_transform'.z = zoomed.z
  BY <1>2, <1>3, <1>4, <1>5 DEF Camera
<1>7. /\ IsOptional(base_move_position', Int)
      /\ IsOptional(aimed', Int) /\ IsOptional(grabbed', Int)
  <2>1. WorldAt(camera_transform, mouse) \in Int
    BY <1>0, <1>1, WorldType
  <2> QED
    BY <1>0, <1>1, <1>3, <2>1 DEF InputTypeOK, IsOptional
<1>8. AimInv'
  <2> SUFFICES ASSUME aimed' # <<>>
               PROVE  /\ injected_mouse_position' # <<>>
                      /\ WorldAt(camera_transform', injected_mouse_position'[1]) = aimed'[1]
    BY DEF AimInv
  <2>1. /\ aimed' = aimed
        /\ Drags(pressed) => base_move_position = <<mouse>>
    BY <1>3
  <2>2. /\ injected_mouse_position' = injected_mouse_position
        /\ injected_mouse_position # <<>>
        /\ WorldAt(camera_transform, injected_mouse_position[1]) = aimed[1]
    BY <2>1 DEF InputInv, AimInv, injectedVars
  <2>3. camera_transform' = zoomed
    <3>1. Drags(pressed) => zoomed.x + step = zoomed.x
      BY <1>4, <1>5, <2>1
    <3> QED
      BY <1>2, <1>3, <3>1 DEF Camera
  <2> QED
    BY <1>1, <1>2, <2>1, <2>2, <2>3
<1> QED
  BY <1>2, <1>6, <1>7, <1>8

\* A carried crate keeps the focus, and only a crate in focus is carried.
LEMMA CrateStep ==
    ASSUME InputInv, NEW pressed \in BOOLEAN,
           NEW under \in {<<>>} \cup {<<crate>> : crate \in Crates}, CrateTick(pressed, under)
    PROVE  /\ IsOptional(focus_index', Crates) /\ crate_captured' \in BOOLEAN
           /\ CarriedInv'
           /\ crate_captured' => focus_index' = focus_index
<1>1. IsOptional(under, Crates) /\ IsOptional(focus_index, Crates)
  BY DEF IsOptional, InputInv, InputTypeOK
<1>2. /\ crate_captured' = Captured(pressed)
      /\ focus_index' = IF Captured(pressed) THEN focus_index ELSE under
  BY DEF CrateTick, Focused
<1>3. Captured(pressed) \in BOOLEAN /\ (Captured(pressed) => focus_index # <<>>)
  BY DEF Captured
<1> QED
  BY <1>1, <1>2, <1>3 DEF CarriedInv

\* A tick that is played.
LEMMA PlaysStep ==
    ASSUME InputInv, TickPlays
    PROVE  /\ InputInv'
           /\ crate_captured' => focus_index' = focus_index
           /\ camera_transform'.z =
                Zoomed(camera_transform.z, mouse_wheel_delta_frame' + injected_mouse_scroll_add)
<1> DEFINE delta == mouse_wheel_delta_frame' + injected_mouse_scroll_add
<1>0. InputTypeOK
  BY DEF InputInv
<1>1. /\ at = "tick" /\ IterationEnds /\ UNCHANGED injectedVars
  BY DEF TickPlays
<1>2. PICK wheel \in Wheels : DrawWindow(wheel)
  BY DEF TickPlays
<1>3. mouse_wheel_delta_frame' \in Int /\ delta \in Int
  <2>1. mouse_wheel_delta_frame' \in Int /\ injected_mouse_scroll_add \in Int
    BY <1>0, <1>2, WheelTypes DEF InputTypeOK
  <2> QED
    BY <2>1
<1>4. PICK mouse \in get_mouse_position, pressed \in get_mouse_button(injected_mouse_button_right) :
        CameraTick(mouse, delta, pressed)
  BY DEF TickPlays
<1>5. PICK left \in get_mouse_button(injected_mouse_button_left),
           under \in {<<>>} \cup {<<crate>> : crate \in Crates} : CrateTick(left, under)
  BY DEF TickPlays
<1>6. pressed \in BOOLEAN /\ left \in BOOLEAN
  BY <1>0, ButtonTypes DEF InputTypeOK
<1> HIDE DEF delta
<1>7. /\ camera_transform' \in Camera
      /\ camera_transform'.z = Zoomed(camera_transform.z, delta)
      /\ IsOptional(base_move_position', Int)
      /\ IsOptional(aimed', Int) /\ IsOptional(grabbed', Int)
      /\ AimInv'
  BY <1>1, <1>3, <1>4, <1>6, CameraStep
<1>8. /\ IsOptional(focus_index', Crates) /\ crate_captured' \in BOOLEAN
      /\ CarriedInv'
      /\ crate_captured' => focus_index' = focus_index
  BY <1>5, <1>6, CrateStep
<1>9. InputTypeOK' /\ ScrollInv' /\ TicksInv'
  <2>0. ticks' \in 0..MaxTicks
    BY <1>0, <1>1, InputAssumption DEF IterationEnds, InputInv, InputTypeOK, TicksInv
  <2>1. /\ at' = "head" /\ in_hand' = FALSE /\ windowed' = windowed /\ inputs' = inputs
        /\ injected_mouse_position' = injected_mouse_position
        /\ injected_mouse_button_left' = injected_mouse_button_left
        /\ injected_mouse_button_right' = injected_mouse_button_right
        /\ injected_mouse_scroll_add' = injected_mouse_scroll_add
    BY <1>1 DEF IterationEnds, injectedVars
  <2> QED
    BY <1>0, <1>3, <1>7, <1>8, <2>0, <2>1
    DEF InputTypeOK, ScrollInv, TicksInv, Camera, Zooms
<1> QED
  BY <1>7, <1>8, <1>9 DEF InputInv, delta

\* The steps that leave pointer, camera and crates alone.
LEMMA OtherStep ==
    ASSUME InputInv,
           \/ \E paused \in BOOLEAN : NoFrame(paused)
           \/ TickPaused \/ TickInvalidView \/ LoopEnds \/ UNCHANGED inputVars
    PROVE  /\ InputInv'
           /\ UNCHANGED <<viewVars, crateVars>>
<1> USE DEF InputInv, viewVars, crateVars
<1>0. at \in {"tick", "paused"} => ticks + 1 \in 0..MaxTicks
  BY InputAssumption DEF InputTypeOK, TicksInv
<1>1. ASSUME NEW paused \in BOOLEAN, NoFrame(paused)
      PROVE  InputInv' /\ UNCHANGED <<viewVars, crateVars>>
  BY <1>1 DEF NoFrame, InputTypeOK, CarriedInv, ScrollInv, TicksInv, AimInv,
     historyVars
<1>2. CASE TickPaused
  <2>1. PICK wheel \in Wheels : DrawWindow(wheel)
    BY <1>2 DEF TickPaused
  <2>2. mouse_wheel_delta_frame' \in Int
    BY <2>1, WheelTypes
  <2> QED
    BY <1>0, <1>2, <2>2 DEF TickPaused, IterationEnds, InputTypeOK, CarriedInv,
       ScrollInv, TicksInv, AimInv, injectedVars
<1>3. CASE TickInvalidView
  <2>1. PICK wheel \in Wheels : mouse_wheel_delta_frame' = mouse_wheel_delta_frame + wheel
    BY <1>3 DEF TickInvalidView
  <2>2. mouse_wheel_delta_frame' \in Int
    BY <2>1, InputAssumption DEF InputTypeOK
  <2> QED
    BY <1>0, <1>3, <2>2 DEF TickInvalidView, IterationEnds, InputTypeOK, CarriedInv,
       ScrollInv, TicksInv, AimInv, injectedVars
<1>4. CASE LoopEnds
  BY <1>4 DEF LoopEnds, InputTypeOK, CarriedInv, ScrollInv, TicksInv, AimInv,
     injectedVars, historyVars
<1>5. CASE UNCHANGED inputVars
  BY <1>5 DEF inputVars, InputTypeOK, CarriedInv, ScrollInv, TicksInv, AimInv,
     injectedVars, historyVars
<1> QED
  BY <1>1, <1>2, <1>3, <1>4, <1>5

LEMMA InputSplit ==
    ASSUME [InputNext]_inputVars
    PROVE  \/ \E frame \in FrameInputs : ReceiveFrame(frame)
           \/ TickPlays
           \/ \E paused \in BOOLEAN : NoFrame(paused)
           \/ TickPaused \/ TickInvalidView \/ LoopEnds \/ UNCHANGED inputVars
BY DEF InputNext, Ended

LEMMA InputInvariant == InputSpec => []InputInv
<1>1. InputInv /\ [InputNext]_inputVars => InputInv'
  BY InputSplit, ReceiveStep, PlaysStep, OtherStep
<1> QED
  BY <1>1, InputInvInit, PTL DEF InputSpec

-----------------------------------------------------------------------------
(* What follows.                                                           *)

\* For any commands of positive zooms, wheel movements and ticks, also missed ones,
\* every coordinate is a number, the zoom is one that was commanded or one within the
\* limits of tick_camera_transform, and the focus is on a crate that exists.
THEOREM InputTypeCorrect == InputSpec => []InputTypeOK
<1>1. InputInv => InputTypeOK
  BY DEF InputInv
<1> QED
  BY <1>1, InputInvariant, PTL

-----------------------------------------------------------------------------
(* The limits of the zoom, for any zooms that are commanded: zero,         *)
(* negative or beyond them.                                                *)

\* The zoom leaves its limits by set_camera_position only, to the value it names; and
\* whatever was commanded, a tick in which the wheel is turned, by the user or by a
\* command, ends within them.
ZoomObeysLimits ==
    /\ camera_transform'.z = camera_transform.z
       \/ camera_transform'.z \in MinZoom..MaxZoom
       \/ \E frame \in FrameInputs :
            ReceiveFrame(frame) /\ frame.camera # <<>> /\ camera_transform' = frame.camera[1]
    /\ TickPlays /\ mouse_wheel_delta_frame' + injected_mouse_scroll_add # 0 =>
         camera_transform'.z \in MinZoom..MaxZoom

\* The camera has both of its parts, whatever they are.
IsCamera(camera) == camera = [x |-> camera.x, z |-> camera.z]

LEMMA ClampLimits ==
    ASSUME NEW wild
    PROVE  Clamped(wild) \in MinZoom..MaxZoom
BY InputAssumption DEF Clamped

\* A tick sets the zoom to what Zoomed says, wherever the camera moves.
LEMMA CameraTickZoom ==
    ASSUME IsCamera(camera_transform), NEW mouse, NEW delta, NEW pressed,
           CameraTick(mouse, delta, pressed)
    PROVE  /\ IsCamera(camera_transform')
           /\ camera_transform'.z = Zoomed(camera_transform.z, delta)
<1> DEFINE zoom == Zoomed(camera_transform.z, delta)
           zoomed == [camera_transform EXCEPT !.z = zoom]
<1> HIDE DEF zoom
<1>1. zoomed = [x |-> camera_transform.x, z |-> zoom]
  BY DEF IsCamera
<1>2. PICK moved : ZoomedCamera(mouse, delta) = [x |-> moved, z |-> zoom]
  <2> DEFINE shifted == zoomed.x + WorldAt(camera_transform, mouse) - WorldAt(zoomed, mouse)
  <2>1. ZoomedCamera(mouse, delta) = [zoomed EXCEPT !.x = shifted]
    BY DEF ZoomedCamera, zoom
  <2> HIDE DEF shifted
  <2> QED
    BY <1>1, <2>1
<1>3. PICK dragged : MovedCamera(mouse, delta, pressed) = [x |-> dragged, z |-> zoom]
  <2> DEFINE camera == ZoomedCamera(mouse, delta)
             slid == camera.x + (base_move_position[1] - mouse) \div camera.z
  <2>1. MovedCamera(mouse, delta, pressed)
          = IF Drags(pressed) THEN [camera EXCEPT !.x = slid] ELSE camera
    BY DEF MovedCamera
  <2> HIDE DEF slid
  <2>2. camera = [x |-> camera.x, z |-> zoom]
    BY <1>2
  <2> HIDE DEF camera
  <2>3. [camera EXCEPT !.x = slid] = [x |-> slid, z |-> zoom]
    BY <2>2
  <2> QED
    BY <2>1, <2>2, <2>3
<1> QED
  BY <1>3 DEF CameraTick, IsCamera, zoom

LEMMA ZoomStep ==
    ASSUME IsCamera(camera_transform), [InputNext]_inputVars
    PROVE  IsCamera(camera_transform') /\ [ZoomObeysLimits]_inputVars
<1>1. ASSUME NEW frame \in FrameInputs, ReceiveFrame(frame)
      PROVE  IsCamera(camera_transform') /\ ZoomObeysLimits
  <2>1. ~TickPlays
    BY <1>1 DEF ReceiveFrame, TickPlays
  <2>2. CASE frame.camera = <<>>
    BY <1>1, <2>1, <2>2 DEF ReceiveFrame, CameraSet, ZoomObeysLimits, IsCamera
  <2>3. CASE frame.camera # <<>>
    <3>1. camera_transform' = frame.camera[1]
      BY <1>1, <2>3 DEF ReceiveFrame, CameraSet
    <3>2. frame.camera[1] \in [x : Int, z : Int]
      BY <2>3, InputAssumption DEF IsOptional
    <3> QED
      BY <1>1, <2>1, <2>3, <3>1, <3>2 DEF ZoomObeysLimits, IsCamera
  <2> QED
    BY <2>2, <2>3
<1>2. CASE TickPlays
  <2> DEFINE delta == mouse_wheel_delta_frame' + injected_mouse_scroll_add
  <2>1. PICK mouse, pressed : CameraTick(mouse, delta, pressed)
    BY <1>2 DEF TickPlays
  <2> HIDE DEF delta
  <2>2. /\ IsCamera(camera_transform')
        /\ camera_transform'.z = Zoomed(camera_transform.z, delta)
    BY <2>1, CameraTickZoom
  <2>3. CASE delta = 0
    BY <2>2, <2>3 DEF Zoomed, ZoomObeysLimits, delta
  <2>4. CASE delta # 0
    BY <2>2, <2>4, ClampLimits DEF Zoomed, ZoomObeysLimits
  <2> QED
    BY <2>3, <2>4, <2>2
<1>3. CASE ~TickPlays /\ UNCHANGED camera_transform
  BY <1>3 DEF ZoomObeysLimits, IsCamera
<1>4. ASSUME \/ \E paused \in BOOLEAN : NoFrame(paused)
             \/ TickPaused \/ TickInvalidView \/ LoopEnds \/ UNCHANGED inputVars
      PROVE  UNCHANGED camera_transform
  BY <1>4 DEF NoFrame, TickPaused, TickInvalidView, LoopEnds, inputVars, viewVars
<1> QED
  BY <1>1, <1>2, <1>3, <1>4, InputSplit

\* Whatever zooms are commanded, the limits of tick_camera_transform hold again after
\* the first tick that scrolls, and are left by no scroll, drag or missed tick.
THEOREM ZoomReturnsToLimits == InputSpec => [][ZoomObeysLimits]_inputVars
<1>1. InputInit => IsCamera(camera_transform)
  BY DEF InputInit, IsCamera
<1>2. IsCamera(camera_transform) /\ [InputNext]_inputVars
        => IsCamera(camera_transform)' /\ [ZoomObeysLimits]_inputVars
  BY ZoomStep DEF IsCamera
<1> QED
  BY <1>1, <1>2, PTL DEF InputSpec

\* set_mouse_position holds its point of the world through every zoom, also where
\* the division by the zoom is not exact.
THEOREM AimIsHeld == InputSpec => []AimHolds
<1>1. InputInv => AimHolds
  BY DEF InputInv, AimInv, AimHolds
<1> QED
  BY <1>1, InputInvariant, PTL

\* The scroll of a mouse_scroll command is cleared before the next tick.
THEOREM ScrollOnce == InputSpec => ScrollActsOnce
<1>1. ASSUME InputInv, [InputNext]_inputVars,
             at = "tick", ~in_hand, mouse_wheel_delta_frame' = 0
      PROVE  camera_transform'.z = camera_transform.z
  <2>1. ASSUME NEW frame \in FrameInputs, ReceiveFrame(frame)
        PROVE  FALSE
    BY <1>1, <2>1 DEF ReceiveFrame
  <2>2. CASE TickPlays
    <3>1. mouse_wheel_delta_frame' + injected_mouse_scroll_add = 0
      BY <1>1 DEF InputInv, ScrollInv
    <3> QED
      BY <1>1, <2>2, <3>1, PlaysStep DEF Zoomed
  <2>3. CASE UNCHANGED <<viewVars, crateVars>>
    BY <2>3 DEF viewVars
  <2> QED
    BY <1>1, <2>1, <2>2, <2>3, InputSplit, OtherStep
<1> QED
  BY <1>1, InputInvariant, PTL DEF InputSpec, ScrollActsOnce

\* The focus of logical_crate_sim stays on a crate as long as it is carried.
THEOREM HeldStays == InputSpec => HeldCrateStays
<1>1. ASSUME InputInv, [InputNext]_inputVars, crate_captured'
      PROVE  focus_index' # <<>> /\ (crate_captured => focus_index' = focus_index)
  <2>1. CarriedInv'
    BY <1>1, InputSplit, ReceiveStep, PlaysStep, OtherStep DEF InputInv
  <2>2. ASSUME NEW frame \in FrameInputs, ReceiveFrame(frame)
        PROVE  focus_index' = focus_index
    BY <2>2 DEF ReceiveFrame, crateVars
  <2>3. CASE UNCHANGED <<viewVars, crateVars>>
    BY <1>1, <2>1, <2>3 DEF crateVars, CarriedInv
  <2> QED
    BY <1>1, <2>1, <2>2, <2>3, InputSplit, OtherStep, PlaysStep DEF CarriedInv
<1> QED
  BY <1>1, InputInvariant, PTL DEF InputSpec, HeldCrateStays

-----------------------------------------------------------------------------
(* What a drag loses by rounding.                                          *)

\* Taking a division apart loses at most one unit, and none where a part divides.
LEMMA SplitDivision ==
    ASSUME NEW z \in Nat \ {0}, NEW a \in Int, NEW b \in Int
    PROVE  /\ (a + b) \div z - (a \div z + b \div z) \in {0, 1}
           /\ a % z = 0 => (a + b) \div z = a \div z + b \div z
<1> DEFINE p == a \div z
           q == b \div z
           whole == (a + b) \div z
<1>1. /\ p \in Int /\ z * p =< a /\ a < z * p + z /\ a = z * p + (a % z)
      /\ q \in Int /\ z * q =< b /\ b < z * q + z
      /\ whole \in Int /\ z * whole =< a + b /\ a + b < z * whole + z
  BY SMTT(30)
<1> HIDE DEF p, q, whole
<1>2. \A m, n \in Int : z * m < z * n => m < n
  BY SMTT(30)
<1>3. /\ z * (p + q) = z * p + z * q /\ z * (whole + 1) = z * whole + z
      /\ z * (p + q + 2) = z * p + z * q + z + z
      /\ z * (p + q + 1) = z * p + z * q + z
      /\ z * p \in Int /\ z * q \in Int /\ z * whole \in Int
  BY <1>1, SMTT(30)
<1>4. z * (p + q) < z * (whole + 1) /\ z * whole < z * (p + q + 2)
  BY <1>1, <1>3
<1>5. p + q < whole + 1 /\ whole < p + q + 2
  BY <1>1, <1>2, <1>4
<1>6. a % z = 0 => whole < p + q + 1
  <2>1. a % z = 0 => z * whole < z * (p + q + 1)
    BY <1>1, <1>3
  <2> QED
    BY <1>1, <1>2, <2>1
<1>7. whole - (p + q) \in {0, 1} /\ (a % z = 0 => whole = p + q)
  BY <1>1, <1>5, <1>6
<1> QED
  BY <1>7 DEF p, q, whole

\* A tick in which the point taken is kept, or has just been taken, moves what is
\* under the mouse by one unit at most.
LEMMA DragStep ==
    ASSUME InputInv, NEW mouse \in get_mouse_position, NEW delta \in Int,
           NEW pressed \in BOOLEAN, CameraTick(mouse, delta, pressed), grabbed' # <<>>
    PROVE  /\ base_move_position' = <<mouse>>
           /\ \/ grabbed'[1] = WorldAt(camera_transform', mouse)
              \/ /\ grabbed' = grabbed /\ base_move_position # <<>>
                 /\ WorldAt(camera_transform, base_move_position[1])
                      - WorldAt(camera_transform', mouse) \in {0, 1}
                 /\ (base_move_position[1] - mouse) % camera_transform'.z = 0 =>
                      WorldAt(camera_transform', mouse)
                        = WorldAt(camera_transform, base_move_position[1])
<1> DEFINE zoomed == ZoomedCamera(mouse, delta)
           step == (base_move_position[1] - mouse) \div zoomed.z
<1>0. InputTypeOK /\ camera_transform \in Camera
  BY DEF InputInv, InputTypeOK, Camera, Zooms
<1>1. mouse \in Int /\ HalfViewport \in Int
  BY <1>0, MouseTypes, InputAssumption
<1>2. /\ zoomed \in Camera /\ zoomed.z = Zoomed(camera_transform.z, delta)
      /\ WorldAt(zoomed, mouse) = WorldAt(camera_transform, mouse)
  BY <1>0, <1>1, ZoomHolds
<1>3. /\ camera_transform' = IF Drags(pressed) THEN [zoomed EXCEPT !.x = @ + step] ELSE zoomed
      /\ base_move_position' = IF pressed THEN <<mouse>> ELSE <<>>
      /\ grabbed' =
           IF ~pressed THEN <<>>
           ELSE IF base_move_position = <<>> THEN <<WorldAt(camera_transform, mouse)>>
           ELSE IF delta # 0 /\ base_move_position # <<mouse>> THEN <<>>
           ELSE grabbed
  BY DEF CameraTick, MovedCamera, DragBase
<1> HIDE DEF zoomed
<1>4. pressed /\ base_move_position' = <<mouse>>
  BY <1>3
<1>5. CASE base_move_position = <<>>
  BY <1>2, <1>3, <1>4, <1>5 DEF Drags
<1>6. CASE base_move_position # <<>>
  <2> DEFINE base == base_move_position[1]
  <2>1. /\ Drags(pressed) /\ grabbed' = grabbed /\ base \in Int
        /\ delta = 0 \/ base = mouse
    <3>1. Len(base_move_position) = 1 /\ base \in Int
      BY <1>0, <1>6 DEF InputTypeOK, IsOptional
    <3>2. base_move_position = <<mouse>> => base = mouse
      OBVIOUS
    <3> HIDE DEF base
    <3> QED
      BY <1>3, <1>4, <1>6, <3>1, <3>2 DEF Drags
  <2> HIDE DEF base
  <2>2. zoomed.x \in Int /\ zoomed.z \in Nat \ {0}
    BY <1>2, ZoomTypes DEF Camera
  <2>3. WorldAt(zoomed, base) = WorldAt(camera_transform, base)
    <3>1. CASE base = mouse
      BY <1>2, <3>1
    <3>2. CASE delta = 0
      <4>1. zoomed.z = camera_transform.z
        BY <1>2, <3>2 DEF Zoomed
      <4> DEFINE at_mouse == (mouse - HalfViewport) \div zoomed.z
      <4>2. at_mouse \in Int /\ camera_transform.x \in Int
        BY <1>0, <1>1, <2>2 DEF Camera
      <4> HIDE DEF at_mouse
      <4>3. zoomed.x + at_mouse = camera_transform.x + at_mouse
        BY <1>2, <4>1 DEF WorldAt, at_mouse
      <4>4. zoomed.x = camera_transform.x
        BY <2>2, <4>2, <4>3
      <4> QED
        BY <4>1, <4>4 DEF WorldAt
    <3> QED
      BY <2>1, <3>1, <3>2
  <2> DEFINE a == base - mouse
             b == mouse - HalfViewport
  <2>4. a \in Int /\ b \in Int /\ a + b = base - HalfViewport
    BY <1>1, <2>1
  <2>5. /\ step = a \div zoomed.z /\ step \in Int
    BY <2>2, <2>4 DEF base
  <2> HIDE DEF step
  <2>6. /\ camera_transform'.x = zoomed.x + step /\ camera_transform'.z = zoomed.z
    BY <1>2, <1>3, <2>1, <2>2, <2>5 DEF Camera
  <2> DEFINE p == (a + b) \div zoomed.z
             q == b \div zoomed.z
  <2> HIDE DEF a, b
  <2>7. p \in Int /\ q \in Int
    BY <2>2, <2>4
  <2>8. p - (step + q) \in {0, 1} /\ (a % zoomed.z = 0 => p = step + q)
    BY <2>2, <2>4, <2>5, SplitDivision
  <2> HIDE DEF p, q
  <2>9. /\ WorldAt(camera_transform, base) = zoomed.x + p
        /\ WorldAt(camera_transform', mouse) = zoomed.x + step + q
    BY <2>3, <2>4, <2>6 DEF WorldAt, p, q, b
  <2>10. /\ WorldAt(camera_transform, base) - WorldAt(camera_transform', mouse) \in {0, 1}
         /\ a % zoomed.z = 0 =>
              WorldAt(camera_transform', mouse) = WorldAt(camera_transform, base)
    BY <2>2, <2>5, <2>7, <2>8, <2>9
  <2> QED
    BY <1>4, <1>6, <2>1, <2>6, <2>10 DEF base, a
<1> QED
  BY <1>5, <1>6

\* The steps that do not move the camera of a drag keep it, or end it.
LEMMA DragKept ==
    ASSUME InputInv, [InputNext]_inputVars, ~TickPlays
    PROVE  \/ grabbed' = <<>>
           \/ /\ UNCHANGED <<viewVars, grabbed>>
              /\ ticks' \in {ticks, ticks + 1}
<1>1. ASSUME NEW frame \in FrameInputs, ReceiveFrame(frame)
      PROVE  \/ grabbed' = <<>>
             \/ UNCHANGED <<viewVars, grabbed>> /\ ticks' = ticks
  BY <1>1 DEF ReceiveFrame, CameraSet, viewVars
<1>2. ASSUME NEW paused \in BOOLEAN, NoFrame(paused)
      PROVE  UNCHANGED <<viewVars, grabbed>> /\ ticks' = ticks
  BY <1>2 DEF NoFrame, historyVars
<1>3. CASE TickPaused \/ TickInvalidView
  BY <1>3 DEF TickPaused, TickInvalidView, IterationEnds
<1>4. CASE LoopEnds \/ UNCHANGED inputVars
  BY <1>4 DEF LoopEnds, inputVars, historyVars
<1> QED
  BY <1>1, <1>2, <1>3, <1>4, InputSplit

\* How far the point taken may have slipped from under the mouse.
DragSlipsBy(Slips) ==
    grabbed # <<>> =>
        /\ base_move_position # <<>>
        /\ grabbed[1] - WorldAt(camera_transform, base_move_position[1]) \in Slips

\* A drag loses a unit at most in each of its ticks, whatever the zoom and the way
\* of the mouse.  Which side it slips to is a matter of \div, which rounds down;
\* the floats of the code round to either.
DragSlipsByRounding == DragSlipsBy(0..ticks)

\* The floating-point division of tick_camera_transform stands for an exact one
\* where the way of the mouse in this tick is a multiple of the zoom.
DragIsExact ==
    base_move_position # <<>> /\ base_move_position' # <<>> =>
        (base_move_position[1] - base_move_position'[1]) % camera_transform'.z = 0

\* What a tick that is played does to a drag.
LEMMA DragTick ==
    ASSUME InputInv, TickPlays, grabbed' # <<>>
    PROVE  /\ base_move_position' # <<>> /\ ticks' = ticks + 1
           /\ LET under == WorldAt(camera_transform, base_move_position[1])
                  under_after == WorldAt(camera_transform', base_move_position'[1])
              IN  \/ grabbed'[1] = under_after
                  \/ /\ grabbed' = grabbed
                     /\ under - under_after \in {0, 1}
                     /\ DragIsExact => under_after = under
<1>1. PICK wheel \in Wheels : DrawWindow(wheel)
  BY DEF TickPlays
<1> DEFINE delta == mouse_wheel_delta_frame' + injected_mouse_scroll_add
<1>2. delta \in Int
  <2>1. mouse_wheel_delta_frame' \in Int /\ injected_mouse_scroll_add \in Int
    BY <1>1, WheelTypes DEF InputInv, InputTypeOK
  <2> QED
    BY <2>1
<1>3. PICK mouse \in get_mouse_position, pressed \in get_mouse_button(injected_mouse_button_right) :
        CameraTick(mouse, delta, pressed)
  BY DEF TickPlays
<1>4. pressed \in BOOLEAN
  BY ButtonTypes DEF InputInv, InputTypeOK
<1> HIDE DEF delta
<1>5. ticks' = ticks + 1
  BY DEF TickPlays, IterationEnds
<1> QED
  BY <1>2, <1>3, <1>4, <1>5, DragStep DEF DragIsExact

\* The two points of a drag are integers.
LEMMA DragTypes ==
    ASSUME NEW camera \in Camera, NEW base, NEW taken,
           IsOptional(base, Int), IsOptional(taken, Int)
    PROVE  /\ taken # <<>> => taken[1] \in Int
           /\ base # <<>> => WorldAt(camera, base[1]) \in Int
<1>1. /\ base # <<>> => base[1] \in Int
      /\ taken # <<>> => taken[1] \in Int
  BY DEF IsOptional
<1> QED
  BY <1>1, WorldType

LEMMA TypesBefore ==
    ASSUME InputInv
    PROVE  /\ grabbed # <<>> => grabbed[1] \in Int
           /\ base_move_position # <<>> =>
                WorldAt(camera_transform, base_move_position[1]) \in Int
           /\ ticks \in Nat
<1>1. /\ camera_transform \in Camera
      /\ IsOptional(base_move_position, Int) /\ IsOptional(grabbed, Int)
  BY DEF InputInv, InputTypeOK, Camera, Zooms
<1>2. ticks \in Nat
  BY InputAssumption DEF InputInv, InputTypeOK
<1> QED
  BY <1>1, <1>2, DragTypes

LEMMA TypesAfter ==
    ASSUME InputInv'
    PROVE  /\ grabbed' # <<>> => grabbed'[1] \in Int
           /\ base_move_position' # <<>> =>
                WorldAt(camera_transform', base_move_position'[1]) \in Int
           /\ ticks' \in Nat
<1>1. /\ camera_transform' \in Camera
      /\ IsOptional(base_move_position', Int) /\ IsOptional(grabbed', Int)
  BY DEF InputInv, InputTypeOK, Camera, Zooms
<1>2. ticks' \in Nat
  BY InputAssumption DEF InputInv, InputTypeOK
<1> QED
  BY <1>1, <1>2, DragTypes

\* However the user or the commands drag, scroll and zoom, the point that the right
\* button took slips by a unit per tick at most: no error but that of the division
\* adds up, because base_move_position follows the mouse.
THEOREM DragDrift == InputSpec => []DragSlipsByRounding
<1>1. InputInit => DragSlipsByRounding
  BY DEF InputInit, DragSlipsByRounding, DragSlipsBy
<1>2. ASSUME InputInv, InputInv', DragSlipsByRounding, [InputNext]_inputVars
      PROVE  DragSlipsByRounding'
  <2> SUFFICES ASSUME grabbed' # <<>>
               PROVE  /\ base_move_position' # <<>>
                      /\ grabbed'[1] - WorldAt(camera_transform', base_move_position'[1])
                           \in 0..ticks'
    BY DEF DragSlipsByRounding, DragSlipsBy
  <2>1. CASE TickPlays
    <3> DEFINE under == WorldAt(camera_transform, base_move_position[1])
               under_after == WorldAt(camera_transform', base_move_position'[1])
    <3>1. /\ base_move_position' # <<>> /\ ticks' = ticks + 1
          /\ \/ grabbed'[1] = under_after
             \/ grabbed' = grabbed /\ under - under_after \in {0, 1}
      BY <1>2, <2>1, DragTick
    <3>2. under_after \in Int /\ grabbed'[1] \in Int /\ ticks \in Nat
      BY <1>2, <3>1, TypesBefore, TypesAfter
    <3>3. grabbed' = grabbed =>
            grabbed[1] \in Int /\ under \in Int /\ grabbed[1] - under \in 0..ticks
      BY <1>2, TypesBefore DEF DragSlipsByRounding, DragSlipsBy
    <3> HIDE DEF under, under_after
    <3>4. grabbed'[1] - under_after \in 0..(ticks + 1)
      <4>1. CASE grabbed'[1] = under_after
        BY <3>2, <4>1
      <4>2. CASE grabbed' = grabbed /\ under - under_after \in {0, 1}
        BY <3>2, <3>3, <4>2
      <4> QED
        BY <3>1, <4>1, <4>2
    <3> QED
      BY <3>1, <3>4 DEF under_after
  <2>2. CASE ~TickPlays
    <3>1. UNCHANGED <<viewVars, grabbed>> /\ ticks' \in {ticks, ticks + 1}
      BY <1>2, <2>2, DragKept
    <3>2. ticks \in Nat
      BY <1>2, TypesBefore
    <3>3. \A slip : slip \in 0..ticks => slip \in 0..ticks'
      BY <3>1, <3>2
    <3> QED
      BY <1>2, <3>1, <3>3 DEF DragSlipsByRounding, DragSlipsBy, viewVars
  <2> QED
    BY <2>1, <2>2
<1> QED
  BY <1>1, <1>2, InputInvariant, PTL DEF InputSpec

\* Where no tick of a drag rounds, the point that the right button took stays under
\* the mouse over any number of ticks, of zooms and of ticks missed in between.
THEOREM DragHolds == InputSpec /\ [][DragIsExact]_inputVars => []DragHoldsPoint
<1> DEFINE Held == DragSlipsBy({0})
<1>1. InputInit => Held
  BY DEF InputInit, DragSlipsBy
<1>2. ASSUME InputInv, InputInv', Held, [InputNext]_inputVars, [DragIsExact]_inputVars
      PROVE  Held'
  <2> SUFFICES ASSUME grabbed' # <<>>
               PROVE  /\ base_move_position' # <<>>
                      /\ grabbed'[1] - WorldAt(camera_transform', base_move_position'[1]) = 0
    BY DEF DragSlipsBy
  <2>1. CASE TickPlays /\ DragIsExact
    <3> DEFINE under == WorldAt(camera_transform, base_move_position[1])
               under_after == WorldAt(camera_transform', base_move_position'[1])
    <3>1. /\ base_move_position' # <<>>
          /\ \/ grabbed'[1] = under_after
             \/ grabbed' = grabbed /\ under_after = under
      BY <1>2, <2>1, DragTick
    <3>2. under_after \in Int
      BY <1>2, <3>1, TypesBefore, TypesAfter
    <3>3. grabbed' = grabbed => grabbed[1] - under = 0
      BY <1>2 DEF DragSlipsBy
    <3> HIDE DEF under, under_after
    <3>4. grabbed'[1] - under_after = 0
      <4>1. CASE grabbed'[1] = under_after
        BY <3>2, <4>1
      <4>2. CASE grabbed' = grabbed /\ under_after = under
        BY <3>3, <4>2
      <4> QED
        BY <3>1, <4>1, <4>2
    <3> QED
      BY <3>1, <3>4 DEF under_after
  <2>2. CASE ~TickPlays
    <3>1. UNCHANGED <<viewVars, grabbed>>
      BY <1>2, <2>2, DragKept
    <3> QED
      BY <1>2, <3>1 DEF DragSlipsBy, viewVars
  <2>3. CASE UNCHANGED inputVars
    BY <1>2, <2>3 DEF inputVars, DragSlipsBy, viewVars, historyVars
  <2> QED
    BY <1>2, <2>1, <2>2, <2>3
<1>3. InputInv /\ Held => DragHoldsPoint
  <2> SUFFICES ASSUME InputInv, Held, grabbed # <<>>
               PROVE  WorldAt(camera_transform, base_move_position[1]) = grabbed[1]
    BY DEF DragHoldsPoint
  <2>1. /\ grabbed[1] \in Int
        /\ WorldAt(camera_transform, base_move_position[1]) \in Int
        /\ grabbed[1] - WorldAt(camera_transform, base_move_position[1]) = 0
    BY TypesBefore DEF DragSlipsBy
  <2> QED
    BY <2>1
<1> HIDE DEF Held
<1> QED
  BY <1>1, <1>2, <1>3, InputInvariant, PTL DEF InputSpec
=============================================================================
