-------------------------- MODULE LogicalLoopProofs --------------------------
(***************************************************************************)
(* Proofs about LogicalLoop, for every set of command maps and names, every*)
(* configuration and any number of frames: its type invariant, that frames *)
(* are executed in receipt order and answered one by one and completely,   *)
(* that the loop implements FrameService, that a saved screenshot is of    *)
(* the frame that asked for it, and how near the next frame always is.     *)
(***************************************************************************)
EXTENDS LogicalLoop, SequenceTheorems, TLAPS

-----------------------------------------------------------------------------
(* Types of what the handlers compute.                                     *)

\* Whatever a line holds, the reader pushes a frame.
LEMMA ParsedFrame ==
    ASSUME NEW line \in Line
    PROVE  command_frame_from_json(line) \in Frame
<1>1. CASE line \in [parses : {TRUE}, frame : CommittedFrame]
  <2>1. line.parses = TRUE /\ line.frame \in CommittedFrame
    BY <1>1
  <2> QED
    BY <2>1 DEF command_frame_from_json, Frame
<1>2. CASE line = GarbledLine
  <2>1. line.parses = FALSE
    BY <1>2 DEF GarbledLine
  <2> QED
    BY <2>1 DEF command_frame_from_json, Frame
<1> QED
  BY <1>1, <1>2 DEF Line

\* The fields of a frame have the types that Body and FrameNames give them.
LEMMA FrameType ==
    ASSUME NEW frame \in Frame
    PROVE  /\ frame.tag \in Nat
           /\ frame.id \in Nat
           /\ frame.body.cmds \subseteq CommandType
           /\ frame.body.pass \in Int
<1>1. CASE frame \in CommittedFrame
  <2>1. PICK name \in FrameNames, body \in FrameBodies :
          frame = [tag |-> name[1], id |-> name[2], body |-> body]
    BY <1>1 DEF CommittedFrame
  <2>2. name[1] \in Nat /\ name[2] \in Nat
    BY FrameNamesAssumption
  <2>3. body.cmds \subseteq CommandType /\ body.pass \in Int
    BY FrameBodiesAssumption DEF Body
  <2> QED
    BY <2>1, <2>2, <2>3
<1>2. CASE frame = EmptyFrame
  BY <1>2 DEF EmptyFrame
<1> QED
  BY <1>1, <1>2 DEF Frame

\* The answer begun by inject_remote_control_pre ...
PreAnswer(frame) == AnswerPassTicks(inject_remote_control_pre(frame), frame)

\* The answer begun before the tick is an answer ...
LEMMA PreAnswerType ==
    ASSUME NEW frame \in Frame
    PROVE  /\ PreAnswer(frame) \in Answer
           /\ NameOf(PreAnswer(frame)) = NameOf(frame)
           /\ PreAnswer(frame).answered =
                frame.body.cmds \cap (PreAnswered \cup {"pass_ticks_after"})
  BY FrameType DEF PreAnswer, AnswerPassTicks, inject_remote_control_pre, Answer,
                   ShotResult, NameOf

\* ... and completed by inject_remote_control_post.
LEMMA PostAnswerType ==
    ASSUME NEW frame \in Frame, NEW result \in ScreenshotResults(frame),
           NEW answer \in Answer
    PROVE  LET final == inject_remote_control_post(answer, frame, result)
           IN  /\ final \in Answer
               /\ NameOf(final) = NameOf(frame)
               /\ final.answered =
                    answer.answered \cup (frame.body.cmds \cap PostAnswered)
               /\ final.shot = result
<1>1. result \in ShotResult
  BY DEF ScreenshotResults, ShotResult
<1>2. answer.answered \subseteq CommandType
  BY DEF Answer
<1> QED
  BY <1>1, <1>2, FrameType DEF inject_remote_control_post, Answer, NameOf

\* Between them the two handlers and the loop answer all but debug_command.
LEMMA AllButDebug ==
    ASSUME NEW cmds, cmds \subseteq CommandType
    PROVE  (cmds \cap (PreAnswered \cup {"pass_ticks_after"}))
             \cup (cmds \cap PostAnswered) = cmds \ {"debug_command"}
  BY DEF CommandType, PreAnswered, PostAnswered

\* The screenshot latch stays a latch, requested, captured or consumed.
LEMMA ShotType ==
    ASSUME LoopTypeOK
    PROVE  /\ request_screenshot \in Shot
           /\ \A allocated \in BOOLEAN : Captures(allocated) \in Shot
           /\ \A frame \in Frame : ConsumeShot(frame) \in Shot
<1>1. shot \in Shot /\ shot.of \in Nat /\ Len(executed) \in Nat
  BY DEF LoopTypeOK, Shot
<1>2. request_screenshot \in Shot
  BY <1>1 DEF request_screenshot, Shot
<1>3. ASSUME NEW allocated \in BOOLEAN
      PROVE  Captures(allocated) \in Shot
  BY <1>1 DEF Captures, Shot, NoFrame
<1>4. ASSUME NEW frame \in Frame
      PROVE  ConsumeShot(frame) \in Shot
  BY <1>1 DEF ConsumeShot, Shot
<1> QED
  BY <1>2, <1>3, <1>4

\* The queue from which the next frame is taken, and what is left of it.
LEMMA PolledType ==
    ASSUME LoopTypeOK
    PROVE  /\ Polled \in Seq(Frame)
           /\ Polled # <<>> => Head(Polled) \in Frame /\ Tail(Polled) \in Seq(Frame)
           /\ ReceiveNextFrameCommand => incoming_queue' \in Seq(Frame)
<1>1. NextFrameCommand \in Seq(Frame)
  BY DEF LoopTypeOK, QueuesTypeOK, NextFrameCommand
<1>2. Polled \in Seq(Frame)
  BY <1>1 DEF LoopTypeOK, Polled
<1>3. Polled # <<>> => Head(Polled) \in Frame /\ Tail(Polled) \in Seq(Frame)
  BY <1>2
<1>4. incoming_queue # <<>> => Tail(incoming_queue) \in Seq(Frame)
  BY DEF LoopTypeOK, QueuesTypeOK
<1>5. ReceiveNextFrameCommand => incoming_queue' \in Seq(Frame)
  <2>1. <<>> \in Seq(Frame)
    OBVIOUS
  <2> QED
    BY <1>4, <2>1 DEF ReceiveNextFrameCommand
<1> QED
  BY <1>2, <1>3, <1>5

-----------------------------------------------------------------------------
(* The invariant behind the type of an answer.                             *)

\* The frame in hand, if there is one, is the last one injected, its answer has
\* been begun, and the iteration it is executed in is not a paused one: no
\* `continue' skips its answer.
InHand ==
    /\ pc \notin {"tick", "post"} => this_frame_command = <<>>
    /\ this_frame_command # <<>> =>
         /\ ~pause_mode
         /\ executed # <<>>
         /\ this_frame_command = <<LastExecuted>>
         /\ answer_set_pre = <<PreAnswer(LastExecuted)>>

\* The steps that only move the thread along.
Moves ==
    \/ EnterLoop \/ PreLocal \/ PrePassFrame
    \/ TickWindowClosed \/ TickInvalidView \/ TickPaused \/ TickShutsDown
    \/ PostNoCommand \/ LeaveLoop \/ RequestNetStop \/ Finish
    \/ signal_terminate \/ NetTake \/ NetExit

\* A step of the system executes a frame, posts an answer, plays a tick,
\* touches the queues, or only moves the program counter.
LoopChange ==
    \/ Moves
    \/ PreIdle
    \/ PreExecute
    \/ \E drawn \in {"drawn", "skipped"} : TickPlays(drawn)
    \/ PostAnswer
    \/ \E line \in Line : NetDeliver(line)
    \/ UNCHANGED vars

LEMMA NextCases ==
    ASSUME [LoopNext]_vars
    PROVE  LoopChange
  BY DEF LoopNext, LoopStep, LoopLocalStep, LoopTerminated, Moves, LoopChange

\* What none of those steps touches.
LEMMA MovesFrame ==
    ASSUME Moves
    PROVE  UNCHANGED <<incoming_queue, received, cfg, command_queue,
                       this_frame_command, answer_set_pre, shutdown_command, shot,
                       executed, sent, played>>
<1> USE DEF queueVars, netVars, sceneVars, frameVars, loopVars
<1>1. CASE EnterLoop \/ PreLocal \/ PrePassFrame
  BY <1>1 DEF EnterLoop, PreLocal, PrePassFrame
<1>2. CASE TickWindowClosed \/ TickInvalidView \/ TickPaused \/ TickShutsDown
  BY <1>2 DEF TickWindowClosed, TickInvalidView, TickPaused, TickShutsDown
<1>3. CASE PostNoCommand \/ LeaveLoop \/ RequestNetStop \/ Finish \/ signal_terminate
  BY <1>3 DEF PostNoCommand, LeaveLoop, RequestNetStop, Finish, signal_terminate
<1>4. CASE NetTake \/ NetExit
  BY <1>4 DEF NetTake, NetExit
<1> QED
  BY <1>1, <1>2, <1>3, <1>4 DEF Moves

\* A frame in hand is a frame, and so is the answer begun for it.
LEMMA InHandType ==
    ASSUME LoopTypeOK, InHand, this_frame_command # <<>>
    PROVE  /\ this_frame_command[1] = LastExecuted
           /\ LastExecuted \in Frame
           /\ answer_set_pre[1] = PreAnswer(LastExecuted)
           /\ PreAnswer(LastExecuted) \in Answer
<1>1. LastExecuted \in Frame
  BY DEF LoopTypeOK, InHand, LastExecuted
<1> QED
  BY <1>1, PreAnswerType DEF InHand

\* Every step keeps every variable in its type.
LEMMA TypeStep ==
    ASSUME LoopTypeOK, InHand, LoopChange
    PROVE  LoopTypeOK'
<1> USE DEF LoopTypeOK, QueuesTypeOK
<1>1. CASE Moves
  <2> USE DEF queueVars, netVars, sceneVars, frameVars, loopVars, AfterTick
  <2>1. CASE EnterLoop \/ PreLocal
    BY <2>1 DEF EnterLoop, PreLocal
  <2>2. CASE TickWindowClosed \/ TickInvalidView \/ TickPaused \/ TickShutsDown
    BY <2>2 DEF TickWindowClosed, TickInvalidView, TickPaused, TickShutsDown
  <2>3. CASE PostNoCommand \/ LeaveLoop \/ RequestNetStop \/ Finish \/ signal_terminate
    BY <2>3 DEF PostNoCommand, LeaveLoop, RequestNetStop, Finish, signal_terminate
  <2>4. CASE PrePassFrame
    <3>1. pass_control_frames' \in Int /\ pc' = "tick" /\ pause_mode' = FALSE
      BY <2>4 DEF PrePassFrame
    <3> QED
      BY <2>4, <3>1 DEF PrePassFrame
  <2>5. CASE NetTake
    <3>1. <<>> \in Seq(Answer)
      OBVIOUS
    <3> QED
      BY <2>5, <3>1 DEF NetTake
  <2>6. CASE NetExit
    BY <2>6 DEF NetExit
  <2> QED
    BY <1>1, <2>1, <2>2, <2>3, <2>4, <2>5, <2>6 DEF Moves
<1>2. CASE PreIdle
  <2>1. incoming_queue' \in Seq(Frame)
    BY <1>2, PolledType DEF PreIdle
  <2> QED
    BY <1>2, <2>1 DEF PreIdle, netVars, sceneVars, frameVars
<1>3. CASE PreExecute
  <2>1. Head(Polled) \in Frame /\ Tail(Polled) \in Seq(Frame)
    BY <1>3, PolledType DEF PreExecute
  <2>2. incoming_queue' \in Seq(Frame)
    BY <1>3, PolledType DEF PreExecute
  <2>3. this_frame_command' \in Seq(Frame) /\ executed' \in Seq(Frame)
    BY <1>3, <2>1 DEF PreExecute
  <2>4. answer_set_pre' \in Seq(Answer)
    <3>1. answer_set_pre' = <<PreAnswer(Head(Polled))>>
      BY <1>3 DEF PreExecute, PreAnswer
    <3> QED
      BY <2>1, <3>1, PreAnswerType
  <2>5. shutdown_command' \in BOOLEAN /\ shot' \in Shot
    BY <1>3, ShotType DEF PreExecute, InjectPreEffects
  <2>6. pass_control_frames' \in Int
    BY <1>3, <2>1, FrameType DEF PreExecute, PassAfter
  <2> QED
    BY <1>3, <2>1, <2>2, <2>3, <2>4, <2>5, <2>6 DEF PreExecute, netVars
<1>4. ASSUME NEW drawn \in {"drawn", "skipped"}, TickPlays(drawn)
      PROVE  LoopTypeOK'
  <2>1. tick_running' \in BOOLEAN /\ shot' \in Shot
    BY <1>4, ShotType DEF TickPlays
  <2>2. played' \in Nat
    BY <1>4 DEF TickPlays
  <2> QED
    BY <1>4, <2>1, <2>2 DEF TickPlays, AfterTick, queueVars, frameVars
<1>5. CASE PostAnswer
  <2> DEFINE frame == this_frame_command[1]
  <2>1. PICK result \in ScreenshotResults(frame) :
          LET answer == inject_remote_control_post(answer_set_pre[1], frame, result)
          IN  /\ send_answer(answer)
              /\ sent' = Append(sent, answer)
              /\ shot' = ConsumeShot(frame)
    BY <1>5 DEF PostAnswer
  <2>2. frame \in Frame /\ answer_set_pre[1] \in Answer
    BY <1>5, InHandType DEF PostAnswer
  <2>3. inject_remote_control_post(answer_set_pre[1], frame, result) \in Answer
    BY <2>2, PostAnswerType
  <2>4. sent' \in Seq(Answer) /\ outgoing_queue' \in Seq(Answer)
    BY <2>1, <2>3 DEF send_answer
  <2>5. shot' \in Shot
    BY <2>1, <2>2, ShotType
  <2> QED
    BY <1>5, <2>4, <2>5 DEF PostAnswer
<1>6. ASSUME NEW line \in Line, NetDeliver(line)
      PROVE  LoopTypeOK'
  BY <1>6, ParsedFrame DEF NetDeliver, PushIncoming, loopVars
<1>7. CASE UNCHANGED vars
  BY <1>7 DEF vars, queueVars, loopVars
<1> QED
  BY <1>1, <1>2, <1>3, <1>4, <1>5, <1>6, <1>7 DEF LoopChange

\* Every step keeps the frame in hand and its begun answer together.
LEMMA InHandStep ==
    ASSUME LoopTypeOK, InHand, LoopChange
    PROVE  InHand'
<1> USE DEF InHand, LastExecuted
<1>1. CASE Moves
  <2>1. UNCHANGED <<this_frame_command, answer_set_pre, executed>>
    BY <1>1, MovesFrame
  <2>2. CASE this_frame_command = <<>>
    BY <2>1, <2>2
  <2>3. CASE this_frame_command # <<>>
    <3>1. pc \in {"tick", "post"} /\ ~pause_mode
      BY <2>3
    <3>2. pc' \in {"tick", "post"} /\ pause_mode' = pause_mode
      <4>1. ~(EnterLoop \/ PreLocal \/ PrePassFrame \/ PostNoCommand
              \/ LeaveLoop \/ RequestNetStop \/ Finish)
        BY <2>3, <3>1 DEF EnterLoop, PreLocal, PrePassFrame,
             IterationStarts, PostNoCommand, LeaveLoop, RequestNetStop, Finish
      <4>2. CASE TickWindowClosed \/ TickInvalidView \/ TickPaused \/ TickShutsDown
        BY <3>1, <4>2 DEF TickWindowClosed, TickInvalidView, TickPaused, TickShutsDown,
             AfterTick
      <4>3. CASE signal_terminate \/ NetTake \/ NetExit
        BY <3>1, <4>3 DEF signal_terminate, NetTake, NetExit, loopVars
      <4> QED
        BY <1>1, <4>1, <4>2, <4>3 DEF Moves
    <3> QED
      BY <2>1, <2>3, <3>1, <3>2
  <2> QED
    BY <2>2, <2>3
<1>2. CASE PreIdle
  BY <1>2 DEF PreIdle, IterationStarts, frameVars
<1>3. CASE PreExecute
  <2>1. /\ pc' = "tick"
        /\ pause_mode' = FALSE
        /\ this_frame_command' = <<Head(Polled)>>
        /\ executed' = Append(executed, Head(Polled))
        /\ answer_set_pre' = <<PreAnswer(Head(Polled))>>
    BY <1>3 DEF PreExecute, PreAnswer
  <2>2. Head(Polled) \in Frame
    BY <1>3, PolledType DEF PreExecute
  <2>3. executed' # <<>> /\ executed'[Len(executed')] = Head(Polled)
    BY <2>1, <2>2 DEF LoopTypeOK
  <2> QED
    BY <2>1, <2>3
<1>4. ASSUME NEW drawn \in {"drawn", "skipped"}, TickPlays(drawn)
      PROVE  InHand'
  BY <1>4 DEF TickPlays, AfterTick, frameVars
<1>5. CASE PostAnswer
  BY <1>5 DEF PostAnswer
<1>6. ASSUME NEW line \in Line, NetDeliver(line)
      PROVE  InHand'
  BY <1>6 DEF NetDeliver, loopVars
<1>7. CASE UNCHANGED vars
  BY <1>7 DEF vars, loopVars
<1> QED
  BY <1>1, <1>2, <1>3, <1>4, <1>5, <1>6, <1>7 DEF LoopChange

\* The initial states have the right types and nothing in hand.
LEMMA InitialState ==
    ASSUME LoopInit
    PROVE  LoopTypeOK /\ InHand
<1>1. LoopTypeOK
  <2>1. cfg \in [tickless : BOOLEAN, window : BOOLEAN, remote : BOOLEAN]
    BY ConfigsAssumption DEF LoopInit
  <2>2. shot \in Shot
    BY DEF LoopInit, Shot, NoFrame
  <2>3. <<>> \in Seq(Frame) /\ <<>> \in Seq(Answer)
    OBVIOUS
  <2>4. QueuesTypeOK
    BY <2>3 DEF LoopInit, QueuesInit, QueuesTypeOK
  <2>5. /\ command_queue \in Seq(Frame) /\ this_frame_command \in Seq(Frame)
        /\ executed \in Seq(Frame)
        /\ answer_set_pre \in Seq(Answer) /\ sent \in Seq(Answer)
    BY <2>3 DEF LoopInit
  <2>6. /\ pc \in {"start", "head", "tick", "post", "unwind", "join", "done"}
        /\ pass_control_frames \in Int /\ played \in Nat
    BY DEF LoopInit
  <2>7. /\ stop_requested \in BOOLEAN /\ tick_running \in BOOLEAN
        /\ pause_mode \in BOOLEAN /\ shutdown_command \in BOOLEAN
    BY Zenon DEF LoopInit
  <2> QED
    BY <2>1, <2>2, <2>4, <2>5, <2>6, <2>7 DEF LoopTypeOK
<1>2. InHand
  BY DEF LoopInit, InHand
<1> QED
  BY <1>1, <1>2

\* The frame in hand and its answer are set and cleared together, so the loop
\* never dereferences an empty optional: everything it computes has its type.
THEOREM LoopTypeCorrect == LoopSpec => [](LoopTypeOK /\ InHand)
<1>1. LoopTypeOK /\ InHand /\ [LoopNext]_vars => LoopTypeOK' /\ InHand'
  BY TypeStep, InHandStep, NextCases
<1> QED
  BY <1>1, InitialState, PTL DEF LoopSpec

-----------------------------------------------------------------------------
(* The order of execution.                                                 *)

\* The first element may be taken from the second part to the end of the first.
LEMMA HeadAcross ==
    ASSUME NEW T, NEW q \in Seq(T), NEW r \in Seq(T), r # <<>>
    PROVE  q \o r = Append(q, Head(r)) \o Tail(r)
<1>1. /\ Head(r) \in T /\ Tail(r) \in Seq(T)
      /\ r = <<Head(r)>> \o Tail(r)
  OBVIOUS
<1>2. <<Head(r)>> \in Seq(T)
  BY <1>1
<1>3. Append(q, Head(r)) = q \o <<Head(r)>>
  BY <1>1, AppendIsConcat
<1>4. (q \o <<Head(r)>>) \o Tail(r) = q \o (<<Head(r)>> \o Tail(r))
  BY <1>1, <1>2, ConcatAssociative
<1> QED
  BY <1>1, <1>3, <1>4

\* The strengthening of FramesInReceiptOrder: command_queue is empty between
\* two iterations, so the front of incoming_queue is the next frame.
OrderInv == FramesInReceiptOrder /\ CommandQueueDrained

\* A step of the loop that executes a frame takes the next one received.
LEMMA ExecutesNext ==
    ASSUME LoopTypeOK, OrderInv, PreExecute
    PROVE  /\ incoming_queue # <<>>
           /\ Head(Polled) = Head(incoming_queue)
           /\ incoming_queue' = Tail(incoming_queue)
           /\ command_queue' = <<>>
           /\ received = executed \o incoming_queue
           /\ Len(executed) < Len(received)
           /\ Head(Polled) = received[Len(executed) + 1]
<1>1. Polled = NextFrameCommand
  BY DEF OrderInv, CommandQueueDrained, Polled, NextFrameCommand, LoopTypeOK, QueuesTypeOK
<1>2. incoming_queue # <<>>
  BY <1>1 DEF PreExecute, NextFrameCommand
<1>3. Polled = <<Head(incoming_queue)>>
  BY <1>1, <1>2 DEF NextFrameCommand
<1>4. Head(Polled) = Head(incoming_queue) /\ Tail(Polled) = <<>>
  BY <1>3
<1>5. incoming_queue' = Tail(incoming_queue) /\ command_queue' = <<>>
  BY <1>2, <1>4 DEF PreExecute, ReceiveNextFrameCommand
<1>6. received = executed \o incoming_queue
  BY DEF OrderInv, FramesInReceiptOrder, CommandQueueDrained, LoopTypeOK, QueuesTypeOK
<1>7. /\ Len(executed) < Len(received)
      /\ Head(incoming_queue) = received[Len(executed) + 1]
  BY <1>2, <1>6 DEF LoopTypeOK, QueuesTypeOK
<1> QED
  BY <1>2, <1>4, <1>5, <1>6, <1>7

\* A frame delivered comes after all those executed and waiting.
LEMMA DeliveredLast ==
    ASSUME LoopTypeOK, NEW frame \in Frame
    PROVE  Append(executed \o incoming_queue, frame) =
             executed \o Append(incoming_queue, frame)
<1>1. /\ executed \in Seq(Frame) /\ incoming_queue \in Seq(Frame)
      /\ executed \o incoming_queue \in Seq(Frame) /\ <<frame>> \in Seq(Frame)
  BY DEF LoopTypeOK, QueuesTypeOK
<1>2. Append(executed \o incoming_queue, frame) =
        (executed \o incoming_queue) \o <<frame>>
  BY <1>1, AppendIsConcat
<1>3. Append(incoming_queue, frame) = incoming_queue \o <<frame>>
  BY <1>1, AppendIsConcat
<1> QED
  BY <1>1, <1>2, <1>3, ConcatAssociative

\* The order invariant is inductive: no step breaks it.
LEMMA OrderStep ==
    ASSUME LoopTypeOK, OrderInv, LoopChange
    PROVE  OrderInv'
<1> USE DEF OrderInv, FramesInReceiptOrder, CommandQueueDrained, LoopTypeOK, QueuesTypeOK
<1>1. CASE Moves
  <2>1. UNCHANGED <<incoming_queue, received, command_queue, executed>>
    BY <1>1, MovesFrame
  <2> QED
    BY <2>1
<1>2. CASE PreIdle
  <2>1. incoming_queue = <<>>
    BY <1>2 DEF PreIdle, Polled, NextFrameCommand
  <2> QED
    BY <1>2, <2>1 DEF PreIdle, ReceiveNextFrameCommand, netVars, frameVars
<1>3. CASE PreExecute
  <2>1. executed' = Append(executed, Head(incoming_queue)) /\ received' = received
    BY <1>3, ExecutesNext DEF PreExecute, netVars
  <2>2. /\ incoming_queue # <<>>
        /\ incoming_queue' = Tail(incoming_queue)
        /\ command_queue' = <<>>
        /\ received = executed \o incoming_queue
    BY <1>3, ExecutesNext
  <2>3. executed \o incoming_queue =
          Append(executed, Head(incoming_queue)) \o Tail(incoming_queue)
    <3>1. executed \in Seq(Frame) /\ incoming_queue \in Seq(Frame)
      OBVIOUS
    <3> HIDE DEF LoopTypeOK, QueuesTypeOK, OrderInv
    <3> QED
      BY <2>2, <3>1, HeadAcross, Zenon
  <2> QED
    BY <2>1, <2>2, <2>3
<1>4. ASSUME NEW drawn \in {"drawn", "skipped"}, TickPlays(drawn)
      PROVE  OrderInv'
  BY <1>4 DEF TickPlays, queueVars, frameVars
<1>5. CASE PostAnswer
  BY <1>5 DEF PostAnswer
<1>6. ASSUME NEW line \in Line, NetDeliver(line)
      PROVE  OrderInv'
  <2> DEFINE frame == command_frame_from_json(line)
  <2>1. /\ incoming_queue' = Append(incoming_queue, frame)
        /\ received' = Append(received, frame)
        /\ UNCHANGED <<executed, command_queue>>
    BY <1>6 DEF NetDeliver, PushIncoming, loopVars
  <2>2. frame \in Frame
    BY ParsedFrame
  <2>3. Append(executed \o incoming_queue, frame) =
          executed \o Append(incoming_queue, frame)
    BY <2>2, DeliveredLast
  <2>4. executed \o <<>> = executed
    BY ConcatEmptySeq
  <2> QED
    BY <2>1, <2>2, <2>3, <2>4
<1>7. CASE UNCHANGED vars
  BY <1>7 DEF vars, queueVars, loopVars
<1> QED
  BY <1>1, <1>2, <1>3, <1>4, <1>5, <1>6, <1>7 DEF LoopChange

\* Frames are executed in the order they were received, each exactly once and
\* none lost between the reader's queue and the scene.
THEOREM ReceiptOrder == LoopSpec => []FramesInReceiptOrder
<1>1. LoopInit => OrderInv
  BY DEF LoopInit, QueuesInit, OrderInv, FramesInReceiptOrder, CommandQueueDrained
<1>2. LoopTypeOK /\ OrderInv /\ [LoopNext]_vars => OrderInv'
  BY OrderStep, NextCases
<1>3. OrderInv => FramesInReceiptOrder
  BY DEF OrderInv
<1> QED
  BY <1>1, <1>2, <1>3, LoopTypeCorrect, PTL DEF LoopSpec

-----------------------------------------------------------------------------
(* The answers.                                                            *)

\* What one answer says of the frame it answers.
Answers(answer, frame) ==
    /\ NameOf(answer) = NameOf(frame)
    /\ answer.answered = frame.body.cmds \ {"debug_command"}

\* The post stage completes the answer of the frame in hand, the last executed.
LEMMA PostCompletes ==
    ASSUME LoopTypeOK, InHand, PostAnswer
    PROVE  \E answer \in Answer :
             /\ sent' = Append(sent, answer)
             /\ outgoing_queue' = Append(outgoing_queue, answer)
             /\ Answers(answer, LastExecuted)
             /\ answer.shot \in ScreenshotResults(LastExecuted)
<1>1. this_frame_command # <<>>
  BY DEF PostAnswer
<1>2. /\ this_frame_command[1] = LastExecuted
      /\ LastExecuted \in Frame
      /\ answer_set_pre[1] = PreAnswer(LastExecuted)
      /\ PreAnswer(LastExecuted) \in Answer
  BY <1>1, InHandType
<1>3. PICK result \in ScreenshotResults(LastExecuted) :
        LET answer == inject_remote_control_post(PreAnswer(LastExecuted),
                                                 LastExecuted, result)
        IN  /\ send_answer(answer)
            /\ sent' = Append(sent, answer)
  BY <1>2 DEF PostAnswer
<1> DEFINE final == inject_remote_control_post(PreAnswer(LastExecuted),
                                               LastExecuted, result)
<1>4. /\ final \in Answer
      /\ NameOf(final) = NameOf(LastExecuted)
      /\ final.answered = PreAnswer(LastExecuted).answered
                            \cup (LastExecuted.body.cmds \cap PostAnswered)
  BY <1>2, PostAnswerType
<1>5. final.answered = LastExecuted.body.cmds \ {"debug_command"}
  <2>1. LastExecuted.body.cmds \subseteq CommandType
    BY <1>2, FrameType
  <2>2. PreAnswer(LastExecuted).answered =
          LastExecuted.body.cmds \cap (PreAnswered \cup {"pass_ticks_after"})
    BY <1>2, PreAnswerType
  <2> QED
    BY <1>4, <2>1, <2>2, AllButDebug
<1>6. sent' = Append(sent, final) /\ outgoing_queue' = Append(outgoing_queue, final)
  BY <1>3 DEF send_answer
<1>7. final.shot = result
  BY DEF inject_remote_control_post
<1> HIDE DEF final
<1> QED
  BY <1>3, <1>4, <1>5, <1>6, <1>7 DEF Answers

\* The answer invariant is inductive: no step breaks it.
LEMMA AnswerStep ==
    ASSUME LoopTypeOK, InHand, OneAnswerPerFrame, LoopChange
    PROVE  OneAnswerPerFrame'
<1> USE DEF OneAnswerPerFrame, Owed
<1>1. CASE Moves
  <2>1. UNCHANGED <<this_frame_command, executed, sent>>
    BY <1>1, MovesFrame
  <2> QED
    BY <2>1
<1>2. CASE PreIdle
  BY <1>2 DEF PreIdle, frameVars
<1>3. CASE PreExecute
  <2>1. Head(Polled) \in Frame
    BY <1>3, PolledType DEF PreExecute
  <2>2. /\ executed' = Append(executed, Head(Polled))
        /\ this_frame_command' = <<Head(Polled)>>
        /\ sent' = sent
    BY <1>3 DEF PreExecute
  <2>3. this_frame_command = <<>>
    BY <1>3 DEF PreExecute, IterationStarts, InHand
  <2>4. Len(sent) = Len(executed)
    BY <2>3 DEF LoopTypeOK
  <2>5. Len(executed') = Len(executed) + 1
    BY <2>1, <2>2 DEF LoopTypeOK
  <2>6. \A i \in 1..Len(sent) : executed'[i] = executed[i]
    BY <2>1, <2>2, <2>4 DEF LoopTypeOK
  <2> QED
    BY <2>2, <2>4, <2>5, <2>6 DEF LoopTypeOK
<1>4. ASSUME NEW drawn \in {"drawn", "skipped"}, TickPlays(drawn)
      PROVE  OneAnswerPerFrame'
  BY <1>4 DEF TickPlays, frameVars
<1>5. CASE PostAnswer
  <2>1. PICK answer \in Answer :
          sent' = Append(sent, answer) /\ Answers(answer, LastExecuted)
    BY <1>5, PostCompletes
  <2>2. this_frame_command' = <<>> /\ executed' = executed
    BY <1>5 DEF PostAnswer
  <2>3. Len(this_frame_command) = 1
    BY <1>5 DEF PostAnswer, InHand
  <2>4. /\ Len(sent') = Len(sent) + 1
        /\ \A i \in 1..Len(sent) : sent'[i] = sent[i]
        /\ sent'[Len(sent) + 1] = answer
    BY <2>1 DEF LoopTypeOK
  <2>5. Len(sent) + 1 = Len(executed) /\ Len(sent) \in Nat
    BY <2>3 DEF LoopTypeOK
  <2>6. Len(sent') + Len(this_frame_command') = Len(executed')
    BY <2>2, <2>4, <2>5
  <2>7. ASSUME NEW i \in 1..Len(sent')
        PROVE  Answers(sent'[i], executed'[i])
    <3>1. CASE i \in 1..Len(sent)
      BY <2>2, <2>4, <3>1 DEF Answers
    <3>2. CASE i = Len(sent) + 1
      BY <2>1, <2>2, <2>4, <2>5, <3>2 DEF LastExecuted
    <3> QED
      BY <2>4, <2>5, <3>1, <3>2
  <2> QED
    BY <2>6, <2>7 DEF Answers
<1>6. ASSUME NEW line \in Line, NetDeliver(line)
      PROVE  OneAnswerPerFrame'
  BY <1>6 DEF NetDeliver, loopVars
<1>7. CASE UNCHANGED vars
  BY <1>7 DEF vars, loopVars
<1> QED
  BY <1>1, <1>2, <1>3, <1>4, <1>5, <1>6, <1>7 DEF LoopChange

\* Every executed frame is answered exactly once, in execution order, under its
\* own name and for all its commands but debug_command; at most the frame in
\* hand is still owed its answer.
THEOREM OneAnswer == LoopSpec => []OneAnswerPerFrame
<1>1. LoopInit => OneAnswerPerFrame
  BY DEF LoopInit, OneAnswerPerFrame, Owed
<1>2. LoopTypeOK /\ InHand /\ OneAnswerPerFrame /\ [LoopNext]_vars => OneAnswerPerFrame'
  BY AnswerStep, NextCases
<1> QED
  BY <1>1, <1>2, LoopTypeCorrect, PTL DEF LoopSpec

-----------------------------------------------------------------------------
(* The loop implements FrameService.                                       *)

ServiceUp == pc \notin {"unwind", "join", "done"}

\* The frame is only in hand, and owed its answer, while the service is up; the
\* thread leaves the loop from its head, where nothing is owed.
LEMMA StepRefines ==
    ASSUME LoopTypeOK, InHand, OrderInv, OneAnswerPerFrame, LoopChange
    PROVE  [Service!ServiceNext]_(Service!serviceVars)
<1> USE DEF Service!ServiceNext, Service!serviceVars
<1>1. CASE Moves
  <2>1. UNCHANGED <<received, executed, sent>>
    BY <1>1, MovesFrame
  <2>2. CASE ServiceUp' = ServiceUp
    BY <2>1, <2>2 DEF ServiceUp
  <2>3. CASE ServiceUp' # ServiceUp
    <3>1. LeaveLoop
      <4>1. ~(EnterLoop \/ PreLocal \/ PrePassFrame \/ PostNoCommand)
        BY <2>3 DEF ServiceUp, EnterLoop, PreLocal, PrePassFrame, IterationStarts,
                    PostNoCommand
      <4>2. ~(TickWindowClosed \/ TickInvalidView \/ TickPaused \/ TickShutsDown)
        BY <2>3 DEF ServiceUp, TickWindowClosed, TickInvalidView, TickPaused,
                    TickShutsDown, AfterTick
      <4>3. ~(RequestNetStop \/ Finish \/ signal_terminate \/ NetTake \/ NetExit)
        BY <2>3 DEF ServiceUp, RequestNetStop, Finish, signal_terminate, NetTake,
                    NetExit, loopVars
      <4> QED
        BY <1>1, <4>1, <4>2, <4>3 DEF Moves
    <3>2. ServiceUp /\ ~ServiceUp'
      BY <3>1 DEF ServiceUp, LeaveLoop
    <3>3. this_frame_command = <<>>
      BY <3>1 DEF InHand, LeaveLoop
    <3>4. Len(sent) = Len(executed)
      BY <3>3 DEF OneAnswerPerFrame, Owed, LoopTypeOK
    <3>5. Service!Stop
      BY <2>1, <3>2, <3>4 DEF Service!Stop, ServiceUp
    <3> QED
      BY <3>5
  <2> QED
    BY <2>2, <2>3
<1>2. CASE PreIdle
  BY <1>2 DEF PreIdle, IterationStarts, netVars, frameVars
<1>3. CASE PreExecute
  <2>1. /\ Len(executed) < Len(received)
        /\ executed' = Append(executed, received[Len(executed) + 1])
        /\ UNCHANGED <<received, sent>>
    BY <1>3, ExecutesNext DEF PreExecute, netVars
  <2>2. this_frame_command = <<>>
    BY <1>3 DEF PreExecute, IterationStarts, InHand
  <2>3. Len(sent) = Len(executed)
    BY <2>2 DEF OneAnswerPerFrame, Owed, LoopTypeOK
  <2>4. ServiceUp /\ ServiceUp'
    BY <1>3 DEF PreExecute, IterationStarts, ServiceUp
  <2>5. Service!Execute
    BY <2>1, <2>3, <2>4 DEF Service!Execute, ServiceUp
  <2> QED
    BY <2>5
<1>4. ASSUME NEW drawn \in {"drawn", "skipped"}, TickPlays(drawn)
      PROVE  UNCHANGED Service!serviceVars
  BY <1>4 DEF TickPlays, AfterTick, queueVars, frameVars
<1>5. CASE PostAnswer
  <2>1. PICK answer \in Answer : sent' = Append(sent, answer)
    BY <1>5, PostCompletes
  <2>2. Len(sent') = Len(sent) + 1
    BY <2>1 DEF LoopTypeOK
  <2>3. Len(this_frame_command) = 1
    BY <1>5 DEF PostAnswer, InHand
  <2>4. Len(sent) < Len(executed)
    BY <2>3 DEF OneAnswerPerFrame, Owed, LoopTypeOK
  <2>5. /\ UNCHANGED <<received, executed>>
        /\ ServiceUp /\ ServiceUp'
    BY <1>5 DEF PostAnswer, ServiceUp
  <2>6. Service!Reply
    BY <2>2, <2>4, <2>5 DEF Service!Reply, ServiceUp
  <2> QED
    BY <2>6
<1>6. ASSUME NEW line \in Line, NetDeliver(line)
      PROVE  Service!ServiceNext
  <2>1. command_frame_from_json(line) \in Frame
    BY ParsedFrame
  <2>2. Service!Accept(command_frame_from_json(line))
    BY <1>6 DEF NetDeliver, PushIncoming, Service!Accept, loopVars
  <2> QED
    BY <2>1, <2>2
<1>7. CASE UNCHANGED vars
  BY <1>7 DEF vars, queueVars, loopVars
<1> QED
  BY <1>1, <1>2, <1>3, <1>4, <1>5, <1>6, <1>7 DEF LoopChange

\* The thread with its queues, iterations, ticks and screenshots implements the
\* service that executes command sets one by one and answers each before the
\* next, and that never stops with an answer outstanding.
THEOREM LoopImplementsService == LoopSpec => FrameServiceSpec
<1>1. LoopInit => Service!ServiceInit
  BY DEF LoopInit, QueuesInit, Service!ServiceInit
<1>2. LoopTypeOK /\ InHand /\ OrderInv /\ OneAnswerPerFrame /\ [LoopNext]_vars
        => [Service!ServiceNext]_(Service!serviceVars)
  BY StepRefines, NextCases
<1>3. LoopInit => OrderInv
  BY DEF LoopInit, QueuesInit, OrderInv, FramesInReceiptOrder, CommandQueueDrained
<1>4. LoopTypeOK /\ OrderInv /\ [LoopNext]_vars => OrderInv'
  BY OrderStep, NextCases
<1> QED
  BY <1>1, <1>2, <1>3, <1>4, LoopTypeCorrect, OneAnswer, PTL
     DEF LoopSpec, FrameServiceSpec, Service!ServiceSpec

-----------------------------------------------------------------------------
(* Screenshots.                                                            *)

\* While a frame with a screenshot command is in hand, an image in the staging
\* buffer is of that frame: the request forgot any image captured before.
ShotInv ==
    this_frame_command # <<>> /\ "screenshot" \in LastExecuted.body.cmds /\ shot.ready
        => shot.of = Len(executed)

\* The screenshot invariant is inductive: no step breaks it.
LEMMA ShotStep ==
    ASSUME LoopTypeOK, InHand, ShotInv, LoopChange
    PROVE  /\ ShotInv'
           /\ (sent' # sent /\ sent'[Len(sent')].shot = "saved")
                 => shot.of = Len(executed)
<1> DEFINE Fresh == (sent' # sent /\ sent'[Len(sent')].shot = "saved")
                      => shot.of = Len(executed)
<1>1. CASE Moves
  <2>1. UNCHANGED <<this_frame_command, executed, shot, sent>>
    BY <1>1, MovesFrame
  <2> QED
    BY <2>1 DEF ShotInv, LastExecuted
<1>2. CASE PreIdle
  BY <1>2 DEF PreIdle, sceneVars, frameVars, ShotInv, LastExecuted
<1>3. CASE PreExecute
  <2>1. Head(Polled) \in Frame
    BY <1>3, PolledType DEF PreExecute
  <2>2. executed' = Append(executed, Head(Polled)) /\ sent' = sent
    BY <1>3 DEF PreExecute
  <2>3. executed'[Len(executed')] = Head(Polled)
    BY <2>1, <2>2 DEF LoopTypeOK
  <2>4. "screenshot" \in Head(Polled).body.cmds => shot'.ready = FALSE
    BY <1>3 DEF PreExecute, InjectPreEffects, request_screenshot
  <2> QED
    BY <2>2, <2>3, <2>4 DEF ShotInv, LastExecuted
<1>4. ASSUME NEW drawn \in {"drawn", "skipped"}, TickPlays(drawn)
      PROVE  ShotInv' /\ Fresh
  <2>1. UNCHANGED <<this_frame_command, executed, sent>>
    BY <1>4 DEF TickPlays, frameVars
  <2>2. \/ shot' = shot
        \/ \E allocated \in BOOLEAN : shot' = Captures(allocated)
    BY <1>4 DEF TickPlays
  <2>3. shot' = shot \/ (this_frame_command # <<>> => shot'.of = Len(executed))
    BY <2>2 DEF Captures
  <2> QED
    BY <2>1, <2>3 DEF ShotInv, LastExecuted
<1>5. CASE PostAnswer
  <2>1. this_frame_command # <<>> /\ this_frame_command' = <<>>
    BY <1>5 DEF PostAnswer
  <2>2. /\ this_frame_command[1] = LastExecuted
        /\ LastExecuted \in Frame
        /\ answer_set_pre[1] \in Answer
    BY <2>1, InHandType
  <2>3. PICK result \in ScreenshotResults(LastExecuted) :
          sent' = Append(sent, inject_remote_control_post(answer_set_pre[1],
                                                          LastExecuted, result))
    BY <1>5, <2>2 DEF PostAnswer
  <2>4. sent'[Len(sent')].shot = result
    BY <2>2, <2>3, PostAnswerType DEF LoopTypeOK
  <2>5. result = "saved" => "screenshot" \in LastExecuted.body.cmds /\ shot.ready
    BY <2>3 DEF ScreenshotResults
  <2> QED
    BY <2>1, <2>4, <2>5 DEF ShotInv
<1>6. ASSUME NEW line \in Line, NetDeliver(line)
      PROVE  ShotInv' /\ Fresh
  BY <1>6 DEF NetDeliver, loopVars, ShotInv, LastExecuted
<1>7. CASE UNCHANGED vars
  BY <1>7 DEF vars, loopVars, ShotInv, LastExecuted
<1> QED
  BY <1>1, <1>2, <1>3, <1>4, <1>5, <1>6, <1>7 DEF LoopChange

\* A screenshot answered as saved shows the frame its command was executed in,
\* never an image left over from an earlier request.
THEOREM ScreenshotFresh == LoopSpec => ScreenshotIsOfItsFrame
<1>1. LoopInit => ShotInv
  BY DEF LoopInit, ShotInv
<1>2. LoopTypeOK /\ InHand /\ ShotInv /\ [LoopNext]_vars
        => /\ ShotInv'
           /\ [(sent' # sent /\ sent'[Len(sent')].shot = "saved")
                 => shot.of = Len(executed)]_vars
  BY ShotStep, NextCases
<1> QED
  BY <1>1, <1>2, LoopTypeCorrect, PTL DEF LoopSpec, ScreenshotIsOfItsFrame

-----------------------------------------------------------------------------
(* Pass ticks.                                                             *)

\* The logic ticks the frames executed so far have bought and not yet played:
\* the tick of this iteration, and those pass_control_frames counts.
Due == (IF pc = "tick" /\ ~pause_mode THEN 1 ELSE 0)
         + (IF pass_control_frames > 0 THEN pass_control_frames ELSE 0)

Bought == IF executed = <<>> THEN 0 ELSE TicksBought(LastExecuted)

\* A tickless scene plays no more than was bought ...
TicklessInv == cfg.tickless => played + Due <= Bought

\* ... and a headless one that goes on no less.
PlaysInv == ~cfg.window /\ tick_running => played + Due >= Bought \/ played >= PlayedCap

\* A frame buys a natural number of ticks, at least its own.
LEMMA BoughtType ==
    ASSUME LoopTypeOK
    PROVE  Bought \in Nat /\ Due \in Nat
<1>1. ASSUME executed # <<>>
      PROVE  TicksBought(LastExecuted) \in Nat
  <2>1. LastExecuted \in Frame
    BY <1>1 DEF LoopTypeOK, LastExecuted
  <2>2. LastExecuted.body.pass \in Int
    BY <2>1, FrameType
  <2> QED
    BY <2>2 DEF TicksBought
<1>2. Due \in Nat
  BY DEF LoopTypeOK, Due
<1> QED
  BY <1>1, <1>2 DEF Bought

\* No frame buys more ticks than the history counter can count.
LEMMA BoughtWithinCap ==
    ASSUME LoopTypeOK
    PROVE  Bought <= PlayedCap
<1>1. ASSUME NEW frame \in Frame
      PROVE  TicksBought(frame) <= PlayedCap
  <2>1. CASE frame = EmptyFrame
    <3>1. TicksBought(frame) = 1
      BY <2>1 DEF TicksBought, EmptyFrame
    <3> QED
      BY <3>1, PlayedCapAssumption, BoundsAssumption
  <2>2. CASE frame \in CommittedFrame
    <3>1. frame.body \in FrameBodies
      BY <2>2 DEF CommittedFrame
    <3>2. frame.body.pass + 2 <= PlayedCap /\ frame.body.pass \in Int
      BY <3>1, PlayedCapAssumption, FrameType
    <3> QED
      BY <3>2, PlayedCapAssumption, BoundsAssumption DEF TicksBought
  <2> QED
    BY <2>1, <2>2 DEF Frame
<1>2. executed # <<>> => LastExecuted \in Frame
  BY DEF LoopTypeOK, LastExecuted
<1> QED
  BY <1>1, <1>2, PlayedCapAssumption, BoundsAssumption DEF Bought

\* The two pass invariants are inductive: no step breaks them.
LEMMA PlayStep ==
    ASSUME LoopTypeOK, TicklessInv, PlaysInv, LoopChange
    PROVE  /\ TicklessInv'
           /\ PlaysInv'
           /\ executed' # executed /\ executed # <<>> /\ ~cfg.window
                => played >= TicksBought(LastExecuted)
<1> DEFINE Respected == executed' # executed /\ executed # <<>> /\ ~cfg.window
                          => played >= TicksBought(LastExecuted)
<1> USE BoughtType
<1> cfg.tickless \in BOOLEAN /\ played \in Nat /\ pass_control_frames \in Int
  BY DEF LoopTypeOK
<1>1. CASE Moves
  <2>1. UNCHANGED <<executed, played, cfg>>
    BY <1>1, MovesFrame
  <2>2. Bought' = Bought /\ Respected
    BY <2>1 DEF Bought, LastExecuted
  <2>3. CASE EnterLoop \/ PostNoCommand \/ LeaveLoop \/ RequestNetStop
             \/ Finish \/ signal_terminate \/ NetTake \/ NetExit
    <3>1. Due' = Due /\ tick_running' = tick_running
      BY <2>3 DEF EnterLoop, PostNoCommand, LeaveLoop, RequestNetStop,
                  Finish, signal_terminate, NetTake, NetExit, loopVars, Due
    <3> QED
      BY <2>1, <2>2, <3>1 DEF TicklessInv, PlaysInv
  <2>4. CASE PreLocal
    <3>1. /\ pc = "head" /\ pc' = "tick" /\ pause_mode' = cfg.tickless
          /\ UNCHANGED <<pass_control_frames, tick_running>>
      BY <2>4 DEF PreLocal, IterationStarts
    <3>2. Due' >= Due /\ (cfg.tickless => Due' = Due)
      BY <3>1 DEF Due
    <3>3. Due' \in Nat
      BY <3>1 DEF Due
    <3> QED
      BY <2>1, <2>2, <3>1, <3>2, <3>3 DEF TicklessInv, PlaysInv
  <2>5. CASE PrePassFrame
    <3>1. /\ pc = "head" /\ pc' = "tick" /\ pause_mode' = FALSE
          /\ pass_control_frames > 0 /\ pass_control_frames' = pass_control_frames - 1
          /\ UNCHANGED tick_running
      BY <2>5 DEF PrePassFrame, IterationStarts
    <3>2. Due' = Due
      BY <3>1 DEF Due
    <3> QED
      BY <2>1, <2>2, <3>1, <3>2 DEF TicklessInv, PlaysInv
  <2>6. CASE TickWindowClosed \/ TickInvalidView \/ TickPaused \/ TickShutsDown
    <3>1. /\ pc = "tick" /\ pc' # "tick"
          /\ UNCHANGED <<pause_mode, pass_control_frames>>
          /\ cfg.window \/ pause_mode \/ ~tick_running'
          /\ tick_running' => tick_running
      BY <2>6 DEF TickWindowClosed, TickInvalidView, TickPaused, TickShutsDown, AfterTick
    <3>2. Due' <= Due /\ (pause_mode => Due' = Due) /\ Due' \in Nat
      BY <3>1 DEF Due
    <3> QED
      BY <2>1, <2>2, <3>1, <3>2 DEF TicklessInv, PlaysInv
  <2> QED
    BY <1>1, <2>3, <2>4, <2>5, <2>6 DEF Moves
<1>2. CASE PreIdle
  <2>1. /\ pc = "head" /\ pc' = "tick" /\ pause_mode' = cfg.tickless
        /\ UNCHANGED <<executed, played, cfg, pass_control_frames, tick_running>>
    BY <1>2 DEF PreIdle, IterationStarts, frameVars
  <2>2. Bought' = Bought /\ Respected
    BY <2>1 DEF Bought, LastExecuted
  <2>3. Due' >= Due /\ (cfg.tickless => Due' = Due) /\ Due' \in Nat
    BY <2>1 DEF Due
  <2> QED
    BY <2>1, <2>2, <2>3 DEF TicklessInv, PlaysInv
<1>3. CASE PreExecute
  <2> DEFINE frame == Head(Polled)
  <2>1. /\ pc = "head" /\ pc' = "tick" /\ pause_mode' = FALSE /\ tick_running
        /\ pass_control_frames <= 0 /\ pass_control_frames' = PassAfter(frame)
        /\ played' = 0 /\ executed' = Append(executed, frame)
        /\ UNCHANGED <<cfg, tick_running>>
    BY <1>3 DEF PreExecute, IterationStarts
  <2>2. frame \in Frame /\ frame.body.pass \in Int
    BY <1>3, PolledType, FrameType DEF PreExecute
  <2>3. executed' # <<>> /\ executed'[Len(executed')] = frame
    <3>1. executed \in Seq(Frame)
      BY DEF LoopTypeOK
    <3> HIDE DEF frame
    <3>2. Append(executed, frame) # <<>>
      BY <2>2, <3>1
    <3>3. Append(executed, frame)[Len(Append(executed, frame))] = frame
      BY <2>2, <3>1
    <3> QED
      BY <2>1, <3>2, <3>3
  <2>4. Bought' = TicksBought(frame)
    BY <2>3 DEF Bought, LastExecuted
  <2>5. Due' = TicksBought(frame) /\ TicksBought(frame) \in Nat
    BY <2>1, <2>2 DEF Due, PassAfter, TicksBought
  <2>6. Respected
    <3>1. Due = 0
      BY <2>1 DEF Due
    <3>2. ~cfg.window => played >= Bought
      BY <2>1, <3>1, BoughtWithinCap, BoundsAssumption DEF PlaysInv
    <3> QED
      BY <3>2 DEF Bought
  <2> QED
    BY <2>1, <2>4, <2>5, <2>6 DEF TicklessInv, PlaysInv
<1>4. ASSUME NEW drawn \in {"drawn", "skipped"}, TickPlays(drawn)
      PROVE  TicklessInv' /\ PlaysInv' /\ Respected
  <2>1. /\ pc = "tick" /\ pc' # "tick" /\ ~pause_mode
        /\ played' = IF played < PlayedCap THEN played + 1 ELSE played
        /\ UNCHANGED <<executed, cfg, pause_mode, pass_control_frames>>
        /\ tick_running' => tick_running
    BY <1>4 DEF TickPlays, AfterTick, frameVars
  <2>2. Bought' = Bought /\ Respected
    BY <2>1 DEF Bought, LastExecuted
  <2>3. Due = Due' + 1 /\ Due' \in Nat
    BY <2>1 DEF Due
  <2> QED
    BY <2>1, <2>2, <2>3, BoundsAssumption DEF TicklessInv, PlaysInv
<1>5. CASE PostAnswer
  <2>1. /\ pc = "post" /\ pc' = "head"
        /\ UNCHANGED <<executed, played, cfg, pass_control_frames, tick_running>>
    BY <1>5 DEF PostAnswer
  <2>2. Bought' = Bought /\ Due' = Due /\ Respected
    BY <2>1 DEF Bought, LastExecuted, Due
  <2> QED
    BY <2>1, <2>2 DEF TicklessInv, PlaysInv
<1>6. ASSUME NEW line \in Line, NetDeliver(line)
      PROVE  TicklessInv' /\ PlaysInv' /\ Respected
  <2>1. UNCHANGED loopVars
    BY <1>6 DEF NetDeliver
  <2> QED
    BY <2>1 DEF loopVars, TicklessInv, PlaysInv, Bought, LastExecuted, Due
<1>7. CASE UNCHANGED vars
  BY <1>7 DEF vars, loopVars, TicklessInv, PlaysInv, Bought, LastExecuted, Due
<1> QED
  BY <1>1, <1>2, <1>3, <1>4, <1>5, <1>6, <1>7 DEF LoopChange

LEMMA PlaysInvariant ==
    LoopSpec =>
      /\ [](LoopTypeOK /\ TicklessInv /\ PlaysInv)
      /\ [][(executed' # executed /\ executed # <<>> /\ ~cfg.window)
              => played >= TicksBought(LastExecuted)]_vars
<1>1. LoopInit => TicklessInv /\ PlaysInv
  BY DEF LoopInit, TicklessInv, PlaysInv, Due, Bought
<1>2. LoopTypeOK /\ TicklessInv /\ PlaysInv /\ [LoopNext]_vars
        => /\ TicklessInv' /\ PlaysInv'
           /\ [(executed' # executed /\ executed # <<>> /\ ~cfg.window)
                 => played >= TicksBought(LastExecuted)]_vars
  BY PlayStep, NextCases
<1> QED
  BY <1>1, <1>2, LoopTypeCorrect, PTL DEF LoopSpec

\* Without a window, no frame is executed before the ticks that the previous
\* one bought have all been played.
THEOREM PassTicks == LoopSpec => PassTicksRespected
  BY PlaysInvariant, PTL DEF PassTicksRespected

\* A tickless scene never plays a tick that no remote command bought.
THEOREM TicklessWaits == LoopSpec => []TicklessAdvancesByCommand
<1>1. LoopTypeOK /\ TicklessInv => TicklessAdvancesByCommand
  BY BoughtType DEF LoopTypeOK, TicklessInv, TicklessAdvancesByCommand, Bought
<1> QED
  BY <1>1, PlaysInvariant, PTL

-----------------------------------------------------------------------------
(* Progress, as far as it is a matter of safety.                           *)

\* A frame was received that is not executed yet, and the loop runs.
Waiting ==
    /\ cfg.remote
    /\ Len(executed) < Len(received)
    /\ pc \in {"start", "head", "tick", "post"}

TicksLeft == IF pass_control_frames > 0 THEN pass_control_frames ELSE 0

\* The steps the loop still takes until it executes the next frame.
StepsToNext ==
    3 * TicksLeft
      + CASE pc = "start" -> 2
          [] pc = "head" -> 1
          [] pc = "tick" -> IF pause_mode THEN 2 ELSE 3
          [] pc = "post" -> 2
          [] OTHER -> 0

\* With a frame waiting every step of the loop executes it, ends the loop, or comes
\* nearer to it, and nobody else delays it; it is never further away than three
\* steps for each tick that the frame before it bought.
FramesAreNotHeldUp ==
    /\ [](Waiting =>
            StepsToNext <= 3 * (IF executed = <<>> THEN 1 ELSE TicksBought(LastExecuted)))
    /\ [][Waiting =>
            /\ LoopStep => \/ executed' = Append(executed, received[Len(executed) + 1])
                           \/ pc' = "unwind"
                           \/ StepsToNext' < StepsToNext
            /\ ~LoopStep => StepsToNext' = StepsToNext /\ executed' = executed]_vars

\* No more ticks are left than the last frame bought beyond its own.
LeftInv == TicksLeft + 1 <= IF executed = <<>> THEN 1 ELSE TicksBought(LastExecuted)

LEMMA LeftType == LoopTypeOK => TicksLeft \in Nat
  BY DEF LoopTypeOK, TicksLeft

\* What a frame waiting means for receive_next_frame_command.
LEMMA WaitingIsPolled ==
    ASSUME LoopTypeOK, OrderInv, Len(executed) < Len(received)
    PROVE  Polled # <<>>
<1>1. /\ executed \in Seq(Frame) /\ incoming_queue \in Seq(Frame)
      /\ command_queue = <<>>
  BY DEF LoopTypeOK, QueuesTypeOK, OrderInv, CommandQueueDrained
<1>2. received = (executed \o <<>>) \o incoming_queue
  BY <1>1 DEF OrderInv, FramesInReceiptOrder
<1>3. executed \o <<>> = executed
  BY <1>1, ConcatEmptySeq
<1>4. incoming_queue # <<>>
  <2> SUFFICES ASSUME incoming_queue = <<>>
               PROVE  FALSE
    OBVIOUS
  <2>1. received = executed
    BY <1>2, <1>3
  <2>2. Len(executed) \in Nat
    BY <1>1
  <2> QED
    BY <2>1, <2>2
<1>5. NextFrameCommand = <<Head(incoming_queue)>>
  BY <1>4 DEF NextFrameCommand
<1>6. <<>> \o <<Head(incoming_queue)>> # <<>>
  OBVIOUS
<1> QED
  BY <1>1, <1>5, <1>6 DEF Polled

\* What one frame buys is at least its own tick.
LEMMA LeftStep ==
    ASSUME LoopTypeOK, OrderInv, LeftInv, LoopChange
    PROVE  LeftInv'
<1>1. CASE PreExecute
  <2> DEFINE frame == Head(Polled)
  <2>1. frame \in Frame /\ frame.body.pass \in Int
    BY <1>1, PolledType, FrameType DEF PreExecute
  <2>2. /\ pass_control_frames <= 0 /\ pass_control_frames \in Int
        /\ pass_control_frames' = PassAfter(frame)
        /\ executed' = Append(executed, frame)
    BY <1>1 DEF PreExecute, LoopTypeOK
  <2>3. executed \in Seq(Frame)
    BY DEF LoopTypeOK
  <2> HIDE DEF frame
  <2>4. Append(executed, frame) # <<>>
    BY <2>1, <2>3
  <2>5. Append(executed, frame)[Len(Append(executed, frame))] = frame
    BY <2>1, <2>3
  <2>6. executed' # <<>> /\ LastExecuted' = frame
    BY <2>2, <2>4, <2>5 DEF LastExecuted
  <2>7. TicksLeft' + 1 <= TicksBought(frame)
    BY <2>1, <2>2 DEF TicksLeft, PassAfter, TicksBought
  <2> QED
    BY <2>6, <2>7 DEF LeftInv
<1>2. CASE ~PreExecute
  <2>1. executed' = executed
    BY <1>2, MovesFrame
       DEF LoopChange, PreIdle, TickPlays, PostAnswer, NetDeliver, frameVars, loopVars, vars
  <2>2. /\ pass_control_frames' \in Int
        /\ pass_control_frames' # pass_control_frames
             => pass_control_frames > 0 /\ pass_control_frames' = pass_control_frames - 1
    <3> USE DEF LoopTypeOK, vars, loopVars
    <3>1. CASE Moves
      BY <3>1 DEF Moves, EnterLoop, PreLocal, PrePassFrame, TickWindowClosed, TickInvalidView,
                  TickPaused, TickShutsDown, PostNoCommand, LeaveLoop, RequestNetStop, Finish,
                  signal_terminate, NetTake, NetExit
    <3>2. CASE PreIdle \/ PostAnswer \/ UNCHANGED vars
      BY <3>2 DEF PreIdle, PostAnswer
    <3>3. ASSUME NEW drawn \in {"drawn", "skipped"}, TickPlays(drawn)
          PROVE  pass_control_frames' = pass_control_frames
      BY <3>3 DEF TickPlays
    <3>4. ASSUME NEW line \in Line, NetDeliver(line)
          PROVE  pass_control_frames' = pass_control_frames
      BY <3>4 DEF NetDeliver
    <3> QED
      BY <1>2, <3>1, <3>2, <3>3, <3>4 DEF LoopChange
  <2>3. TicksLeft' \in Nat /\ TicksLeft' <= TicksLeft
    BY <2>2 DEF TicksLeft, LoopTypeOK
  <2>4. (executed # <<>> => TicksBought(LastExecuted) \in Nat) /\ TicksLeft \in Nat
    <3>1. executed # <<>> => LastExecuted \in Frame
      BY DEF LoopTypeOK, LastExecuted
    <3>2. executed # <<>> => LastExecuted.body.pass \in Int
      BY <3>1, FrameType
    <3> QED
      BY <3>2, LeftType DEF TicksBought
  <2> QED
    BY <2>1, <2>3, <2>4 DEF LeftInv, LastExecuted
<1> QED
  BY <1>1, <1>2

\* Each step of the loop comes nearer to the next frame.
LEMMA NextComesNearer ==
    ASSUME LoopTypeOK, OrderInv, Waiting, LoopStep
    PROVE  \/ executed' = Append(executed, received[Len(executed) + 1])
           \/ pc' = "unwind"
           \/ StepsToNext' < StepsToNext
<1> USE DEF Waiting
<1>0. pass_control_frames \in Int /\ TicksLeft \in Nat
  BY LeftType DEF LoopTypeOK
<1>1. CASE PreExecute
  BY <1>1, ExecutesNext DEF PreExecute
<1>2. CASE PreIdle
  BY <1>2, WaitingIsPolled DEF PreIdle
<1>3. CASE LeaveLoop \/ RequestNetStop \/ Finish
  BY <1>3 DEF LeaveLoop, RequestNetStop, Finish
<1>4. CASE PrePassFrame
  <2>1. /\ pc = "head" /\ pc' = "tick" /\ pause_mode' = FALSE
        /\ pass_control_frames > 0 /\ pass_control_frames' = pass_control_frames - 1
    BY <1>4 DEF PrePassFrame, IterationStarts
  <2>2. TicksLeft' = TicksLeft - 1
    BY <1>0, <2>1 DEF TicksLeft
  <2> QED
    BY <1>0, <2>1, <2>2 DEF StepsToNext
<1>5. CASE EnterLoop \/ PostNoCommand \/ PostAnswer
  <2>1. pc \in {"start", "post"} /\ pc' = "head" /\ UNCHANGED pass_control_frames
    BY <1>5 DEF EnterLoop, PostNoCommand, PostAnswer
  <2>2. TicksLeft' = TicksLeft
    BY <2>1 DEF TicksLeft
  <2> QED
    BY <1>0, <2>1, <2>2 DEF StepsToNext
<1>6. CASE TickWindowClosed \/ TickInvalidView \/ TickPaused \/ TickShutsDown
           \/ \E drawn \in {"drawn", "skipped"} : TickPlays(drawn)
  <2>1. /\ pc = "tick" /\ pc' = IF pause_mode THEN "head" ELSE "post"
        /\ UNCHANGED pass_control_frames
    BY <1>6 DEF TickWindowClosed, TickInvalidView, TickPaused, TickShutsDown, TickPlays, AfterTick
  <2>2. TicksLeft' = TicksLeft
    BY <2>1 DEF TicksLeft
  <2> QED
    BY <1>0, <2>1, <2>2 DEF StepsToNext
<1>7. CASE PreLocal
  BY <1>7 DEF PreLocal
<1> QED
  BY <1>1, <1>2, <1>3, <1>4, <1>5, <1>6, <1>7 DEF LoopStep, LoopLocalStep

\* The network thread and the owner of the loop do not put it off.
LEMMA NobodyPutsOff ==
    ASSUME [LoopNext]_vars, ~LoopStep
    PROVE  StepsToNext' = StepsToNext /\ executed' = executed
<1>1. UNCHANGED <<pc, pause_mode, pass_control_frames, executed>>
  BY DEF LoopNext, LoopTerminated, signal_terminate, NetDeliver, NetTake, NetExit, vars,
         loopVars, frameVars
<1> QED
  BY <1>1 DEF StepsToNext, TicksLeft

\* On a server that is not stopped, no frame waits longer than for the ticks of the
\* one before it: no state of the loop, of the window or of the network thread holds
\* it up, and none of the frames is passed over.
THEOREM NextFrameIsNear == LoopSpec => FramesAreNotHeldUp
<1>1. LoopInit => OrderInv /\ LeftInv
  BY DEF LoopInit, QueuesInit, OrderInv, FramesInReceiptOrder, CommandQueueDrained,
         LeftInv, TicksLeft
<1>2. LoopTypeOK /\ OrderInv /\ LeftInv /\ [LoopNext]_vars => OrderInv' /\ LeftInv'
  BY OrderStep, LeftStep, NextCases
<1>3. LoopTypeOK /\ LeftInv =>
        (Waiting =>
           StepsToNext <= 3 * (IF executed = <<>> THEN 1 ELSE TicksBought(LastExecuted)))
  <2> SUFFICES ASSUME LoopTypeOK, LeftInv, Waiting
               PROVE  StepsToNext
                        <= 3 * (IF executed = <<>> THEN 1 ELSE TicksBought(LastExecuted))
    OBVIOUS
  <2> DEFINE bought == IF executed = <<>> THEN 1 ELSE TicksBought(LastExecuted)
  <2>1. TicksLeft \in Nat /\ TicksLeft + 1 <= bought
    BY LeftType DEF LeftInv
  <2>2. bought \in Int
    <3>1. executed # <<>> => LastExecuted \in Frame
      BY DEF LoopTypeOK, LastExecuted
    <3>2. executed # <<>> => LastExecuted.body.pass \in Int
      BY <3>1, FrameType
    <3> QED
      BY <3>2 DEF TicksBought
  <2>3. StepsToNext <= 3 * TicksLeft + 3
    BY <2>1 DEF StepsToNext, Waiting
  <2>4. StepsToNext \in Int
    BY <2>1 DEF StepsToNext
  <2> HIDE DEF bought
  <2>5. StepsToNext <= 3 * bought
    BY <2>1, <2>2, <2>3, <2>4
  <2> QED
    BY <2>5 DEF bought
<1>4. LoopTypeOK /\ OrderInv /\ [LoopNext]_vars
        => [Waiting =>
              /\ LoopStep => \/ executed' = Append(executed, received[Len(executed) + 1])
                             \/ pc' = "unwind"
                             \/ StepsToNext' < StepsToNext
              /\ ~LoopStep => StepsToNext' = StepsToNext /\ executed' = executed]_vars
  BY NextComesNearer, NobodyPutsOff
<1> QED
  BY <1>1, <1>2, <1>3, <1>4, LoopTypeCorrect, PTL DEF LoopSpec, FramesAreNotHeldUp
=============================================================================
