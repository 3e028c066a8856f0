--------------------------- MODULE ControlQueues ---------------------------
(***************************************************************************)
(* What the logical thread and the network thread of the renderer share:   *)
(* the two mutex-protected queues of remote_control_client and the stop    *)
(* token of its jthread.  Every operation is one critical section.         *)
(***************************************************************************)
EXTENDS ControlFrames

VARIABLES
    incoming_queue,   \* frames read off the socket, not yet received
    outgoing_queue,   \* answers sent by the loop, not yet taken by the writer
    net_stop,         \* net_thread's stop token
    net_exited,       \* network_loop has returned
    received          \* history: every frame pushed to incoming_queue, in order

queueVars == <<incoming_queue, outgoing_queue, net_stop, net_exited, received>>

QueuesTypeOK ==
    /\ incoming_queue \in Seq(Frame)
    /\ outgoing_queue \in Seq(Answer)
    /\ net_stop \in BOOLEAN
    /\ net_exited \in BOOLEAN
    /\ received \in Seq(Frame)

QueuesInit ==
    /\ incoming_queue = <<>>
    /\ outgoing_queue = <<>>
    /\ net_stop = FALSE
    /\ net_exited = FALSE
    /\ received = <<>>

\* A line the reader got: parsed and pushed under incoming_mtx.
PushIncoming(line) ==
    LET frame == command_frame_from_json(line)
    IN  /\ incoming_queue' = Append(incoming_queue, frame)
        /\ received' = Append(received, frame)

\* Mutant: the newest frame instead of the oldest.
NextFrameCommand_back ==
    IF incoming_queue = <<>> THEN <<>> ELSE <<incoming_queue[Len(incoming_queue)]>>

\* receive_next_frame_command's result: nothing, or the front.
NextFrameCommand ==
    IF incoming_queue = <<>> THEN <<>> ELSE <<Head(incoming_queue)>>

\* ... and its effect.
ReceiveNextFrameCommand ==
    incoming_queue' = IF incoming_queue = <<>> THEN <<>> ELSE Tail(incoming_queue)

send_answer(answer) == outgoing_queue' = Append(outgoing_queue, answer)
=============================================================================
