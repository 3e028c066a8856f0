--------------------------- MODULE ControlFrames ---------------------------
(***************************************************************************)
(* The vocabulary of the remote-control protocol: the command types, the   *)
(* frame command sets and the answer sets that the MCP server and the      *)
(* renderer exchange as newline-delimited JSON lines.                      *)
(*                                                                         *)
(* A frame keeps what the control flow of either end can tell apart: its   *)
(* (session tag, net id), which commands it enables, and the rounded value *)
(* of pass_ticks_after.  The values of the other commands are left out.    *)
(***************************************************************************)
EXTENDS Integers, Sequences

CONSTANTS
    FrameBodies,    \* the command maps a controller may commit
    FrameNames      \* the (session tag, net id) pairs it may give them

CommandType ==
    {"pass_ticks_after", "set_camera_position", "set_mouse_position",
     "set_mouse_left_button", "set_mouse_right_button", "add_mouse_scroll",
     "screenshot", "hud_info", "debug_command", "shutdown",
     "session_log_rename"}

Body == [cmds : SUBSET CommandType, pass : Int]

ASSUME FrameBodiesAssumption == FrameBodies \subseteq Body
ASSUME FrameNamesAssumption == FrameNames \subseteq Nat \X Nat

CommittedFrame ==
    {[tag |-> name[1], id |-> name[2], body |-> body] :
        name \in FrameNames, body \in FrameBodies}

\* remote_command_frame_set{}: what a line that does not parse becomes.
EmptyFrame == [tag |-> 0, id |-> 0, body |-> [cmds |-> {}, pass |-> 0]]

Frame == CommittedFrame \cup {EmptyFrame}

\* A line of text on the wire: a serialized frame, or one no JSON parser
\* accepts (Python's json.dumps writes a non-finite float as NaN).
GarbledLine == [parses |-> FALSE, frame |-> EmptyFrame]

Line == [parses : {TRUE}, frame : CommittedFrame] \cup {GarbledLine}

\* command_frame_from_json: a parse error is logged, and the empty frame is
\* what the caller pushes all the same.
command_frame_from_json(line) ==
    IF line.parses THEN line.frame ELSE EmptyFrame

ShotResult == {"none", "saved", "error"}

Answer == [tag : Nat, id : Nat, answered : SUBSET CommandType, shot : ShotResult]

\* Answered by inject_remote_control_pre, before the tick of the frame ...
PreAnswered ==
    {"set_camera_position", "set_mouse_position", "set_mouse_left_button",
     "set_mouse_right_button", "add_mouse_scroll", "shutdown",
     "session_log_rename"}

\* ... and by inject_remote_control_post, after it.
PostAnswered == {"screenshot", "hud_info"}

\* Frames an answer or a frame belongs to, as the controller names them.
NameOf(x) == <<x.tag, x.id>>
=============================================================================
