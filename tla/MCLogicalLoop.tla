--------------------------- MODULE MCLogicalLoop ---------------------------
(***************************************************************************)
(* Small instance of LogicalLoop: every configuration of the loop, command *)
(* maps that meet every handler of base_scene, pass counts on both sides   *)
(* of zero.                                                                *)
(***************************************************************************)
EXTENDS LogicalLoop

AllConfigs == [tickless : BOOLEAN, window : BOOLEAN, remote : BOOLEAN]

MCBodies ==
    {[cmds |-> {"pass_ticks_after", "hud_info"}, pass |-> 2],
     [cmds |-> {"pass_ticks_after"}, pass |-> -1],
     [cmds |-> {"set_camera_position", "debug_command"}, pass |-> 0],
     [cmds |-> {"screenshot"}, pass |-> 0],
     [cmds |-> {"shutdown", "screenshot"}, pass |-> 0]}

MCNames == {<<1, 0>>, <<1, 1>>}
=============================================================================
