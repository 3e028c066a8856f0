---------------------------- MODULE MCAppControl ----------------------------
EXTENDS AppControl

HeadlessTickless == {[tickless |-> TRUE, window |-> FALSE, remote |-> TRUE]}

MCBodies ==
    {[cmds |-> {"pass_ticks_after", "hud_info"}, pass |-> 1],
     [cmds |-> {"shutdown"}, pass |-> 0]}

MCNames == (1..MaxConnections) \X (0..MaxFrames - 1)
=============================================================================
