---------------------------- MODULE MCMcpSession ----------------------------
EXTENDS McpSession

MCCommands == {"hud_info"}

MCBodies == [cmds : SUBSET {"hud_info", "shutdown"}, pass : {0}]

MCNames == (1..MaxConnections) \X (0..MaxCommits - 1)
=============================================================================
