\* Two launches with a shutdown in between, three commits and two waits: the second
\* session meets what the shutdown of the first one left in the answer queue.
SPECIFICATION SessionSpec
CONSTANTS
    FrameBodies <- MCBodies
    FrameNames <- MCNames
    Commands <- MCCommands
    MaxConnections = 2
    MaxCommits = 3
    MaxHarvest = 2
    MaxLaunches = 2
    MaxResets = 1
INVARIANT ResponseMatchesCommit
