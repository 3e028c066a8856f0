SPECIFICATION SessionSpec
CONSTANTS
    FrameBodies <- MCBodies
    FrameNames <- MCNames
    Commands <- MCCommands
    MaxConnections = 2
    MaxCommits = 3
    MaxHarvest = 2
    MaxLaunches = 2
    MaxResets = 1
INVARIANTS
    SessionTypeOK
    NamesUnique
    HarvestInCommitOrder
    PendingCoversCommits
