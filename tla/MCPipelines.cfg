\* Objects may run out, and with them everything there is to do.
SPECIFICATION PipelinesSpec
CONSTANTS
    Priorities = {1, 2}
    MaxPipelines = 3
    MaxObjects = 4
INVARIANTS
    PipelinesTypeOK
    PoolPartition
    HandleFindsItsObject
CHECK_DEADLOCK FALSE
