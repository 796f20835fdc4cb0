SPECIFICATION Spec
CONSTANTS
    Size = 3
    BufferRoom = 2
    Chunks = {2}
    MaxRetryCount = 2
    IntMax = 1
    Asked = {"INSTALL", "APPLY"}
    MaxQueue = 1
    MaxCalls = 1
    MaxFaults = 1
INVARIANTS
    StreamInv
    StatusIsExplained
PROPERTIES
    KeepsRows
    InstallEnds
CHECK_DEADLOCK FALSE
