CONSTANTS
    Clients = {c1}
    MaxProcesses = 2
    MaxEvents = 1
    MaxCalls = 2
    Faults = FALSE
SPECIFICATION FairSpec
INVARIANTS TypeOK InitializedOnce DeadClientIsNoticed NextUpgradeIsAwaited
PROPERTY UnlockIsNoticed
