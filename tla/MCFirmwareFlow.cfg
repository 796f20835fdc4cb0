CONSTANTS
    Versions = {v1, v2}
    NumComponents = 2
    FlowIds = {1, 2}
    MaxRequests = 2
    MaxRestarts = 1
    None = none
SYMMETRY VersionSymmetry
SPECIFICATION Spec
INVARIANTS TypeOK SuccessIsInstalled NoticeIsTruthful
PROPERTY MutedBellIsOwed
CHECK_DEADLOCK FALSE
