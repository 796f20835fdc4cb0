SPECIFICATION Spec
CONSTANTS
    Slots = {s1, s2}
    Codes <- MCCodes
    Callers <- MCCallers
    Infos <- MCInfos
    Hookable <- MCHookable
    MaxCalls = 2
INVARIANTS NothingRunsUnchecked CheckInv StatusReadsHold KeysGoneIsTold
PROPERTY CallsReturn
CHECK_DEADLOCK FALSE
