SPECIFICATION Spec
CONSTANTS
    Calls <- MCCalls
    Called <- MCCalled
INVARIANTS OwnArguments OwnAnswer SessionInv
PROPERTY EveryCallAnswered
