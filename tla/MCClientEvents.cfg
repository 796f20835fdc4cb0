SPECIFICATION Spec
CONSTANTS
    Subscriptions <- MCSubscriptions
    maxRetryTimes = 2
    retryMaxTimes = 1
    MaxGen = 2
    MaxQueue = 1
    MaxListeners <- MCListeners
INVARIANTS HandlerInv RegistrationsAgree SilenceIsExplained
CHECK_DEADLOCK FALSE
