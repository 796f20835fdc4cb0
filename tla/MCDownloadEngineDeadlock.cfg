CONSTANTS
    p1 = p1
    p2 = p2
    Packages <- OnePackage
    MaxThreads = 1
    MaxQueue = 1
    maxRetryTimes = 0
    MaxDownloads = 1
    MaxResumes = 0
    MaxCancels = 1
    CrashPoints = {}
    MaxNetChanges = 0
SPECIFICATION FairSpec
PROPERTY CancelReturns
CHECK_DEADLOCK FALSE
