CONSTANTS
    p1 = p1
    p2 = p2
    Packages <- OnePackage
    MaxThreads = 2
    MaxQueue = 1
    maxRetryTimes = 2
    MaxDownloads = 1
    MaxResumes = 1
    MaxCancels = 0
    CrashPoints = {}
    MaxNetChanges = 1
SPECIFICATION FairSpec
PROPERTY DownloadEnds
CHECK_DEADLOCK FALSE
