CONSTANTS
    p1 = p1
    p2 = p2
    Packages <- OnePackage
    MaxThreads = 2
    MaxQueue = 2
    maxRetryTimes = 1
    MaxDownloads = 1
    MaxResumes = 0
    MaxCancels = 1
    CrashPoints = {"none","start","net"}
    MaxNetChanges = 2
SPECIFICATION Spec
INVARIANTS TypeOK QuietIsNotDownloading CancelLeavesNoRow
CHECK_DEADLOCK FALSE
