CONSTANTS
    p1 = p1
    p2 = p2
    Packages <- TwoPackages
    MaxThreads = 2
    MaxQueue = 1
    maxRetryTimes = 0
    MaxDownloads = 1
    MaxResumes = 1
    MaxCancels = 0
    CrashPoints = {"none","resume"}
    MaxNetChanges = 0
SPECIFICATION Spec
INVARIANTS SuccessMeansAllVerified RunningHasThread PersistedSuccessIsVerified QuietIsNotDownloading
PROPERTY FinalIsFinal
SYMMETRY Symmetry
CHECK_DEADLOCK FALSE
