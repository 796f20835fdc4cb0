SPECIFICATION Spec
CONSTANTS
    packageSize = 18
    MIN_FILE_DOWNLOAD_SIZE = 7
    CURL_MAX_WRITE_SIZE = 2
    IoFaults = TRUE
INVARIANTS
    DurabilityInv
    ResumeInsideDurablePrefix
PROPERTY
    ProgressNeverRollsBack
