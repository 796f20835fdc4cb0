--------------------------- MODULE DownloadStatus ---------------------------
(***************************************************************************)
(* The statuses of download_common.h and how DownloadTaskProgressProcessor *)
(* derives the status of a task from the statuses of its packages.         *)
(***************************************************************************)
EXTENDS Integers

DownloadStatuses == {"INIT", "DOWNLOADING", "PAUSE", "CANCEL", "SUCCESS",
                     "FAIL", "VERIFYING", "AUTO_PAUSE"}

(* ProgressInfo::IsSyncCallback *)
IsSyncCallback(status) == status \in {"CANCEL", "PAUSE"}

(* ProgressInfo::IsTaskCompleted *)
IsTaskCompleted(status) ==
    status \in {"SUCCESS", "FAIL", "CANCEL", "AUTO_PAUSE", "PAUSE"}

(* ProgressInfo::IsDownloadFinished, DownloadInfo::IsCompleted *)
IsCompleted(status) == status \in {"SUCCESS", "FAIL"}

(* The statuses on which DealCallBack takes the task out of the map.       *)
IsFinal(status) == status \in {"SUCCESS", "FAIL", "CANCEL"}

(* RemoveTask refuses a task that is in none of these.                     *)
IsRemovable(status) == IsFinal(status) \/ status \in {"PAUSE", "AUTO_PAUSE"}

CalcDownloadTaskStatus_mut(status) ==
    LET Some(S) == \E p \in DOMAIN status : status[p] \in S
    IN  IF Some({"SUCCESS"}) THEN "SUCCESS"
        ELSE IF Some({"DOWNLOADING", "VERIFYING"}) THEN "DOWNLOADING"
        ELSE IF Some({"AUTO_PAUSE"}) THEN "AUTO_PAUSE"
        ELSE IF Some({"CANCEL"}) THEN "CANCEL"
        ELSE IF Some({"FAIL"}) THEN "FAIL" ELSE "DOWNLOADING"

(* The status of a task whose packages have the statuses status[p].        *)
CalcDownloadTaskStatus(status) ==
    LET Some(S) == \E p \in DOMAIN status : status[p] \in S
        All(s)  == \A p \in DOMAIN status : status[p] = s
    IN  IF All("SUCCESS") THEN "SUCCESS"
        ELSE IF Some({"DOWNLOADING", "VERIFYING"}) THEN "DOWNLOADING"
        ELSE IF Some({"PAUSE"}) THEN "PAUSE"
        ELSE IF Some({"AUTO_PAUSE"}) THEN "AUTO_PAUSE"
        ELSE IF Some({"CANCEL"}) THEN "CANCEL"
        ELSE IF Some({"FAIL"}) THEN "FAIL"
        ELSE "DOWNLOADING"

(* GetTaskProgress: Update leaves the status alone while no package has    *)
(* started, and no task of this code returns to that state.                *)
TaskStatus(status) ==
    IF \A p \in DOMAIN status : status[p] = "INIT" THEN "INIT"
    ELSE CalcDownloadTaskStatus(status)

=============================================================================
