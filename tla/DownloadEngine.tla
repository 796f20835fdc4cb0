--------------------------- MODULE DownloadEngine ---------------------------
(***************************************************************************)
(* The download engine and its only client, the firmware download          *)
(* executor: DownloadTaskManager, DownloadTask, DownloadService and the    *)
(* control flow of DownloadThread, for one task (one upgrade version) and  *)
(* the packages it consists of.                                            *)
(*                                                                         *)
(* Concurrent actors and the locks they hold:                              *)
(*   - the holder of downloadTaskMapMutex_ (`op'): Start, Resume, Cancel   *)
(*     and OnNetChange run one at a time, each in several steps;           *)
(*   - every DownloadThread; a report of a thread is four steps, because   *)
(*     CallbackUpdateDownloadProgress, UpdateDownloadInfo, GetTaskProgress *)
(*     and IsProgressChanged each take and release their own lock;         *)
(*   - the serial callback queue of the task (`worker'), which holds       *)
(*     callbackMutex_ while the firmware layer handles a callback;         *)
(*   - power loss and restart.                                             *)
(*                                                                         *)
(* Byte counts are abstracted away: two progress reports with the same     *)
(* running status may or may not differ.  Their crash consistency is the   *)
(* subject of DownloadFile.                                                *)
(***************************************************************************)
EXTENDS DownloadStatus, FiniteSets, Sequences

CONSTANTS
    Packages,        \* the packages of the version, one DownloadInfo each
    MaxThreads,      \* bound: DownloadThreads alive at the same time
    MaxQueue,        \* bound: callbacks waiting in the serial queue
    maxRetryTimes,   \* IsRetryAble: 3
    MaxDownloads,    \* bound: how often a download is asked for,
    MaxResumes,      \* ... its resumption,
    MaxCancels,      \* ... its cancellation,
    MaxNetChanges,   \* ... and how often the allowed network comes or goes
    CrashPoints      \* the kinds of operation a power loss may interrupt

ASSUME EngineAssumption ==
    /\ Packages # {} /\ IsFiniteSet(Packages)
    /\ MaxThreads \in Nat /\ MaxQueue \in Nat \ {0} /\ maxRetryTimes \in Nat
    /\ {MaxDownloads, MaxResumes, MaxCancels, MaxNetChanges} \subseteq Nat
    /\ CrashPoints \subseteq {"none", "start", "resume", "cancel", "net"}

VARIABLES
    fw,                 \* FirmwareTask.status in the firmware database
    downloadTaskId,     \* FirmwareTask.downloadTaskId is not empty
    alive,              \* the flow that owns the callback has not completed
    want,               \* what the firmware executor is about to call
    requests,           \* how often something came from outside
    tidy,               \* a DoCancel still has to reset the firmware task
    op,                 \* the operation that holds downloadTaskMapMutex_
    inMap,              \* downloadTaskMap_ has the task
    hasCallback,        \* DownloadTask::callback_ is set
    isStopDownloadingCallback,
    isStopCallback,
    pkgs,               \* the packages the task object knows, {} once destroyed
    info,               \* DownloadInfo of each package: status and retryTimes
    status,             \* DownloadTask::status_, the last recorded status
    db,                 \* the rows of the download database
    threads,            \* the DownloadThreads
    threadMap,          \* threadMap_: the thread of each package, 0 for none
    queue,              \* the serial callback queue
    timed,              \* the ten-second report task is submitted
    worker,             \* what the serial queue is executing
    net,                \* the allowed network is available
    notify,             \* NetManager is calling the engine about a change
    verified,           \* packages whose file is on disk and passed sha256
    handed,             \* the last status handed to the business callback
    lost,               \* the end of an unfinished task was not passed on
    doubled,            \* packages Resume gave a second thread at work
    overlapped          \* a download began before the clean-up of the last

vars == <<fw, downloadTaskId, alive, want, requests, tidy, op, inMap,
          hasCallback, isStopDownloadingCallback, isStopCallback, pkgs,
          info, status, db, threads, threadMap, queue, timed, worker, net, notify, verified, handed,
          lost, doubled, overlapped>>

client  == <<fw, downloadTaskId, alive, want, requests, tidy>>
task    == <<inMap, hasCallback, isStopDownloadingCallback, isStopCallback, pkgs>>
pool    == <<threads, threadMap>>
serial  == <<queue, timed, worker>>
network == <<net, notify>>
ghosts  == <<verified, handed, lost, doubled, overlapped>>

ThreadIds == 1..MaxThreads
FreeThread == [pc |-> "free", pkg |-> CHOOSE p \in Packages : TRUE,
               status |-> "INIT", cancel |-> FALSE, autoPause |-> FALSE,
               attached |-> FALSE, gone |-> FALSE, report |-> "INIT",
               snap |-> "INIT"]
Budget     == [download |-> MaxDownloads, resume |-> MaxResumes,
               cancel |-> MaxCancels, net |-> MaxNetChanges]
NoOp       == [kind |-> "none", todo |-> {}, pc |-> "loop"]
IdleWorker == [pc |-> "idle", status |-> "INIT"]

Statuses       == [p \in pkgs |-> info[p].status]
CurrentStatus  == TaskStatus(Statuses)
Live           == {t \in ThreadIds : threads[t].pc # "free"}
MapMutexFree   == op.kind = "none"

(* downloadServiceMutex_ is held for the whole package loop of Start,      *)
(* Resume and NetChangeToPause.                                            *)
ServiceMutexFree == op.kind \in {"start", "resume", "net"} => op.todo = {}

(* callbackMutex_ is held across the business callback, which may wait for *)
(* downloadTaskMapMutex_.                                                  *)
CallbackMutexFree ==
    /\ worker.pc \notin {"deal", "remove"}
    /\ \A t \in ThreadIds : threads[t].pc # "remove"

(* A thread that works on its package for the present task object, or has  *)
(* not yet recorded how its work ended.                                    *)
Busy(t) ==
    /\ threads[t].attached
    /\ threads[t].pc \in {"snap", "record", "sync", "remove"} =>
          threads[t].report \in {"DOWNLOADING", "VERIFYING"}

(* The clean-up of a download that ended is still to come.  It removes the *)
(* task by its id and deletes every file, whoever downloads by then.       *)
CleanUpPending ==
    \/ tidy \/ worker.pc = "remove"
    \/ \E t \in ThreadIds : threads[t].pc = "remove"

-----------------------------------------------------------------------------
(* Building blocks                                                         *)

(* StartDownloadThread: construct the thread from the DownloadInfo, put it *)
(* into threadMap_ and submit it.                                          *)
StartDownloadThread(p, initial) ==
    \E t \in ThreadIds \ Live :
       /\ \A u \in ThreadIds \ Live : t <= u
       /\ threads' = [threads EXCEPT ![t] =
             [FreeThread EXCEPT !.pc = "submitted", !.pkg = p,
                                !.status = initial, !.attached = TRUE]]
       /\ threadMap' = [threadMap EXCEPT ![p] = t]

(* IsProgressChanged and what UpdateTaskProgress does with its result for  *)
(* a status that is reported through the queue.                            *)
RecordAndSubmit(s) ==
    \/ /\ s = status
       /\ UNCHANGED <<status, queue, timed>>
    \/ /\ s # status \/ ~IsTaskCompleted(s)
       /\ Len(queue) < MaxQueue
       /\ queue' = Append(queue, s)
       /\ status' = s
       /\ timed' = IF IsTaskCompleted(s) THEN FALSE ELSE timed

(* CallbackProgressLocked lets the callback through.                       *)
CallbackAllowed(s) ==
    /\ hasCallback
    /\ IsSyncCallback(s) \/ ~isStopDownloadingCallback

(* The firmware status a task status is translated to.                     *)
UpgradeStatus(s) ==
    CASE s \in {"INIT", "DOWNLOADING"} -> "DOWNLOADING"
      [] s \in {"PAUSE", "AUTO_PAUSE"} -> "DOWNLOAD_PAUSE"
      [] s = "SUCCESS" -> "DOWNLOAD_SUCCESS"
      [] s = "FAIL"    -> "DOWNLOAD_FAIL"
      [] s = "CANCEL"  -> "CHECK_VERSION_SUCCESS"

DealCallBack_mut(s) ==
    /\ inMap' = (inMap /\ ~IsFinal(s))
    /\ handed' = s
    /\ lost' = lost
    /\ fw' = IF alive /\ fw # "NO_TASK" THEN UpgradeStatus(s) ELSE fw
    /\ alive' = (alive /\ UpgradeStatus(s) = "DOWNLOADING")

(* DealCallBack: a task that is not in the map is ignored; a final status  *)
(* takes the task out of the map; the business callback is called.  The    *)
(* flow behind the callback completes on everything but DOWNLOADING, after *)
(* which its weak pointer drops what still arrives.                        *)
DealCallBack(s) ==
    /\ inMap' = (inMap /\ ~IsFinal(s))
    /\ handed' = IF inMap THEN s ELSE handed
    /\ lost' = (lost \/ (~inMap /\ ~IsFinal(handed)))
    /\ fw' = IF inMap /\ alive /\ fw # "NO_TASK" THEN UpgradeStatus(s) ELSE fw
    /\ alive' = (alive /\ (~inMap \/ UpgradeStatus(s) = "DOWNLOADING"))

(* What the firmware layer does inside the callback needs RemoveTask:      *)
(* DownloadSuccessProcess, DownloadFailProcess and DownloadCancelProcess.  *)
NeedsRemove(s) == inMap /\ alive /\ IsFinal(s)

(* RemoveTask deletes the rows first and then refuses a running task.      *)
RemoveTask ==
    /\ db' = [p \in Packages |-> "none"]
    /\ IF inMap /\ IsRemovable(CurrentStatus)
       THEN inMap' = FALSE /\ hasCallback' = FALSE /\ pkgs' = {}
       ELSE UNCHANGED <<inMap, hasCallback, pkgs>>

(* Where a thread goes once its report is out of its hands.                *)
AfterReport(t) ==
    [threads EXCEPT ![t] =
        CASE @.report = "DOWNLOADING" -> [@ EXCEPT !.pc = "running", !.snap = "INIT"]
          [] @.report = "VERIFYING"   -> [@ EXCEPT !.pc = "verifying", !.snap = "INIT"]
          [] OTHER                    -> FreeThread]

(* The files of the packages P are deleted under the threads ths.          *)
Unlinked(ths, P) ==
    [t \in ThreadIds |-> [ths[t] EXCEPT !.gone =
        @ \/ (ths[t].pc \notin {"free", "submitted"} /\ ths[t].pkg \in P)]]

(* The end of the firmware's handling of a final status: a failed or       *)
(* cancelled download also deletes the files, a failed one clears the      *)
(* firmware task.                                                          *)
FinishRemove(s, reached, ths) ==
    /\ RemoveTask
    /\ verified' = IF s = "SUCCESS" THEN verified ELSE {}
    /\ threads' = IF s = "SUCCESS" THEN ths ELSE Unlinked(ths, Packages)
    /\ fw' = IF s = "FAIL" THEN "NO_TASK" ELSE reached
    /\ downloadTaskId' = (downloadTaskId /\ s = "SUCCESS")

-----------------------------------------------------------------------------
(* The firmware layer                                                      *)

Init ==
    /\ fw = "CHECK_VERSION_SUCCESS" /\ downloadTaskId = FALSE
    /\ alive = FALSE /\ want = "none" /\ tidy = FALSE
    /\ requests = [r \in DOMAIN Budget |-> 0]
    /\ op = NoOp
    /\ inMap = FALSE /\ hasCallback = FALSE
    /\ isStopDownloadingCallback = FALSE /\ isStopCallback = FALSE
    /\ pkgs = {}
    /\ info = [p \in Packages |-> [status |-> "INIT", retryTimes |-> 0]]
    /\ status = "INIT"
    /\ db = [p \in Packages |-> "none"]
    /\ threads = [t \in ThreadIds |-> FreeThread]
    /\ threadMap = [p \in Packages |-> 0]
    /\ queue = <<>> /\ timed = FALSE /\ worker = IdleWorker
    /\ net = TRUE /\ notify = FALSE
    /\ verified = {} /\ handed = "INIT" /\ lost = FALSE
    /\ doubled = {} /\ overlapped = FALSE

(* A check finds a version after the previous task was cleared.            *)
NewVersionFound ==
    /\ fw = "NO_TASK"
    /\ fw' = "CHECK_VERSION_SUCCESS"
    /\ downloadTaskId' = FALSE
    /\ UNCHANGED <<alive, want, requests, tidy, op, task, info, status, db,
                   pool, serial, network, ghosts>>

(* Somebody asks for a download, its resumption or its cancellation, or    *)
(* the network changes.                                                    *)
Request(r) ==
    /\ requests[r] < Budget[r]
    /\ requests' = [requests EXCEPT ![r] = @ + 1]

(* FirmwareDownloadMode::GetStepAfterInit and the first half of            *)
(* FirmwareDownloadExecutor::DoDownload: the task is marked DOWNLOADING    *)
(* before the engine is called.                                            *)
MayDownload ==
    /\ fw \in {"CHECK_VERSION_SUCCESS", "DOWNLOAD_FAIL", "DOWNLOAD_PAUSE"}
    /\ want = "none"
    /\ net

PerformDownload ==
    /\ MayDownload /\ Request("download")
    /\ ~downloadTaskId \/ (MapMutexFree /\ ~inMap)
    /\ want' = "start"
    /\ fw' = "DOWNLOADING" /\ downloadTaskId' = TRUE
    /\ overlapped' = (overlapped \/ CleanUpPending)
    /\ UNCHANGED <<alive, tidy, op, task, info, status, db, pool, serial,
                   network, verified, handed, lost, doubled>>

PerformResumeDownload ==
    /\ MayDownload /\ Request("resume")
    /\ downloadTaskId /\ MapMutexFree /\ inMap
    /\ CurrentStatus \in {"PAUSE", "AUTO_PAUSE"}
    /\ want' = "resume"
    /\ fw' = "DOWNLOADING"
    /\ UNCHANGED <<downloadTaskId, alive, tidy, op, task, info, status, db,
                   pool, serial, network, ghosts>>

(* IsNeedResumeDownload: a finished download is reported once more, which  *)
(* is how a task that finished before a restart reaches the firmware; a    *)
(* running one is a failure, and the firmware task is cleared although     *)
(* RemoveTask refuses to remove the running download.                      *)
ReportFinishedDownload ==
    /\ MayDownload /\ Request("resume")
    /\ downloadTaskId /\ MapMutexFree /\ inMap
    /\ IsCompleted(CurrentStatus)
    /\ FinishRemove(CurrentStatus, UpgradeStatus(CurrentStatus), threads)
    /\ UNCHANGED <<alive, want, tidy, op, isStopDownloadingCallback,
                   isStopCallback, info, status, threadMap, serial, network,
                   handed, lost, doubled, overlapped>>

ResumeRunningFails ==
    /\ MayDownload /\ Request("resume")
    /\ downloadTaskId /\ MapMutexFree /\ inMap
    /\ CurrentStatus \notin {"PAUSE", "AUTO_PAUSE", "SUCCESS", "FAIL"}
    /\ FinishRemove("FAIL", fw, threads)
    /\ UNCHANGED <<alive, want, tidy, op, isStopDownloadingCallback,
                   isStopCallback, info, status, threadMap, serial, network,
                   handed, lost, doubled, overlapped>>

(* FirmwareManager::DoCancel of a task that is not downloading, or that    *)
(* the engine no longer has, goes straight to the clean-up.                *)
DoCancel ==
    /\ ~tidy /\ Request("cancel")
    /\ \/ fw \in {"DOWNLOAD_PAUSE", "DOWNLOAD_SUCCESS"}
       \/ fw = "DOWNLOADING" /\ MapMutexFree /\ ~inMap
    /\ tidy' = TRUE
    /\ UNCHANGED <<fw, downloadTaskId, alive, want, op, task, info, status, db,
                   pool, serial, network, ghosts>>

(* The clean-up of DoCancel: it runs without a lock after Cancel returned, *)
(* writes the firmware task whatever its status has become, and calls      *)
(* RemoveTask.                                                             *)
DoCancelCleanUp ==
    /\ tidy /\ MapMutexFree
    /\ tidy' = FALSE /\ requests' = requests
    /\ fw' = IF fw = "NO_TASK" THEN fw ELSE "CHECK_VERSION_SUCCESS"
    /\ RemoveTask
    /\ UNCHANGED <<downloadTaskId, alive, want, op, isStopDownloadingCallback,
                   isStopCallback, info, status, pool, serial, network,
                   ghosts>>

-----------------------------------------------------------------------------
(* DownloadTaskManager::Start, Resume, Cancel and OnNetChange              *)

(* EnableCallback *)
EnableCallback == isStopDownloadingCallback' = FALSE /\ timed' = TRUE

(* Start: a task with the same id is erased, cancelled and destroyed; the  *)
(* new one is not in the map yet.  No network or no space fails the start, *)
(* and the firmware clears its task.  What the queue and the threads of    *)
(* the old object still hold reaches the old object only.                  *)
StartTask ==
    /\ want = "start" /\ MapMutexFree
    /\ want' = "none"
    /\ inMap' = FALSE
    /\ threads' = Unlinked([t \in ThreadIds |-> [threads[t] EXCEPT
                     !.attached = FALSE,
                     !.cancel = @ \/ (inMap /\ threadMap[threads[t].pkg] = t)]],
                     IF inMap THEN Packages ELSE {})
    /\ threadMap' = [p \in Packages |-> 0]
    /\ isStopCallback' = FALSE
    /\ queue' = <<>>
    /\ worker' = IF worker.pc \in {"call", "deal"} THEN IdleWorker ELSE worker
    /\ status' = "INIT" /\ handed' = "INIT" /\ lost' = FALSE
    /\ info' = [p \in Packages |-> [status |-> "INIT", retryTimes |-> 0]]
    /\ \/ /\ net
          /\ op' = [NoOp EXCEPT !.kind = "start", !.todo = Packages]
          /\ pkgs' = Packages /\ hasCallback' = TRUE /\ alive' = TRUE
          /\ db' = IF inMap THEN [p \in Packages |-> "none"] ELSE db
          /\ verified' = IF inMap THEN {} ELSE verified
          /\ UNCHANGED <<fw, downloadTaskId>>
       \/ /\ op' = op
          /\ pkgs' = {} /\ hasCallback' = FALSE
          /\ db' = [p \in Packages |-> "none"]
          /\ verified' = {}
          /\ fw' = "NO_TASK" /\ downloadTaskId' = FALSE /\ alive' = FALSE
    /\ isStopDownloadingCallback' = FALSE /\ timed' = FALSE
    /\ UNCHANGED <<requests, tidy, network, doubled, overlapped>>

(* One turn of the loop of DownloadService::Start: the row is inserted and *)
(* the thread submitted, package by package.                               *)
StartPackage(p) ==
    /\ op.kind = "start" /\ p \in op.todo
    /\ db' = [db EXCEPT ![p] = IF @ = "none" THEN "INIT" ELSE @]
    /\ StartDownloadThread(p, "INIT")
    /\ op' = [op EXCEPT !.todo = @ \ {p}]
    /\ UNCHANGED <<client, task, info, status, serial, network, ghosts>>

(* The end of Start: EnableCallback, and only now EnsureInsert.            *)
EnsureInsert ==
    /\ op.kind = "start" /\ op.todo = {}
    /\ EnableCallback
    /\ inMap' = TRUE
    /\ op' = NoOp
    /\ UNCHANGED <<client, hasCallback, isStopCallback, pkgs, info, status, db,
                   pool, queue, worker, network, ghosts>>

(* Resume, up to the loop of DownloadService::Resume.                      *)
ResumeTask ==
    /\ want = "resume" /\ MapMutexFree /\ inMap
    /\ want' = "none"
    /\ info' = [p \in Packages |->
          IF p \in pkgs /\ info[p].status = "FAIL"
          THEN [info[p] EXCEPT !.status = "INIT"] ELSE info[p]]
    /\ hasCallback' = TRUE /\ isStopCallback' = FALSE
    /\ EnableCallback
    /\ \/ net /\ op' = [NoOp EXCEPT !.kind = "resume", !.todo = pkgs]
       \/ ~net /\ op' = [NoOp EXCEPT !.kind = "resume"]
    /\ handed' = "INIT" /\ lost' = FALSE
    /\ fw' = IF net THEN fw ELSE "DOWNLOAD_PAUSE"
    /\ alive' = net
    /\ UNCHANGED <<downloadTaskId, requests, tidy, inMap, pkgs, status, db,
                   pool, queue, worker, network, verified, doubled,
                   overlapped>>

(* Resume of a task that left the map meanwhile: the firmware is told the  *)
(* download failed and clears its task.                                    *)
ResumeMissingTask ==
    /\ want = "resume" /\ MapMutexFree /\ ~inMap
    /\ want' = "none"
    /\ FinishRemove("FAIL", fw, threads)
    /\ alive' = FALSE
    /\ UNCHANGED <<requests, tidy, op, isStopDownloadingCallback,
                   isStopCallback, info, status, threadMap, serial, network,
                   handed, lost, doubled, overlapped>>

(* One turn of the loop: a package with a thread, or completed, is left.   *)
ResumePackage(p) ==
    /\ op.kind = "resume" /\ p \in op.todo
    /\ op' = [op EXCEPT !.todo = @ \ {p}]
    /\ IF threadMap[p] # 0 \/ IsCompleted(info[p].status)
       THEN UNCHANGED <<info, pool, doubled>>
       ELSE LET s == IF info[p].status \in {"PAUSE", "AUTO_PAUSE"}
                     THEN "DOWNLOADING" ELSE info[p].status
            IN  /\ info' = [info EXCEPT ![p] = [status |-> s, retryTimes |-> 0]]
                /\ StartDownloadThread(p, s)
                /\ doubled' = IF \E t \in ThreadIds : Busy(t) /\ threads[t].pkg = p
                              THEN doubled \cup {p} ELSE doubled
    /\ UNCHANGED <<client, task, status, db, serial, network, verified,
                   handed, lost, overlapped>>

(* The end of Resume: the recorded status is refreshed.  If the last       *)
(* thread has ended by now, its report will find its status recorded.      *)
ResumeFinish ==
    /\ op.kind = "resume" /\ op.todo = {}
    /\ status' = CurrentStatus
    /\ op' = NoOp
    /\ lost' = (lost \/ (alive /\ IsTaskCompleted(CurrentStatus)))
    /\ UNCHANGED <<client, task, info, db, pool, serial, network, verified,
                   handed, doubled, overlapped>>

(* DoCancel of a running download, DownloadTask::Cancel up to the end of   *)
(* DeleteDownloadedFiles.  Stop waits at most 50 ms for a thread.          *)
CancelTask ==
    /\ fw = "DOWNLOADING" /\ ~tidy /\ MapMutexFree /\ inMap /\ Request("cancel")
    /\ isStopDownloadingCallback' = TRUE /\ isStopCallback' = TRUE
    /\ timed' = FALSE
    /\ threads' = Unlinked([t \in ThreadIds |-> [threads[t] EXCEPT
                     !.cancel = @ \/ threadMap[threads[t].pkg] = t]], pkgs)
    /\ threadMap' = [p \in Packages |-> 0]
    /\ verified' = verified \ pkgs
    /\ op' = [NoOp EXCEPT !.kind = "cancel", !.todo = pkgs]
    /\ UNCHANGED <<fw, downloadTaskId, alive, want, tidy, inMap, hasCallback,
                   pkgs, info, status, db, queue, worker, network, handed,
                   lost, doubled, overlapped>>

(* One turn of the loop of NotifyCancelCompleted is two steps, like the    *)
(* report of a thread: the package becomes CANCEL (the row is left), then  *)
(* the task looks at its status.  The first one to find the task CANCEL,   *)
(* here or on a thread, makes the synchronous callback.                    *)
CancelPackage(p) ==
    /\ op.kind = "cancel" /\ op.pc = "loop" /\ p \in op.todo
    /\ info' = [info EXCEPT ![p].status = "CANCEL"]
    /\ threadMap' = [threadMap EXCEPT ![p] = 0]
    /\ op' = [op EXCEPT !.todo = @ \ {p}, !.pc = "record"]
    /\ UNCHANGED <<client, task, status, db, threads, serial, network, ghosts>>

CancelRecord ==
    /\ op.kind = "cancel" /\ op.pc = "record"
    /\ LET s == CurrentStatus
       IN  IF IsSyncCallback(s) /\ s # status
           THEN /\ op' = [op EXCEPT !.pc = "sync"]
                /\ status' = s /\ timed' = FALSE
                /\ UNCHANGED queue
           ELSE /\ op' = [op EXCEPT !.pc = "loop"]
                /\ RecordAndSubmit(s)
    /\ UNCHANGED <<client, task, info, db, pool, worker, network, ghosts>>

(* The synchronous CANCEL callback waits for callbackMutex_.  The firmware *)
(* handles it on the same thread, which already owns the map mutex.        *)
CancelCallback ==
    /\ op.kind = "cancel" /\ op.pc = "sync"
    /\ CallbackMutexFree
    /\ op' = [op EXCEPT !.pc = "loop"]
    /\ IF CallbackAllowed("CANCEL")
       THEN /\ DealCallBack("CANCEL")
            /\ db' = IF NeedsRemove("CANCEL") THEN [p \in Packages |-> "none"] ELSE db
            /\ verified' = IF NeedsRemove("CANCEL") THEN {} ELSE verified
            /\ threads' = Unlinked(threads, IF NeedsRemove("CANCEL") THEN Packages ELSE {})
            /\ downloadTaskId' = (downloadTaskId /\ ~NeedsRemove("CANCEL"))
       ELSE UNCHANGED <<inMap, handed, lost, alive, fw, downloadTaskId, db,
                        verified, threads>>
    /\ UNCHANGED <<want, requests, tidy, hasCallback,
                   isStopDownloadingCallback, isStopCallback, pkgs, info,
                   status, threadMap, serial, network, doubled, overlapped>>

(* The end of Cancel: the rows go and the callback goes; DoCancel still    *)
(* has its clean-up to do.                                                 *)
CancelFinish ==
    /\ op.kind = "cancel" /\ op.pc = "loop" /\ op.todo = {}
    /\ db' = [p \in Packages |-> "none"]
    /\ hasCallback' = FALSE
    /\ tidy' = TRUE /\ requests' = requests
    /\ op' = NoOp
    /\ UNCHANGED <<fw, downloadTaskId, alive, want, inMap,
                   isStopDownloadingCallback, isStopCallback, pkgs, info,
                   status, pool, serial, network, ghosts>>

(* NetManager::OnNetChange calls the engine about every change but the one *)
(* to NO_NET, and blocks the next change until the engine returns.         *)
NetChanges ==
    /\ ~notify /\ op.kind # "net" /\ Request("net")
    /\ net' \in BOOLEAN
    /\ notify' \in {TRUE, net'}
    /\ UNCHANGED <<fw, downloadTaskId, alive, want, tidy, op, task, info,
                   status, db, pool, serial, ghosts>>

(* The task OnNetChange passes the change on to.                           *)
NetConcernsTask == inMap /\ ~IsFinal(CurrentStatus)

(* OnNetChange with the allowed network back: firmware downloads have      *)
(* isNeedAutoResume = false, so NetChangeToStart restarts nothing.         *)
OnNetAvailable ==
    /\ notify /\ net /\ MapMutexFree /\ NetConcernsTask
    /\ notify' = FALSE
    /\ EnableCallback
    /\ UNCHANGED <<client, op, inMap, hasCallback, isStopCallback, pkgs, info,
                   status, db, pool, queue, worker, net, ghosts>>

OnNetIgnored ==
    /\ notify /\ MapMutexFree /\ ~NetConcernsTask
    /\ notify' = FALSE
    /\ UNCHANGED <<client, op, task, info, status, db, pool, serial, net,
                   ghosts>>

(* OnNetChange without it: DisableCallback, then NetChangeToPause of every *)
(* thread in threadMap_.                                                   *)
OnNetLost ==
    /\ notify /\ ~net /\ MapMutexFree /\ NetConcernsTask
    /\ notify' = FALSE
    /\ timed' = FALSE
    /\ op' = [NoOp EXCEPT !.kind = "net",
                          !.todo = {p \in Packages : threadMap[p] # 0}]
    /\ UNCHANGED <<client, task, info, status, db, pool, queue, worker, net,
                   ghosts>>

(* DownloadThread::NetChangeToPause.  A thread that has not run yet is     *)
(* reported AUTO_PAUSE and erased from the map that is being iterated (the *)
(* loop may end there), but nothing stops it.                              *)
NetPausePackage(p) ==
    /\ op.kind = "net" /\ p \in op.todo
    /\ LET t == threadMap[p]
       IN  IF threads[t].status = "INIT" /\ ~isStopCallback
           THEN /\ threadMap' = [threadMap EXCEPT ![p] = 0]
                /\ info' = [info EXCEPT ![p].status = "AUTO_PAUSE"]
                /\ db' = [db EXCEPT ![p] = IF @ = "none" THEN @ ELSE "AUTO_PAUSE"]
                /\ RecordAndSubmit(TaskStatus([q \in pkgs |-> info'[q].status]))
                /\ op' \in {[op EXCEPT !.todo = @ \ {p}], [op EXCEPT !.todo = {}]}
                /\ UNCHANGED threads
           ELSE /\ threads' = [threads EXCEPT ![t].autoPause =
                                  @ \/ threads[t].status = "DOWNLOADING"]
                /\ op' = [op EXCEPT !.todo = @ \ {p}]
                /\ UNCHANGED <<threadMap, info, db, status, queue, timed>>
    /\ UNCHANGED <<client, task, worker, network, ghosts>>

NetLostFinish ==
    /\ op.kind = "net" /\ op.todo = {}
    /\ op' = NoOp
    /\ UNCHANGED <<client, task, info, status, db, pool, serial, network,
                   ghosts>>

-----------------------------------------------------------------------------
(* The download threads                                                    *)

Report(t, s) ==
    threads' = [threads EXCEPT ![t].pc = "check", ![t].report = s]

(* DownloadVersion: the thread starts to run.  CheckBeforeStartDownload    *)
(* reports a completed DownloadInfo as it is and only verifies one that    *)
(* was being verified; failing to open the file is a failure to retry.     *)
DownloadVersion(t) ==
    /\ threads[t].pc = "submitted"
    /\ LET s == threads[t].status
           r == IF s = "VERIFYING" THEN s ELSE "DOWNLOADING"
       IN  IF IsCompleted(s)
           THEN Report(t, IF s = "FAIL" THEN "RETRY" ELSE s)
           ELSE threads' = [threads EXCEPT ![t].pc = "check", ![t].report = r,
                                           ![t].status = r]
    /\ UNCHANGED <<client, op, task, info, status, db, threadMap, serial,
                   network, ghosts>>

(* DoDownload after the request returned: a cancelled thread leaves        *)
(* silently, a paused one reports AUTO_PAUSE, a complete file is verified, *)
(* and the rest is a failure that may be retried ("RETRY": server timeout, *)
(* redirect, size error), one that may not ("FAIL": I/O), or AUTO_PAUSE.   *)
DoDownload(t) ==
    /\ threads[t].pc = "running"
    /\ \/ /\ threads[t].cancel
          /\ threads' = [threads EXCEPT ![t] = FreeThread]
       \/ /\ ~threads[t].cancel /\ threads[t].autoPause
          /\ Report(t, "AUTO_PAUSE")
       \/ /\ ~threads[t].cancel /\ ~threads[t].autoPause
          /\ \/ threads' = [threads EXCEPT ![t].pc = "check", ![t].report = "VERIFYING",
                                           ![t].status = "VERIFYING"]
             \/ \E s \in {"RETRY", "FAIL", "AUTO_PAUSE"} : Report(t, s)
    /\ UNCHANGED <<client, op, task, info, status, db, threadMap, serial,
                   network, ghosts>>

(* DoVerify: sha256 of the file the path names now.                        *)
DoVerify(t) ==
    /\ threads[t].pc = "verifying"
    /\ \/ /\ threads[t].cancel
          /\ threads' = [threads EXCEPT ![t] = FreeThread]
          /\ UNCHANGED verified
       \/ /\ ~threads[t].cancel /\ ~threads[t].gone
          /\ Report(t, "SUCCESS")
          /\ verified' = verified \cup {threads[t].pkg}
       \/ /\ ~threads[t].cancel
          /\ Report(t, "FAIL")
          /\ UNCHANGED verified
    /\ UNCHANGED <<client, op, task, info, status, db, threadMap, serial,
                   network, handed, lost, doubled, overlapped>>

(* CallbackUpdateDownloadProgress: the stop flag is read without a lock.   *)
CheckStopFlag(t) ==
    /\ threads[t].pc = "check"
    /\ IF isStopCallback \/ ~threads[t].attached
       THEN threads' = AfterReport(t)
       ELSE threads' = [threads EXCEPT ![t].pc =
               IF threads[t].report \in {"DOWNLOADING", "VERIFYING"}
               THEN "update" ELSE "leave"]
    /\ UNCHANGED <<client, op, task, info, status, db, threadMap, serial,
                   network, ghosts>>

(* UpdateDownloadProgress, first step: a thread that ended is taken out of *)
(* threadMap_, whichever thread the map has for its package by now.        *)
RemoveThread(t) ==
    /\ threads[t].pc = "leave" /\ ServiceMutexFree
    /\ threads' = [threads EXCEPT ![t].pc = "update"]
    /\ threadMap' = IF threads[t].attached
                    THEN [threadMap EXCEPT ![threads[t].pkg] = 0] ELSE threadMap
    /\ UNCHANGED <<client, op, task, info, status, db, serial, network,
                   ghosts>>

UpdateDownloadInfo_upsert(p, s) ==
    /\ info' = [info EXCEPT ![p].status = s]
    /\ db' = [db EXCEPT ![p] = s]

UpdateDownloadInfo_mut(p, s) ==
    /\ info' = [info EXCEPT ![p].status = s]
    /\ db' = [db EXCEPT ![p] = IF @ = "none" THEN @ ELSE "SUCCESS"]

(* UpdateDownloadInfo: the memory and, if it has one, the row.             *)
UpdateDownloadInfo(p, s) ==
    /\ info' = [info EXCEPT ![p].status = s]
    /\ db' = [db EXCEPT ![p] = IF @ = "none" THEN @ ELSE s]

IsRetryAble_mut(p) == info[p].retryTimes <= maxRetryTimes

(* DownloadInfo::IsRetryAble *)
IsRetryAble(p) == info[p].retryTimes < maxRetryTimes

(* UpdateDownloadProgress, the rest: a failure that may be retried starts  *)
(* another thread, anything else is recorded and goes on to the task.      *)
UpdateDownloadProgress(t) ==
    LET p == threads[t].pkg
        r == threads[t].report
        retry == r = "RETRY" /\ IsRetryAble(p)
    IN  /\ threads[t].pc = "update" /\ ServiceMutexFree
        /\ \/ /\ ~threads[t].attached \/ p \notin pkgs
              /\ threads' = AfterReport(t)
              /\ UNCHANGED <<threadMap, info, db, verified>>
           \/ /\ threads[t].attached /\ p \in pkgs /\ retry
              /\ info' = [info EXCEPT ![p].retryTimes = @ + 1]
              /\ threads' = [threads EXCEPT ![t] = [FreeThread EXCEPT
                    !.pc = "submitted", !.pkg = p, !.status = info[p].status,
                    !.attached = TRUE]]
              /\ threadMap' = [threadMap EXCEPT ![p] = t]
              /\ UNCHANGED <<db, verified>>
           \/ /\ threads[t].attached /\ p \in pkgs /\ ~retry
              /\ IF r = "DOWNLOADING" /\ isStopCallback
                 THEN UNCHANGED <<info, db>>
                 ELSE UpdateDownloadInfo(p, IF r = "RETRY" THEN "FAIL" ELSE r)
              /\ threads' = Unlinked([threads EXCEPT ![t].pc = "snap"],
                                     IF r = "FAIL" THEN {p} ELSE {})
              /\ verified' = IF r = "FAIL" THEN verified \ {p} ELSE verified
              /\ UNCHANGED threadMap
        /\ UNCHANGED <<client, op, task, status, serial, network, handed,
                       lost, doubled, overlapped>>

(* UpdateTaskProgress, first half: GetTaskProgress.                        *)
GetTaskProgress(t) ==
    /\ threads[t].pc = "snap"
    /\ IF threads[t].attached /\ pkgs # {}
       THEN threads' = [threads EXCEPT ![t].pc = "record", ![t].snap = CurrentStatus]
       ELSE threads' = AfterReport(t)
    /\ UNCHANGED <<client, op, task, info, status, db, threadMap, serial,
                   network, ghosts>>

(* UpdateTaskProgress, second half: IsProgressChanged, and the submission  *)
(* to the serial queue or, for CANCEL, the call on this thread.            *)
UpdateTaskProgress(t) ==
    /\ threads[t].pc = "record"
    /\ LET s == threads[t].snap
       IN  IF ~threads[t].attached
           THEN threads' = AfterReport(t) /\ UNCHANGED <<status, queue, timed>>
           ELSE IF IsSyncCallback(s) /\ s # status
           THEN /\ status' = s /\ timed' = FALSE
                /\ threads' = [threads EXCEPT ![t].pc = "sync"]
                /\ UNCHANGED queue
           ELSE RecordAndSubmit(s) /\ threads' = AfterReport(t)
    /\ UNCHANGED <<client, op, task, info, db, threadMap, worker, network,
                   ghosts>>

(* The CANCEL callback made by a thread that saw it first.                 *)
ThreadSyncCallback(t) ==
    /\ threads[t].pc = "sync"
    /\ CallbackMutexFree
    /\ IF CallbackAllowed(threads[t].snap)
       THEN /\ DealCallBack(threads[t].snap)
            /\ IF NeedsRemove(threads[t].snap)
               THEN threads' = [threads EXCEPT ![t].pc = "remove"]
               ELSE threads' = AfterReport(t)
       ELSE threads' = AfterReport(t) /\ UNCHANGED <<inMap, handed, lost, fw, alive>>
    /\ UNCHANGED <<downloadTaskId, want, requests, tidy, op, hasCallback,
                   isStopDownloadingCallback, isStopCallback, pkgs, info,
                   status, db, threadMap, serial, network, verified, doubled,
                   overlapped>>

ThreadRemove(t) ==
    /\ threads[t].pc = "remove" /\ MapMutexFree
    /\ FinishRemove(threads[t].snap, fw, AfterReport(t))
    /\ UNCHANGED <<alive, want, requests, tidy, op, isStopDownloadingCallback,
                   isStopCallback, info, status, threadMap, serial, network,
                   handed, lost, doubled, overlapped>>

-----------------------------------------------------------------------------
(* The serial callback queue                                               *)

TakeCallback_mut ==
    /\ worker.pc = "idle" /\ queue # <<>>
    /\ queue' = Tail(queue)
    /\ worker' = IF IsTaskCompleted(CurrentStatus) THEN IdleWorker
                 ELSE [pc |-> "call", status |-> Head(queue)]
    /\ UNCHANGED <<client, op, task, info, status, db, pool, timed, network,
                   ghosts>>

(* The queued callback: discarded if the task was cancelled meanwhile.     *)
TakeCallback ==
    /\ worker.pc = "idle" /\ queue # <<>>
    /\ queue' = Tail(queue)
    /\ worker' = IF IsSyncCallback(CurrentStatus) THEN IdleWorker
                 ELSE [pc |-> "call", status |-> Head(queue)]
    /\ UNCHANGED <<client, op, task, info, status, db, pool, timed, network,
                   ghosts>>

(* The ten-second report: only a running status, and submitted again.      *)
TimedTask ==
    /\ worker.pc = "idle" /\ timed
    /\ timed' = ~IsTaskCompleted(CurrentStatus)
    /\ worker' = IF IsTaskCompleted(CurrentStatus) THEN IdleWorker
                 ELSE [pc |-> "call", status |-> CurrentStatus]
    /\ UNCHANGED <<client, op, task, info, status, db, pool, queue, network,
                   ghosts>>

(* CallbackProgress takes callbackMutex_ and CallbackProgressLocked makes  *)
(* its checks; neither looks at them again.                                *)
CallbackProgress ==
    /\ worker.pc = "call"
    /\ CallbackMutexFree
    /\ worker' = IF CallbackAllowed(worker.status)
                 THEN [worker EXCEPT !.pc = "deal"] ELSE IdleWorker
    /\ UNCHANGED <<client, op, task, info, status, db, pool, queue, timed,
                   network, ghosts>>

(* DealCallBack and the firmware's handling up to its call of RemoveTask.  *)
WorkerDealCallBack ==
    /\ worker.pc = "deal"
    /\ DealCallBack(worker.status)
    /\ worker' = IF NeedsRemove(worker.status)
                 THEN [worker EXCEPT !.pc = "remove"] ELSE IdleWorker
    /\ UNCHANGED <<downloadTaskId, want, requests, tidy, op, hasCallback,
                   isStopDownloadingCallback, isStopCallback, pkgs, info,
                   status, db, pool, queue, timed, network, verified, doubled,
                   overlapped>>

(* RemoveTask from inside the callback needs downloadTaskMapMutex_ while   *)
(* callbackMutex_ is still held.                                           *)
WorkerRemove ==
    /\ worker.pc = "remove" /\ MapMutexFree
    /\ FinishRemove(worker.status, fw, threads)
    /\ worker' = IdleWorker
    /\ UNCHANGED <<alive, want, requests, tidy, op, isStopDownloadingCallback,
                   isStopCallback, info, status, threadMap, queue, timed,
                   network, handed, lost, doubled, overlapped>>

-----------------------------------------------------------------------------

RecoveredStatus_mut(s) == s

(* NotifyRecoverCompleted: what had not ended and was not paused by hand   *)
(* becomes AUTO_PAUSE.                                                     *)
RecoveredStatus(s) ==
    IF IsCompleted(s) \/ s = "PAUSE" THEN s ELSE "AUTO_PAUSE"

(* Power loss, then RestoreDownloadTask: the rows make up the task; unless *)
(* it is complete, what was running becomes AUTO_PAUSE.  The firmware      *)
(* turns DOWNLOADING into DOWNLOAD_PAUSE at boot.  Registering with        *)
(* NetManager makes it call back if the network is there, which enables    *)
(* the ten-second report again; this call is part of the step.             *)
Restart ==
    /\ op.kind \in CrashPoints
    /\ LET rows == {p \in Packages : db[p] # "none"}
           complete == IsFinal(TaskStatus([p \in rows |-> db[p]]))
           restored == [p \in Packages |->
                          IF p \notin rows THEN "INIT"
                          ELSE IF complete THEN db[p] ELSE RecoveredStatus(db[p])]
       IN  /\ pkgs' = rows
           /\ inMap' = (rows # {})
           /\ info' = [p \in Packages |-> [status |-> restored[p], retryTimes |-> 0]]
           /\ db' = [p \in Packages |-> IF p \in rows THEN restored[p] ELSE "none"]
           /\ status' = TaskStatus([p \in rows |-> restored[p]])
           /\ queue' = IF rows = {} \/ complete THEN <<>> ELSE <<status'>>
           /\ timed' = (net /\ rows # {} /\ ~complete)
    /\ fw' = IF fw = "DOWNLOADING" THEN "DOWNLOAD_PAUSE" ELSE fw
    /\ alive' = FALSE /\ want' = "none" /\ tidy' = FALSE /\ requests' = requests
    /\ op' = NoOp
    /\ hasCallback' = FALSE
    /\ isStopDownloadingCallback' = FALSE /\ isStopCallback' = FALSE
    /\ threads' = [t \in ThreadIds |-> FreeThread]
    /\ threadMap' = [p \in Packages |-> 0]
    /\ worker' = IdleWorker
    /\ handed' = "INIT" /\ lost' = FALSE
    /\ notify' = FALSE
    /\ UNCHANGED <<downloadTaskId, net, verified, doubled, overlapped>>

FirmwareNext ==
    \/ NewVersionFound \/ PerformDownload \/ PerformResumeDownload
    \/ ReportFinishedDownload \/ ResumeRunningFails
    \/ DoCancel \/ DoCancelCleanUp

ManagerNext ==
    \/ StartTask \/ (\E p \in Packages : StartPackage(p)) \/ EnsureInsert
    \/ ResumeTask \/ ResumeMissingTask
    \/ (\E p \in Packages : ResumePackage(p)) \/ ResumeFinish
    \/ CancelTask \/ (\E p \in Packages : CancelPackage(p))
    \/ CancelRecord \/ CancelCallback \/ CancelFinish
    \/ OnNetAvailable \/ OnNetIgnored \/ OnNetLost
    \/ (\E p \in Packages : NetPausePackage(p)) \/ NetLostFinish

ThreadNext(t) ==
    \/ DownloadVersion(t) \/ DoDownload(t) \/ DoVerify(t)
    \/ CheckStopFlag(t) \/ RemoveThread(t) \/ UpdateDownloadProgress(t)
    \/ GetTaskProgress(t) \/ UpdateTaskProgress(t)
    \/ ThreadSyncCallback(t) \/ ThreadRemove(t)

WorkerNext ==
    \/ TakeCallback \/ TimedTask
    \/ CallbackProgress \/ WorkerDealCallBack \/ WorkerRemove

Next ==
    \/ FirmwareNext
    \/ ManagerNext
    \/ \E t \in ThreadIds : ThreadNext(t)
    \/ WorkerNext
    \/ NetChanges
    \/ Restart

-----------------------------------------------------------------------------
(* Properties                                                              *)

(* Every variable has its type; in particular retryTimes stays within the  *)
(* limit of IsRetryAble and no callback is queued beyond the bound.        *)
TypeOK ==
    /\ fw \in {"NO_TASK", "CHECK_VERSION_SUCCESS", "DOWNLOADING", "DOWNLOAD_PAUSE",
               "DOWNLOAD_SUCCESS", "DOWNLOAD_FAIL"}
    /\ {downloadTaskId, alive, tidy, inMap, hasCallback, isStopDownloadingCallback,
        isStopCallback, timed, net, notify, lost, overlapped} \subseteq BOOLEAN
    /\ want \in {"none", "start", "resume"}
    /\ op \in [kind : {"none", "start", "resume", "cancel", "net"},
              todo : SUBSET Packages, pc : {"loop", "record", "sync"}]
    /\ pkgs \subseteq Packages /\ verified \subseteq Packages /\ doubled \subseteq Packages
    /\ info \in [Packages -> [status : DownloadStatuses, retryTimes : 0..maxRetryTimes]]
    /\ {status, handed} \subseteq DownloadStatuses
    /\ requests \in [DOMAIN Budget -> Nat]
    /\ \A r \in DOMAIN Budget : requests[r] <= Budget[r]
    /\ db \in [Packages -> DownloadStatuses \cup {"none"}]
    /\ threads \in [ThreadIds -> [pc : {"free", "submitted", "running", "verifying",
                                       "check", "leave", "update", "snap", "record", "sync",
                                       "remove"},
                                 pkg : Packages, status : DownloadStatuses,
                                 cancel : BOOLEAN, autoPause : BOOLEAN,
                                 attached : BOOLEAN, gone : BOOLEAN,
                                 report : DownloadStatuses \cup {"RETRY"},
                                 snap : DownloadStatuses]]
    /\ threadMap \in [Packages -> ThreadIds \cup {0}]
    /\ queue \in Seq(DownloadStatuses) /\ Len(queue) <= MaxQueue
    /\ worker \in [pc : {"idle", "call", "deal", "remove"}, status : DownloadStatuses]

(* A firmware task that is DOWNLOAD_SUCCESS has every package on disk, and *)
(* every one of them passed sha256: what FirmwareInstallExecutor relies on *)
(* when it installs without looking at the download again.  The exception  *)
(* is a package Resume gave a second thread while the first was at work:   *)
(* one of them may fail, and delete the file, after the other verified it; *)
(* and a download that began before the clean-up of the one before, which  *)
(* deletes every file, was done.                                           *)
SuccessMeansAllVerified ==
    fw = "DOWNLOAD_SUCCESS" /\ op.kind # "cancel" /\ ~tidy =>
        Packages \subseteq verified \cup doubled \/ overlapped

(* While a task is in the map, a package that counts as running has a      *)
(* thread that will report on it, also while Resume starts the threads.    *)
RunningHasThread ==
    \A p \in pkgs :
       inMap /\ ~isStopCallback /\ info[p].status \in {"DOWNLOADING", "VERIFYING"} =>
          \E t \in Live : threads[t].pkg = p /\ threads[t].attached

Quiet ==
    /\ MapMutexFree /\ want = "none" /\ ~tidy
    /\ Live = {} /\ queue = <<>> /\ worker.pc = "idle"

(* When nothing is left to run (no thread, no queued callback, no call     *)
(* into the engine), the firmware task is not DOWNLOADING: every end of a  *)
(* thread, whatever IsProgressChanged compared it with, reaches the        *)
(* firmware.  The exceptions are a cancelled task, an end DealCallBack     *)
(* dropped or Resume recorded itself, and a download that began before the *)
(* clean-up of the one before, which takes its task out of the map.        *)
QuietIsNotDownloading ==
    Quiet /\ fw = "DOWNLOADING" => lost \/ isStopCallback \/ overlapped

(* A row that says SUCCESS names a package that is on disk and passed      *)
(* sha256, so RestoreDownloadTask may trust it after a restart; only a     *)
(* cancellation, which deletes the files first, is in between, and the     *)
(* second thread of a package that Resume started beside the first.        *)
PersistedSuccessIsVerified ==
    op.kind # "cancel" =>
        \A p \in Packages : db[p] = "SUCCESS" => p \in verified \cup doubled

(* Once a cancellation returned, the database has no row of the task, and  *)
(* no thread that Stop did not wait for brings one back: otherwise the     *)
(* next boot would restore the cancelled download.                         *)
CancelLeavesNoRow ==
    isStopCallback /\ MapMutexFree => \A p \in Packages : db[p] = "none"

(* After SUCCESS, FAIL or CANCEL nothing is handed to the business         *)
(* callback until the task is started or resumed again, although a thread  *)
(* that took its snapshot before the end may queue it after the end:       *)
(* DealCallBack takes the task out of the map before it calls back.        *)
FinalIsFinal ==
    [][IsFinal(handed) => handed' \in {handed, "INIT"}]_vars

(* A package is never downloaded by two threads at once, into one file:    *)
(* Resume skips a package whose thread exists.  It does not hold after a   *)
(* network pause; no run claims it, the README has the bounds and the trace. *)
AtMostOneThreadPerPackage ==
    \A t, u \in Live :
       threads[t].pkg = threads[u].pkg /\ {threads[t].pc, threads[u].pc} = {"running"} =>
          t = u \/ threads[t].cancel \/ threads[u].cancel

(* When nothing is left to run, the firmware task is not DOWNLOADING, not  *)
(* even after DealCallBack ignored a callback: it does so because "the     *)
(* task was cancelled or completed" (download_task_manager.cpp:291).  It    *)
(* does not hold; no run claims it, the README has the bounds and the trace. *)
NeverStuckDownloading ==
    Quiet => fw # "DOWNLOADING"

Spec == Init /\ [][Next]_vars

(* The call that waits for the map mutex gets it, and the operation that   *)
(* holds it goes on; a submitted thread runs (a request that stalls is     *)
(* ended by curl's low-speed limit); the handler of a network event runs;  *)
(* the worker of the serial queue gives every entry its turn.  Each is one *)
(* sequential thread: what it does next is one of its disjuncts.           *)
CallStep == StartTask \/ ResumeTask \/ ResumeMissingTask
HolderStep ==
    \/ EnsureInsert \/ ResumeFinish \/ NetLostFinish
    \/ CancelRecord \/ CancelCallback \/ CancelFinish
    \/ \E p \in Packages : \/ StartPackage(p) \/ ResumePackage(p)
                          \/ CancelPackage(p) \/ NetPausePackage(p)
NetHandlerStep == OnNetAvailable \/ OnNetIgnored \/ OnNetLost
WorkerGoesOn == CallbackProgress \/ WorkerDealCallBack \/ WorkerRemove

Fairness ==
    /\ WF_vars(CallStep) /\ WF_vars(HolderStep) /\ WF_vars(DoCancelCleanUp)
    /\ WF_vars(NetHandlerStep)
    /\ \A t \in ThreadIds : WF_vars(ThreadNext(t))
    /\ SF_vars(TakeCallback) /\ WF_vars(WorkerGoesOn)

FairSpec == Spec /\ Fairness

(* A download the firmware believes to be running comes to an end (paused, *)
(* failed, succeeded or cancelled), retries of HandleRetry included,       *)
(* unless DealCallBack dropped one of its callbacks.                       *)
DownloadEnds ==
    fw = "DOWNLOADING" ~> fw # "DOWNLOADING" \/ lost

(* DownloadTaskManager::Cancel, once begun, returns to its caller: the     *)
(* callback it waits for does not wait for it.                             *)
CancelReturns ==
    op.kind = "cancel" ~> op.kind # "cancel"

=============================================================================
