---------------------------- MODULE StreamInstall ----------------------------
(***************************************************************************)
(* The streamed install: the package is not stored, a worker thread        *)
(* downloads it and hands it block by block to the system installer, which *)
(* reports the bytes it has dealt with; the sum of the reports, the record *)
(* point, is kept in the component's row, and a later attempt resumes the  *)
(* transfer there.  Modelled are FirmwareStreamInstallApplyMode, the       *)
(* stream paths of the install executor, StreamInstallerInstall with its   *)
(* retries, its wait and its destructor, StreamProgressThread with its     *)
(* buffer, ProgressThread's start, stop and join, the callbacks of the     *)
(* installer, and the restart of the service.                              *)
(*                                                                         *)
(* A version has one package of Size bytes.  One install runs at a time    *)
(* (ServiceCalls has the window in which two can start).  The system       *)
(* installer and curl are external: the installer accepts blocks while a   *)
(* stream session is open, deals with them in order, may fail and may      *)
(* report late; a transfer may break at any point.                         *)
(***************************************************************************)
EXTENDS Integers, Sequences, FiniteSetsExt

CONSTANTS Size,            \* the bytes of the package
          BufferRoom,      \* BUFFER_SIZE - 1
          Chunks,          \* the bytes curl hands over in one call, but for the last
          MaxRetryCount,   \* MAX_RETRY_COUNT
          IntMax,          \* the greatest int, the type PutInt stores
          Asked,           \* the orders of the clients' calls
          MaxQueue,        \* blocks the installer accepts before it blocks
          MaxCalls,        \* bound on the upgrade calls
          MaxFaults        \* bound on the restarts and the failures of curl_easy_init

ASSUME SizesAssumption ==
    /\ {Size, BufferRoom, MaxRetryCount, IntMax, MaxQueue} \cup Chunks \subseteq Nat \ {0}
    /\ {MaxCalls, MaxFaults} \subseteq Nat
    /\ Asked \subseteq {"INSTALL", "APPLY", "INSTALL_AND_APPLY"}

VARIABLES task,       \* the status in the task's row, "none" once it is deleted
          point,      \* recordPoint in the component's row
          main,       \* the flow: its step, its order, retry, the live frame's record point,
                      \* and the executor's taskProgress_ from the result on
          dl,         \* downloadProgress_.status
          sys,        \* sysInstallProgress_.status
          worker,     \* the StreamProgressThread that downloadThread_ holds
          inst,       \* the system installer
          report,     \* the installer's callback under way
          bounds,     \* calls and faults so far
          seen        \* what has happened, for the properties: two attempts mixed up (the
                      \* thread or a report of one in the session of the next), a block
                      \* out of place or past a gap although they were not, a record
                      \* point that overflowed, an install interrupted, a report that
                      \* took the result out of taskProgress_

vars == <<task, point, main, dl, sys, worker, inst, report, bounds, seen>>

Orders == {"INSTALL", "APPLY", "INSTALL_AND_APPLY"}
Steps == {"idle", "mode", "write", "start", "session", "join", "wait", "failed",
          "result", "record", "next", "destroy", "apply", "rebooted", "down"}
Happenings == {"mixed", "misfed", "gap", "wrapped", "interrupted", "unrecorded"}
Results == {"INSTALL_SUCCESS", "INSTALL_PAUSE", "INSTALL_FAIL"}

\* What a 32-bit int keeps of a 64-bit count (ValuesBucket::PutInt).
PutInt(n) == ((n + IntMax + 1) % (2 * IntMax + 2)) - (IntMax + 1)

\* CURLOPT_RESUME_FROM_LARGE, set only for a positive point.
ResumeFrom(n) == Max({0, Min({n, Size})})

NoReport == [len |-> -1, status |-> "INIT", late |-> FALSE]
NoWorker == [st |-> "none", off |-> 0, downloadedSize |-> 0, bufferPos |-> 0, left |-> 0,
             total |-> FALSE, exit |-> FALSE, wake |-> FALSE, again |-> FALSE, end |-> "INIT"]
Idle == [pc |-> "idle", order |-> "INSTALL", asked |-> "INSTALL", retry |-> 0, ok |-> FALSE,
         recordPoint |-> 0, taskProgress |-> "INIT"]
Closed == [up |-> FALSE, heard |-> FALSE, next |-> 0, queue |-> <<>>, dealt |-> 0]

\* StopStreamUpdate.
StreamStopped == [inst EXCEPT !.up = FALSE, !.next = 0, !.queue = <<>>]

\* The worker runs: it is past the wait of its loop and has not ended.
Running == worker.st \in {"head", "get", "write", "report"}

\* QuitDownloadThread holds the worker's mutex while it joins it.
Joining == main.pc \in {"join", "destroy"}

TypeOK ==
    /\ task \in {"none", "CHECK_VERSION_SUCCESS", "INSTALLING", "INSTALL_SUCCESS",
                 "INSTALL_FAIL", "INSTALL_PAUSE"}
    /\ point \in -(IntMax + 1) .. IntMax
    /\ main \in [pc : Steps, order : Orders, asked : Orders \cup {"RESTORED"}, retry : 0 .. MaxRetryCount,
                 ok : BOOLEAN, recordPoint : Int, taskProgress : {"INIT", "INSTALLING"} \cup Results]
    /\ dl \in {"INIT", "DOWNLOAD_SUCCESS", "DOWNLOAD_FAIL", "DOWNLOAD_CANCEL"}
    /\ sys \in {"INIT", "INSTALLING", "INSTALL_SUCCESS", "INSTALL_FAIL"}
    /\ worker \in [st : {"none", "lock", "head", "get", "write", "report", "ended"},
                   off : 0 .. Size, downloadedSize : Int, bufferPos : 0 .. BufferRoom,
                   left : 0 .. Size, total : BOOLEAN, exit : BOOLEAN, wake : BOOLEAN, again : BOOLEAN,
                   end : {"INIT", "DOWNLOAD_SUCCESS", "DOWNLOAD_FAIL", "DOWNLOAD_CANCEL"}]
    /\ {inst.up, inst.heard} \subseteq BOOLEAN /\ inst.next \in 0 .. Size /\ inst.dealt \in 0 .. Size
    /\ \A i \in DOMAIN inst.queue : inst.queue[i] \in [start : 0 .. Size, len : 1 .. BufferRoom]
    /\ report \in [len : -1 .. BufferRoom, late : BOOLEAN,
                   status : {"INIT", "INSTALLING", "INSTALL_SUCCESS", "INSTALL_FAIL"}]
    /\ bounds \in [calls : 0 .. MaxCalls, faults : 0 .. MaxFaults]
    /\ seen \subseteq Happenings

Init ==
    /\ task = "CHECK_VERSION_SUCCESS"
    /\ point = 0
    /\ main = Idle
    /\ dl = "INIT" /\ sys = "INIT"
    /\ worker = NoWorker
    /\ inst = Closed
    /\ report = NoReport
    /\ bounds = [calls |-> 0, faults |-> 0]
    /\ seen = {}

-----------------------------------------------------------------------------
(* The flow: the manager, the mode, the executor and the installer object. *)

Step(pc) == main' = [main EXCEPT !.pc = pc]

\* DoSysInstall returns: its copy of the component is gone.
FrameGone == [main EXCEPT !.recordPoint = 0]

\* FirmwareManager::CanInstall for a streamed version.
CanInstall == task # "INSTALLING"

\* FirmwareManager::DoInstall, from a client's call; a call that CanInstall
\* refuses returns without a trace.
DoInstall(order) ==
    /\ main.pc = "idle" /\ task # "none"
    /\ bounds.calls < MaxCalls
    /\ CanInstall
    /\ main' = [Idle EXCEPT !.pc = "mode", !.order = order, !.asked = order]
    /\ bounds' = [bounds EXCEPT !.calls = @ + 1]
    /\ UNCHANGED <<task, point, dl, sys, worker, inst, report, seen>>

\* GetStepAfterInit with GetStepForInstallAndApplyOrder.
GetStepAfterInit ==
    /\ main.pc = "mode"
    /\ IF main.order = "APPLY" THEN Step("apply")
       ELSE \E allowed \in BOOLEAN :       \* IsAllowInstall: network, battery, idleness
                Step(IF allowed THEN "write" ELSE "idle")
    /\ UNCHANGED <<task, point, dl, sys, worker, inst, report, bounds, seen>>

\* FirmwareInstallExecutor::DoInstall up to StartInstall; a new
\* StreamInstallerInstall is made, without a thread.
WriteInstalling ==
    /\ main.pc = "write"
    /\ task' = "INSTALLING"
    /\ main' = [main EXCEPT !.pc = "start", !.retry = 0]
    /\ seen' = seen \ {"interrupted", "unrecorded"}
    /\ UNCHANGED <<point, dl, sys, worker, inst, report, bounds>>

\* InstallComponentWithRetry reads the component again and DoSysInstall starts:
\* the last session is closed and both statuses are reset.
DoSysInstall ==
    /\ main.pc = "start"
    /\ inst' = StreamStopped
    /\ dl' = "INIT" /\ sys' = "INIT"
    /\ main' = [main EXCEPT !.pc = "session", !.recordPoint = point]
    /\ UNCHANGED <<task, point, worker, report, bounds, seen>>

\* InitSysInstaller, SetInstallerCallback and StartStreamUpdate, each of which
\* may fail.  The thread of the last attempt may still run.
StartStreamUpdate ==
    /\ main.pc = "session"
    /\ \/ /\ inst' = [inst EXCEPT !.up = TRUE, !.heard = TRUE,
                                      !.next = ResumeFrom(main.recordPoint)]
          /\ seen' = IF Running THEN seen \cup {"mixed"} ELSE seen
          /\ Step("join")
       \/ /\ main' = [FrameGone EXCEPT !.pc = "failed"]
          /\ UNCHANGED <<inst, seen>>
    /\ UNCHANGED <<task, point, dl, sys, worker, report, bounds>>

\* The assignment of downloadThread_ destroys, and so joins, the thread of the
\* last attempt; then StartDownload.  The mutex is held during the join.
StartDownload ==
    /\ main.pc = "join"
    /\ worker.st \in {"none", "ended"}
    /\ worker' = [NoWorker EXCEPT !.st = "lock", !.wake = TRUE,
                                  !.downloadedSize = main.recordPoint]
    /\ Step("wait")
    /\ UNCHANGED <<task, point, dl, sys, inst, report, bounds, seen>>

\* StopDownload and StopStreamUpdate at the end of WaitInstallResult; the frame
\* the installer's callback refers to goes with the return of DoSysInstall.
StopBoth ==
    /\ worker' = IF worker.st = "ended" THEN worker ELSE [worker EXCEPT !.exit = TRUE, !.wake = TRUE]
    /\ inst' = StreamStopped
    /\ report' = IF report = NoReport THEN report ELSE [report EXCEPT !.late = TRUE]
    /\ seen' = IF worker.st = "ended" THEN seen ELSE seen \cup {"interrupted"}

\* The predicate of the wait.
HasResult == sys \in {"INSTALL_SUCCESS", "INSTALL_FAIL"} \/ dl \in {"DOWNLOAD_FAIL", "DOWNLOAD_CANCEL"}

\* WaitInstallResult wakes with a result.
WaitInstallResult ==
    /\ main.pc = "wait" /\ HasResult
    /\ main' = IF sys = "INSTALL_SUCCESS" THEN [FrameGone EXCEPT !.pc = "result", !.ok = TRUE]
                                          ELSE [FrameGone EXCEPT !.pc = "failed"]
    /\ StopBoth
    /\ UNCHANGED <<task, point, dl, sys, bounds>>

\* WaitInstallResult times out.
WaitTimesOut ==
    /\ main.pc = "wait" /\ ~HasResult
    /\ main' = [FrameGone EXCEPT !.pc = "failed"]
    /\ StopBoth
    /\ UNCHANGED <<task, point, dl, sys, bounds>>

\* InstallComponentWithRetry after a failure: a cancelled download is not tried again.
InstallComponentWithRetry ==
    /\ main.pc = "failed"
    /\ main' = IF dl = "DOWNLOAD_CANCEL" THEN [main EXCEPT !.pc = "result"]
               ELSE [main EXCEPT !.retry = @ + 1,
                                 !.pc = IF main.retry + 1 < MaxRetryCount THEN "start" ELSE "result"]
    /\ UNCHANGED <<task, point, dl, sys, worker, inst, report, bounds, seen>>

\* The end of PerformInstall and the first half of HandleInstallResult.  If the
\* installer failed, PerformInstall leaves StartInstall's uninitialised status
\* as it is.
HandleInstallResult ==
    /\ main.pc = "result"
    /\ \E result \in IF main.ok THEN {"INSTALL_SUCCESS"}
                      ELSE IF sys = "INSTALL_FAIL" THEN {"INSTALL_PAUSE", "INSTALL_FAIL"}
                      ELSE IF dl = "DOWNLOAD_CANCEL" THEN {"INSTALL_PAUSE"} ELSE {"INSTALL_FAIL"} :
         main' = [main EXCEPT !.pc = "record", !.taskProgress = result]
    /\ UNCHANGED <<task, point, dl, sys, worker, inst, report, bounds, seen>>

\* The row gets what taskProgress_ holds by now.
UpdateProgressByTaskId ==
    /\ main.pc = "record"
    /\ task' = main.taskProgress
    /\ Step("next")
    /\ UNCHANGED <<point, dl, sys, worker, inst, report, bounds, seen>>

\* The version is installed and the flow goes on to APPLY_STEP.
Applies ==
    task = "INSTALL_SUCCESS" /\ main.taskProgress = "INSTALL_SUCCESS" /\ main.order = "INSTALL_AND_APPLY"

\* OnInstallCallback: taskProgress_ is read once more.  SetInstallResult tells
\* the client; INSTALLING ends there and the flow never goes on.  Any other
\* status leads to GetStepAfterInstall: a failed install clears the tables
\* (ClearFirmwareInfo).
GetStepAfterInstall ==
    /\ main.pc = "next"
    /\ IF main.taskProgress # "INSTALLING" /\ task = "INSTALL_FAIL"
       THEN task' = "none" /\ point' = 0 ELSE UNCHANGED <<task, point>>
    /\ Step("destroy")
    /\ UNCHANGED <<dl, sys, worker, inst, report, bounds, seen>>

\* The installer object goes with the executor's StartInstall: its destructor
\* joins the last thread.  A report that is later still finds no object whose
\* members the flow reads.
Destroy ==
    /\ main.pc = "destroy"
    /\ worker.st \in {"none", "ended"}
    /\ worker' = NoWorker /\ dl' = "INIT" /\ sys' = "INIT"
    /\ main' = IF Applies THEN [main EXCEPT !.pc = "apply"] ELSE Idle
    /\ report' = NoReport
    /\ inst' = [inst EXCEPT !.heard = FALSE]
    /\ UNCHANGED <<task, point, bounds, seen>>

\* FirmwareApplyExecutor::DoInstall, on a thread of its own.
DoReboot ==
    /\ main.pc = "apply" \/ (main.pc = "destroy" /\ Applies)
    /\ Step("rebooted")
    /\ UNCHANGED <<task, point, dl, sys, worker, inst, report, bounds, seen>>

\* The service dies.
Crash ==
    /\ main.pc \notin {"down", "rebooted"}
    /\ bounds.faults < MaxFaults
    /\ bounds' = [bounds EXCEPT !.faults = @ + 1]
    /\ main' = [Idle EXCEPT !.pc = "down"]
    /\ dl' = "INIT" /\ sys' = "INIT"
    /\ worker' = NoWorker
    /\ report' = NoReport
    /\ inst' = [inst EXCEPT !.heard = FALSE]
    /\ UNCHANGED <<task, point, seen>>

\* RestoreUpdate with HandleBootInstallOnStatusProcess: an install that was
\* under way is paused and started again, with the order INSTALL_AND_APPLY.
Restart ==
    /\ main.pc = "down"
    /\ IF task = "INSTALLING"
       THEN /\ task' = "INSTALL_PAUSE"
            /\ main' = [Idle EXCEPT !.pc = "mode", !.order = "INSTALL_AND_APPLY", !.asked = "RESTORED"]
            /\ seen' = seen \cup {"interrupted"}
       ELSE /\ main' = Idle
            /\ UNCHANGED <<task, seen>>
    /\ UNCHANGED <<point, dl, sys, worker, inst, report, bounds>>

-----------------------------------------------------------------------------
(* The worker: ProgressThread's loop and StreamProgressThread.             *)

Work(w) == worker' = w /\ UNCHANGED <<task, point, main, bounds>>

\* ProcessThreadExecute is left with this status still to be told.
Ends(status) == [worker EXCEPT !.st = "report", !.end = status, !.total = FALSE]

\* ExecuteThreadFunc: the thread needs the mutex, which a joiner holds, and
\* waits until it is woken, by StopProgress too.  Then ProcessThreadExecute
\* begins; if curl_easy_init fails, it is told and the thread loops.
ExecuteThreadFunc ==
    /\ worker.st = "lock" /\ worker.wake /\ ~Joining
    /\ \/ Work([worker EXCEPT !.st = "head", !.wake = FALSE, !.again = FALSE])
       \/ /\ bounds.faults < MaxFaults
          /\ bounds' = [bounds EXCEPT !.faults = @ + 1]
          /\ worker' = [Ends("DOWNLOAD_FAIL") EXCEPT !.wake = FALSE, !.again = TRUE]
          /\ UNCHANGED <<task, point, main>>
    /\ UNCHANGED <<dl, sys, inst, report, seen>>

\* The transfer is not resumed.
CheckFileSize_norange ==
    /\ worker.st = "head"
    /\ Work([worker EXCEPT !.st = "get", !.off = 0]) \/ Work(Ends("DOWNLOAD_FAIL"))
    /\ UNCHANGED <<dl, sys, inst, report, seen>>

\* Another length is told as a cancelled download.
CheckFileSize_mut ==
    /\ worker.st = "head"
    /\ \/ Work([worker EXCEPT !.st = "get", !.off = ResumeFrom(worker.downloadedSize)])
       \/ Work(Ends("DOWNLOAD_CANCEL"))
    /\ UNCHANGED <<dl, sys, inst, report, seen>>

\* CheckFileSize: no headers, no length or another length.  The request has no
\* timeout, and StopDownload does not reach it.
CheckFileSize ==
    /\ worker.st = "head"
    /\ \/ Work([worker EXCEPT !.st = "get", !.off = ResumeFrom(worker.downloadedSize)])
       \/ Work(Ends("DOWNLOAD_FAIL"))
    /\ UNCHANGED <<dl, sys, inst, report, seen>>

\* curl hands a chunk to WriteFunc.
Receive(n) ==
    /\ worker.st = "get" /\ n \in Chunks \cup {Size - worker.off} /\ worker.off + n <= Size
    /\ Work([worker EXCEPT !.st = "write", !.left = n])
    /\ UNCHANGED <<dl, sys, inst, report, seen>>

\* The block WriteFunc hands over: the last n bytes before offset off.
Block(off, n) == [start |-> off - n, len |-> n]

\* One turn of the loop of WriteFunc, up to the test of the buffer.
Filled ==
    LET n == Min({BufferRoom - worker.bufferPos, worker.left})
    IN  [worker EXCEPT !.bufferPos = @ + n, !.left = @ - n,
                       !.off = @ + n, !.downloadedSize = @ + n,
                       !.st = IF worker.left = n THEN "get" ELSE "write"]

\* The buffer is full, or the package complete.
MustFlush(w) == w.bufferPos = BufferRoom \/ w.downloadedSize = Size

\* One turn of the loop of WriteFunc; ProcessStreamData fails without a session,
\* and may fail with one.
WriteFunc ==
    /\ worker.st = "write"
    /\ IF MustFlush(Filled)
       THEN LET b == Block(Filled.off, Filled.bufferPos)
            IN  \/ /\ inst.up /\ Len(inst.queue) < MaxQueue
                   /\ inst' = [inst EXCEPT !.queue = Append(@, b), !.next = b.start + b.len]
                   /\ seen' = IF b.start = inst.next \/ "mixed" \in seen THEN seen ELSE seen \cup {"misfed"}
                   /\ Work([Filled EXCEPT !.bufferPos = 0])
                \/ /\ Work(Ends("DOWNLOAD_CANCEL"))
                   /\ seen' = seen \cup {"interrupted"}
                   /\ UNCHANGED inst
       ELSE Work(Filled) /\ UNCHANGED <<inst, seen>>
    /\ UNCHANGED <<dl, sys, report>>

\* The answer's header gives the length of what follows: dlTotal is positive
\* from then on.  A server may send none.
HeadersCome ==
    /\ worker.st = "get" /\ ~worker.total
    /\ Work([worker EXCEPT !.total = TRUE])
    /\ UNCHANGED <<dl, sys, inst, report, seen>>

\* curl_easy_perform ends: complete, or broken.
DownloadFile ==
    /\ worker.st = "get"
    /\ \/ worker.off = Size /\ Work(Ends("DOWNLOAD_SUCCESS")) /\ UNCHANGED seen
       \/ Work(Ends("DOWNLOAD_CANCEL")) /\ seen' = seen \cup {"interrupted"}
    /\ UNCHANGED <<dl, sys, inst, report>>

\* The flag is never looked at.
DownloadProgress_mut == worker.st = "get" /\ FALSE /\ UNCHANGED vars

\* curl calls DownloadProgress every second, and it aborts the transfer once
\* exitDownload_ is set; but while dlTotal is not positive it returns before
\* it looks.
DownloadProgress ==
    /\ worker.st = "get" /\ worker.total /\ worker.exit
    /\ Work(Ends("DOWNLOAD_CANCEL"))
    /\ UNCHANGED <<dl, sys, inst, report, seen>>

\* DownloadCallback and the lambda of StartInstallProcess.
DownloadCallback ==
    /\ worker.st = "report"
    /\ dl' = worker.end
    /\ Work(IF worker.again THEN [worker EXCEPT !.st = "lock"] ELSE [NoWorker EXCEPT !.st = "ended"])
    /\ UNCHANGED <<sys, inst, report, seen>>

-----------------------------------------------------------------------------
(* The system installer and its callbacks.                                 *)

\* The installer deals with the next n bytes and reports them; once it has the
\* whole package it may say so.  The callback goes with the process that set it.
Deal(n) ==
    /\ inst.up /\ inst.queue # <<>> /\ report = NoReport
    /\ LET b == Head(inst.queue)
           e == b.start + n
       IN  /\ n <= b.len
           /\ inst' = [inst EXCEPT
                !.queue = IF n = b.len THEN Tail(@) ELSE <<Block(b.start + b.len, b.len - n)>> \o Tail(@),
                !.dealt = IF b.start <= @ THEN Max({@, e}) ELSE @]
           /\ seen' = IF b.start <= inst.dealt \/ "mixed" \in seen THEN seen ELSE seen \cup {"gap"}
           /\ \E s \in {"INSTALLING"} \cup
                       (IF e = Size /\ inst'.dealt = Size THEN {"INSTALL_SUCCESS"} ELSE {}) :
                report' = IF inst.heard THEN [len |-> n, status |-> s, late |-> FALSE]
                          ELSE NoReport
    /\ UNCHANGED <<task, point, main, dl, sys, worker, bounds>>

\* The installer gives up.
InstallerFails ==
    /\ inst.up /\ inst.heard /\ report = NoReport
    /\ inst' = StreamStopped
    /\ report' = [len |-> 0, status |-> "INSTALL_FAIL", late |-> FALSE]
    /\ seen' = seen \cup {"interrupted"}
    /\ UNCHANGED <<task, point, main, dl, sys, worker, bounds>>

\* A frame of DoSysInstall is on the stack.
FrameLives == main.pc \in {"session", "join", "wait"}

\* The record point is one past what was dealt with.
CountReport_mut ==
    /\ main' = [main EXCEPT !.recordPoint = @ + report.len + 1]
    /\ point' = PutInt(main.recordPoint + report.len + 1)
    /\ sys' = report.status
    /\ UNCHANGED <<task, seen>>

\* SysInstallerExecutorCallback on the component of the running DoSysInstall,
\* with HandleInstallProgress, which writes the record point and not the task.
CountReport ==
    LET n == main.recordPoint + report.len
    IN  /\ main' = [main EXCEPT !.recordPoint = n]
        /\ point' = PutInt(n)
        /\ sys' = IF (n * 100) \div Size = 100 THEN "INSTALL_SUCCESS" ELSE report.status
        /\ seen' = IF PutInt(n) = n THEN seen ELSE seen \cup {"wrapped"}
        /\ UNCHANGED task

\* OnUpgradeProgress and OnUpgradeDealLen while the frame they refer to lives.
InstallerCallback ==
    /\ report # NoReport /\ ~report.late
    /\ CountReport
    /\ report' = NoReport
    /\ UNCHANGED <<dl, worker, inst, bounds>>

\* A report that comes after its DoSysInstall has returned writes through a
\* dangling reference: into the frame the next attempt has put in its place, or
\* into the dead one, whose count the flow does not read again and which is
\* full only if the installer has everything.  sysInstallProgress_ is still a
\* member, and so is the executor's taskProgress_, which HandleInstallProgress
\* sets to INSTALLING without a lock: from HandleInstallResult on that takes
\* the result away.
LateCallback ==
    /\ report # NoReport /\ report.late
    /\ \/ /\ FrameLives
          /\ LET n == main.recordPoint + report.len
             IN  /\ main' = [main EXCEPT !.recordPoint = n]
                 /\ point' = PutInt(n)
                 /\ sys' = IF (n * 100) \div Size = 100 THEN "INSTALL_SUCCESS" ELSE report.status
          /\ seen' = seen \cup {"mixed"}
       \/ /\ main' = IF main.pc \in {"record", "next"} THEN [main EXCEPT !.taskProgress = "INSTALLING"] ELSE main
          /\ seen' = IF main.pc \in {"record", "next"} THEN seen \cup {"unrecorded"} ELSE seen
          /\ sys' \in {report.status} \cup (IF inst.dealt = Size THEN {"INSTALL_SUCCESS"} ELSE {})
          /\ UNCHANGED point
    /\ report' = NoReport
    /\ UNCHANGED <<task, dl, worker, inst, bounds>>

-----------------------------------------------------------------------------
Flow ==
    \/ GetStepAfterInit \/ WriteInstalling \/ DoSysInstall \/ StartStreamUpdate
    \/ StartDownload \/ WaitInstallResult \/ WaitTimesOut \/ InstallComponentWithRetry
    \/ HandleInstallResult \/ UpdateProgressByTaskId \/ GetStepAfterInstall
    \/ Destroy \/ DoReboot \/ Restart

\* The steps of the worker that wait for nobody.
Works == ExecuteThreadFunc \/ WriteFunc \/ DownloadProgress \/ DownloadCallback

\* What curl does when the server answers, or does not: no request of this
\* thread has a time limit.
Transfer ==
    \/ CheckFileSize \/ HeadersCome \/ DownloadFile
    \/ \E n \in 1 .. Size : Receive(n)

Next ==
    \/ \E order \in Asked : DoInstall(order)
    \/ Flow
    \/ Works
    \/ Transfer
    \/ \E n \in 1 .. BufferRoom : Deal(n)
    \/ InstallerFails \/ InstallerCallback \/ LateCallback
    \/ Crash

\* The flow's thread and the worker go on while they can, and the installer's
\* calls return.  Nothing is assumed of the server: it need not answer, nor
\* send another byte; nor of the installer, which need not deal or report.
Spec == Init /\ [][Next]_vars /\ WF_vars(Flow) /\ WF_vars(Works)

-----------------------------------------------------------------------------
(* Properties.                                                             *)

\* The blocks WriteFunc hands to the installer follow one another, from the
\* point the attempt resumed at, as long as two attempts are not mixed up.
BlocksInPlace == "misfed" \notin seen

\* The record point never makes the installer miss a byte: no block begins past
\* what it has dealt with, as long as two attempts are not mixed up.
NoByteSkipped == "gap" \notin seen

\* A version recorded as installed has been dealt with to its last byte, unless
\* two attempts were mixed up and so bytes counted twice or out of place.
SuccessIsWhole == task = "INSTALL_SUCCESS" => inst.dealt = Size \/ "mixed" \in seen

\* A thread that reports the download complete has left nothing in its buffer,
\* unless the record point it resumed at had overflowed the int PutInt stores,
\* or a late report had moved it.
NothingLeftInBuffer ==
    worker.st = "report" /\ worker.end = "DOWNLOAD_SUCCESS"
        => worker.bufferPos = 0 \/ seen \cap {"wrapped", "mixed"} # {}

\* An install is recorded as paused only if the transfer broke, the flow itself
\* stopped the thread, the installer failed or the service restarted: a package
\* the server does not have, or has in another size, never pauses it.
PauseIsExplained == task = "INSTALL_PAUSE" => "interrupted" \in seen

\* The device is restarted only on an order that asks for it, or, on an order to
\* install only, after a restart of the service.
RebootIsAsked == main.pc = "rebooted" => main.asked # "INSTALL"

\* The comment in HandleInstallProgress: the callbacks of the installer do not
\* overwrite a result; only a new install does.
ResultStays ==
    [][(task \in {"INSTALL_SUCCESS", "INSTALL_PAUSE"} /\ main.pc # "write") => task' = task]_vars

\* The rows as whoever reads them knows them.
Rows == INSTANCE StreamRow WITH status <- task, dealt <- inst.dealt, mixed <- "mixed" \in seen

\* The streamed install keeps the promise of its rows, over attempts, late
\* reports, overflows of the record point and restarts: the status moves along
\* the life of an install, the record point HandleInstallProgress writes is
\* never ahead of the installer, a success is of the whole package, and the
\* result stays until the next install.
KeepsRows == Rows!Spec /\ ResultStays

\* The flow waits for a thread that cannot end: one that waits for the headers
\* of a server that does not answer, or for its first or next byte before
\* dlTotal is known, when DownloadProgress does not look at the exit flag, or
\* for the mutex the joiner holds.
JoinIsStuck ==
    Joining /\ (worker.st \in {"head", "lock"} \/ (worker.st = "get" /\ ~worker.total))

\* An install that has begun ends with a result in its row: WaitInstallResult
\* has a limit, StopDownload ends a transfer that has a length, and the joins
\* and retries come to an end.  Otherwise its thread is joined in vain for ever,
\* or a late report took the result out of taskProgress_ before it was written.
InstallEnds ==
    (task = "INSTALLING") ~> (task # "INSTALLING" \/ []JoinIsStuck \/ "unrecorded" \in seen)

\* The installer is given every byte of the package in its place, over attempts,
\* late reports and restarts, as long as two attempts are not mixed up.
StreamInv == TypeOK /\ BlocksInPlace /\ NoByteSkipped /\ NothingLeftInBuffer /\ SuccessIsWhole

\* What the client did not ask for has a reason: a pause and a restart of the
\* device.
StatusIsExplained == PauseIsExplained /\ RebootIsAsked
=============================================================================
