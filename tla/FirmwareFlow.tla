---------------------------- MODULE FirmwareFlow ----------------------------
(***************************************************************************)
(* The firmware layer above the download engine: the flows that check for  *)
(* a version, download it, install it and apply it, the user's and the     *)
(* alarm's requests that start them, and what a restart makes of the rows  *)
(* they left in the database.                                              *)
(*                                                                         *)
(* Every request makes a FirmwareFlowManager of its own; nothing but the   *)
(* status in the task row keeps two flows apart.  A flow decides its first *)
(* step in the thread of the caller and goes on in a thread or ffrt task,  *)
(* so that there is a gap between the test of the status and the first     *)
(* write.  Two flows, the callback thread of the installer, the init       *)
(* thread and a crash may meet in every gap between two database           *)
(* operations that the code has; ClearFirmwareInfo is one step.            *)
(*                                                                         *)
(* The download itself is one step here (DownloadEngine has its insides),  *)
(* a version has NumComponents packages, and streamed versions, which the  *)
(* stream installer handles, are left out.                                 *)
(***************************************************************************)
EXTENDS Integers, FiniteSets

CONSTANTS
    Versions,       \* what the server may offer; the hash of one is its taskId
    NumComponents,  \* FirmwareComponents of a version
    FlowIds,        \* bound: FirmwareFlowManagers that exist at one time
    MaxRequests,    \* bound: requests and alarms in all
    MaxRestarts,    \* bound: ends of the process and reboots nobody asked for
    None            \* no version

ASSUME FlowAssumption ==
    /\ IsFiniteSet(Versions) /\ None \notin Versions
    /\ NumComponents \in Nat \ {0}
    /\ FlowIds \subseteq Nat \ {0} /\ IsFiniteSet(FlowIds)
    /\ MaxRequests \in Nat /\ MaxRestarts \in Nat

VARIABLES
    task,           \* the row of the task table, or NoTask
    comps,          \* the versions whose rows are in the component table
    files,          \* the versions whose packages are complete on disk
    savedBell,      \* preference restore_boot_animation_sound
    nightSwitch,    \* preference of the night upgrade
    autoSwitch,     \* preference of the automatic download
    flows,          \* the FirmwareFlowManagers
    isChecking,     \* StatusCache: "no", "yes", "expired" after five minutes
    nightAlarm,     \* NightUpgradeAlarmManager has a timer
    init,           \* the init thread: "restore", "boot", "up"
    reason,         \* StartupReason
    installer,      \* what the system installer works on, and for whom
    installed,      \* packages the installer or the updater has installed
    ab,             \* the device has two slots
    running,        \* the version the updater brought to the device
    rebootReq,      \* the reboot asked for, and what the updater is to install
    updaterResult,  \* /data/updater/updater_result
    bell,           \* the boot sound of the device is on
    notices,        \* history: EVENT_UPGRADE_SUCCESS of a version, and from where
    crossed,        \* history: flows have replaced rows or packages under each other
    requests,       \* how many requests and alarms there were
    restarts        \* how many ends of the process and unasked reboots

database == <<task, comps, files>>
prefs    == <<savedBell, nightSwitch, autoSwitch>>
process  == <<isChecking, nightAlarm, init, reason>>
device   == <<installer, installed, ab, running, rebootReq, updaterResult, bell>>
bounds   == <<requests, restarts>>
history  == <<notices, crossed>>
vars == <<database, prefs, flows, process, device, history, bounds>>

Components == Versions \X (1 .. NumComponents)

(* UpgradeStatus, the values the firmware gives to a task.                 *)
Status == {"CHECK_VERSION_SUCCESS", "DOWNLOADING", "DOWNLOAD_PAUSE",
           "DOWNLOAD_FAIL", "DOWNLOAD_SUCCESS", "INSTALLING", "INSTALL_FAIL",
           "INSTALL_SUCCESS", "UPDATING", "UPDATE_FAIL"}
Mode  == {"MANUAL", "NIGHT"}
Order == {"INSTALL", "INSTALL_AND_APPLY", "APPLY"}

Task   == [ver : Versions, status : Status, mode : Mode]
NoTask == [ver |-> None, status |-> "INIT", mode |-> "MANUAL"]
isExistTask == task # NoTask

(* A flow: its mode of execution and where it is; order of the request and *)
(* upgradeMode as the mode object read them; the rows its executor read;   *)
(* what is left to install and whether all went well; sysInstallProgress_; *)
(* the second half of an installer callback.                               *)
IdleFlow == [kind |-> "none", pc |-> "idle", order |-> "INSTALL", mode |-> "MANUAL",
             vers |-> {}, tid |-> None, todo |-> {}, ok |-> TRUE,
             progress |-> "INSTALLING", late |-> FALSE]
Kind == {"none", "check", "auto", "download", "install"}
Pc   == {"idle", "request", "result", "insert", "insertTask", "afterCheck",
         "dlSubmitted", "dl", "submitted", "write", "legal", "next", "ready", "wait",
         "updater", "done", "after", "after2", "apply", "rebooting"}
Flow == [kind : Kind, pc : Pc, order : Order, mode : Mode,
         vers : SUBSET Versions, tid : Versions \cup {None},
         todo : SUBSET Components, ok : BOOLEAN,
         progress : {"INSTALLING", "INSTALL_SUCCESS", "INSTALL_FAIL"},
         late : BOOLEAN]

(* Free: the slots a new flow may take; taking the least is enough.        *)
Free  == {f \in FlowIds : flows[f].kind = "none" /\ ~flows[f].late}
At(f, pc) == flows[f].pc = pc
Set(f, r) == flows' = [flows EXCEPT ![f] = r]
New(r) == \E f \in Free : (\A g \in Free : f <= g) /\ Set(f, r)
Goto(f, pc) == Set(f, [flows[f] EXCEPT !.pc = pc])

(* Complete: the mode's callback deletes the flow manager.  A callback of  *)
(* the installer that is past its weak_ptr keeps running.                  *)
Finish(f) == Set(f, [IdleFlow EXCEPT !.late = flows[f].late, !.tid =
                         IF flows[f].late THEN flows[f].tid ELSE None])

(* A request of the client, or an alarm.  Requests are answered            *)
(* once the init thread has looked at the rows.                            *)
Request == /\ init # "restore"
           /\ requests < MaxRequests /\ requests' = requests + 1
           /\ UNCHANGED restarts

(* A crash, an exit, a reboot for some other reason.                       *)
Accident == /\ init # "restore"
            /\ restarts < MaxRestarts /\ restarts' = restarts + 1
            /\ UNCHANGED requests

(* A download and an install take seconds at least: neither comes to its   *)
(* end while a check is between its database operations.                   *)
Settled == \A f \in FlowIds : flows[f].pc \notin {"insert", "insertTask"}

TypeOK ==
    /\ task \in Task \cup {NoTask}
    /\ comps \in SUBSET Versions /\ files \in SUBSET Versions
    /\ savedBell \in BOOLEAN /\ nightSwitch \in BOOLEAN /\ autoSwitch \in BOOLEAN
    /\ flows \in [FlowIds -> Flow]
    /\ isChecking \in {"no", "yes", "expired"}
    /\ nightAlarm \in BOOLEAN
    /\ init \in {"restore", "boot", "up"}
    /\ reason \in {"PROCESS_INIT", "DEVICE_REBOOT"}
    /\ installer \in [job : Components \cup {None}, flow : FlowIds \cup {0}]
    /\ installed \in SUBSET Components
    /\ ab \in BOOLEAN /\ bell \in BOOLEAN
    /\ running \in Versions \cup {None}
    /\ rebootReq \in [how : {"no", "reboot", "updater"}, vers : SUBSET Versions]
    /\ updaterResult \in [Versions -> {"none", "pass", "fail"}]
    /\ notices \in SUBSET [vers : SUBSET Versions, status : {"UPDATING", "INSTALL_SUCCESS"}]
    /\ crossed \in BOOLEAN
    /\ requests \in 0 .. MaxRequests /\ restarts \in 0 .. MaxRestarts

Stay == [how |-> "no", vers |-> {}]
Nobody == [job |-> None, flow |-> 0]

(* A process that starts: there is no task, or packages that an earlier    *)
(* process has downloaded.                                                 *)
Init ==
    /\ \/ task = NoTask /\ comps = {} /\ files = {}
       \/ \E v \in Versions :
            /\ task = [ver |-> v, status |-> "DOWNLOAD_SUCCESS", mode |-> "MANUAL"]
            /\ comps = {v} /\ files = {v}
    /\ savedBell = FALSE /\ nightSwitch \in BOOLEAN /\ autoSwitch = nightSwitch
    /\ flows = [f \in FlowIds |-> IdleFlow]
    /\ isChecking = "no" /\ nightAlarm = FALSE
    /\ init = "restore" /\ reason = "PROCESS_INIT"
    /\ installer = Nobody /\ installed = {}
    /\ ab \in BOOLEAN /\ running = None
    /\ rebootReq = Stay /\ updaterResult = [v \in Versions |-> "none"]
    /\ bell = TRUE /\ notices = {} /\ crossed = FALSE /\ requests = 0 /\ restarts = 0

-----------------------------------------------------------------------------
(***************************************************************************)
(* The rows.  Updates go by the taskId the caller holds: they do nothing   *)
(* once that row is gone.                                                  *)
(***************************************************************************)
UpdateStatusByTaskId_mut(tid, status) ==    \* mutant: writes a row that is gone
    task' = IF task.ver = tid THEN [task EXCEPT !.status = status] ELSE task

UpdateStatusByTaskId(tid, status) ==
    task' = IF task.ver = tid /\ isExistTask THEN [task EXCEPT !.status = status] ELSE task

ClearFirmwareInfo == task' = NoTask /\ comps' = {} /\ files' = {}

IsUpgradePackagesReady(vers) == vers # {} /\ vers \subseteq files

HasUndoneTask ==
    task.status \in {"DOWNLOADING", "DOWNLOAD_PAUSE", "INSTALLING", "UPDATING"}

IsUpgradeFailed(status) == status \in {"DOWNLOAD_FAIL", "INSTALL_FAIL", "UPDATE_FAIL"}

(* The boot sound is off during a night upgrade; the preference remembers  *)
(* that it is to come back.                                                *)
ProcessBeforeUpgrade(mode) ==
    IF mode = "NIGHT" THEN savedBell' = bell /\ bell' = FALSE
                      ELSE UNCHANGED <<savedBell, bell>>
ProcessAfterUpgrade_mut(mode) ==            \* mutant: forgets and does not restore
    IF mode = "NIGHT" /\ savedBell THEN savedBell' = FALSE /\ UNCHANGED bell
                                   ELSE UNCHANGED <<savedBell, bell>>
ProcessAfterUpgrade(mode) ==
    IF mode = "NIGHT" /\ savedBell THEN savedBell' = FALSE /\ bell' = TRUE
                                   ELSE UNCHANGED <<savedBell, bell>>

-----------------------------------------------------------------------------
(***************************************************************************)
(* Check.  The flag is raised before the request goes out and lowered      *)
(* before its answer is applied.                                           *)
(***************************************************************************)
IsChecking == isChecking = "yes"

StartCheck(kind) ==
    /\ Request
    /\ ~IsChecking /\ isChecking' = "yes"
    /\ New([IdleFlow EXCEPT !.kind = kind, !.pc = "request"])
    /\ UNCHANGED <<database, prefs, nightAlarm, init, reason, device, history>>

(* FirmwareManualCheckMode: refused while the device is updating.          *)
DoCheck == task.status # "UPDATING" /\ StartCheck("check")

(* The alarm of the automatic check: refused while it is downloading too.  *)
DoAutoUpgrade == task.status \notin {"UPDATING", "DOWNLOADING"} /\ StartCheck("auto")

(* After five minutes a check no longer blocks the next one.               *)
CheckExpires ==
    /\ isChecking = "yes" /\ isChecking' = "expired"
    /\ UNCHANGED <<database, prefs, flows, nightAlarm, init, reason,
                   device, history, bounds>>

(* The answer of the server: it failed, it offers nothing or one version.  *)
(* A task that is under way keeps its rows.                                *)
OnCheckCallback(f) ==
    /\ At(f, "request") /\ isChecking' = "no"
    /\ \/ Finish(f)
       \/ \E offer \in {{}} \cup {{v} : v \in Versions} :
            Set(f, [flows[f] EXCEPT !.vers = offer,
                    !.pc = IF HasUndoneTask THEN "afterCheck" ELSE "result"])
    /\ UNCHANGED <<database, prefs, nightAlarm, init, reason, device,
                   history, bounds>>

(* HandleNewVersion up to ClearFirmwareInfo, and HandleNoNewVersion.       *)
HandleCheckResult(f) ==
    /\ At(f, "result")
    /\ IF flows[f].vers # {} /\ comps = flows[f].vers
       THEN UNCHANGED database /\ Goto(f, "afterCheck")
       ELSE ClearFirmwareInfo
            /\ Goto(f, IF flows[f].vers = {} THEN "afterCheck" ELSE "insert")
    /\ crossed' = (crossed \/ (flows[f].vers \notin {{}, comps} /\ ~Settled))
    /\ UNCHANGED <<prefs, process, device, notices, bounds>>

(* HandleNewVersion: the component rows first, then the task row.  Both    *)
(* tables only grow; QueryTask reads the oldest task row.                  *)
InsertComponents(f) ==
    /\ At(f, "insert")
    /\ comps' = comps \cup flows[f].vers
    /\ Goto(f, "insertTask")
    /\ UNCHANGED <<task, files, prefs, process, device, history, bounds>>

InsertTask(f) ==
    /\ At(f, "insertTask")
    /\ task' = IF isExistTask THEN task
               ELSE [ver |-> CHOOSE v \in flows[f].vers : TRUE,
                     status |-> "CHECK_VERSION_SUCCESS", mode |-> "MANUAL"]
    /\ Goto(f, "afterCheck")
    /\ UNCHANGED <<comps, files, prefs, process, device, history, bounds>>

(* GetStepAfterCheck: the automatic flow goes on to the download when the  *)
(* switch is on, or arms the night alarm for a download that is complete.  *)
SetNightUpgradeAlarm == nightAlarm' = (nightAlarm \/ nightSwitch)

GetStepAfterCheck(f) ==
    /\ At(f, "afterCheck")
    /\ LET goesOn == flows[f].kind = "auto" /\ autoSwitch
       IN  /\ IF goesOn /\ task.status = "DOWNLOAD_SUCCESS"
              THEN SetNightUpgradeAlarm ELSE UNCHANGED nightAlarm
           /\ \/ Finish(f)
              \/ /\ goesOn
                 /\ task.status \in {"CHECK_VERSION_SUCCESS", "DOWNLOAD_FAIL",
                                     "DOWNLOAD_PAUSE"}
                 /\ Goto(f, "dlSubmitted")
    /\ UNCHANGED <<database, prefs, isChecking, init, reason, device,
                   history, bounds>>

-----------------------------------------------------------------------------
(***************************************************************************)
(* The process ends: threads, flows and flags go; the system installer is  *)
(* a process of its own and goes on.  DelayInit follows the next start.    *)
(***************************************************************************)
Restart(why) ==
    /\ flows' = [f \in FlowIds |-> IdleFlow]
    /\ isChecking' = "no" /\ nightAlarm' = FALSE
    /\ init' = "restore" /\ reason' = why

-----------------------------------------------------------------------------
(***************************************************************************)
(* Download.  The user's Download and ResumeDownload and the event of a    *)
(* network that came back all end in FirmwareDownloadMode.                 *)
(***************************************************************************)
DoDownload ==
    /\ Request
    /\ task.status \in {"CHECK_VERSION_SUCCESS", "DOWNLOAD_PAUSE"}
    /\ New([IdleFlow EXCEPT !.kind = "download", !.pc = "dlSubmitted"])
    /\ UNCHANGED <<database, prefs, process, device, history>>

(* DoDownload of the executor.  Without component rows it calls a function *)
(* object that was never set, which ends the process.                      *)
DownloadStart(f) ==
    /\ At(f, "dlSubmitted")
    /\ IF comps = {}
       THEN /\ Restart("PROCESS_INIT")
            /\ installer' = [installer EXCEPT !.flow = 0]
            /\ UNCHANGED task
       ELSE /\ Set(f, [flows[f] EXCEPT !.pc = "dl", !.vers = comps])
            /\ UpdateStatusByTaskId(task.ver, "DOWNLOADING")
            /\ UNCHANGED <<process, installer>>
    /\ UNCHANGED <<comps, files, prefs, installed, ab, running, rebootReq,
                   updaterResult, bell, history, bounds>>

(* What a download ends in.                                                *)
DownloadSuccessProcess ==
    /\ IF isExistTask THEN SetNightUpgradeAlarm ELSE UNCHANGED nightAlarm
    /\ UNCHANGED comps
DownloadFailProcess ==
    /\ IF isExistTask THEN ClearFirmwareInfo ELSE UNCHANGED database
    /\ UNCHANGED nightAlarm

(* The installs that have read the rows of the downloaded versions and not *)
(* yet looked at the package files.                                        *)
Reading(vers) == \E g \in FlowIds : flows[g].pc \in {"write", "legal"} /\ flows[g].vers = vers

(* The final callback of the engine.  It is written to whatever task the   *)
(* table holds now, and GetStepAfterDownload acts on it.                   *)
OnDownloadCallback(f) ==
    /\ At(f, "dl") /\ Settled
    /\ \/ /\ files' = files \cup flows[f].vers
          /\ UpdateStatusByTaskId(task.ver, "DOWNLOAD_SUCCESS")
          /\ DownloadSuccessProcess
          /\ crossed' = (crossed \/ Reading(flows[f].vers))
       \/ /\ UpdateStatusByTaskId(task.ver, "DOWNLOAD_PAUSE")
          /\ UNCHANGED <<comps, files, nightAlarm, crossed>>
       \/ DownloadFailProcess /\ UNCHANGED crossed
    /\ Finish(f)
    /\ UNCHANGED <<prefs, isChecking, init, reason, device, notices, bounds>>

(* DoCancel: the engine forgets the download and its callback, the row     *)
(* goes back to where the check left it, the packages stay on disk.        *)
DoCancel ==
    /\ Request
    /\ task.status \in {"DOWNLOADING", "DOWNLOAD_SUCCESS", "DOWNLOAD_PAUSE"}
    /\ UpdateStatusByTaskId(task.ver, "CHECK_VERSION_SUCCESS")
    /\ flows' = [f \in FlowIds |->
                    IF At(f, "dl") /\ task.status = "DOWNLOADING" THEN IdleFlow
                                                                  ELSE flows[f]]
    /\ UNCHANGED <<comps, files, prefs, process, device, history>>

DoClearError ==
    /\ IsUpgradeFailed(task.status)
    /\ ClearFirmwareInfo
    /\ UNCHANGED <<prefs, flows, process, device, history, bounds>>

(* The night switch arms or cancels the night alarm of a task.             *)
DoAutoUpgradeSwitchChanged(night) ==
    /\ nightSwitch' = night
    /\ nightAlarm' = IF isExistTask
                     THEN night /\ (nightAlarm \/ task.status = "DOWNLOAD_SUCCESS")
                     ELSE nightAlarm

(* DoAutoDownloadSwitchChanged only saves the other switch.                *)
SetUpgradePolicy(night, auto) ==
    /\ <<night, auto>> # <<nightSwitch, autoSwitch>>   \* otherwise nothing is done
    /\ Request
    /\ IF night # nightSwitch THEN DoAutoUpgradeSwitchChanged(night)
                              ELSE UNCHANGED <<nightSwitch, nightAlarm>>
    /\ autoSwitch' = auto
    /\ UNCHANGED <<database, savedBell, flows, isChecking, init, reason,
                   device, history>>

-----------------------------------------------------------------------------
(***************************************************************************)
(* Install and apply.  DoInstall is what every way to install goes through *)
(* in the caller's thread: CanInstall and GetStepAfterInit of              *)
(* FirmwareInstallApplyMode, t being the task row they read.               *)
(***************************************************************************)
CanInstall(t) ==
    t.status \in (IF ab THEN {"DOWNLOAD_SUCCESS", "INSTALL_SUCCESS"} ELSE {"DOWNLOAD_SUCCESS"})

SubmitFlow(pc, order, t) ==
    New([IdleFlow EXCEPT !.kind = "install", !.pc = pc, !.order = order, !.mode = t.mode])

(* Space, battery and, for a night upgrade, an idle device are conditions  *)
(* of the world: the request may end without a trace.                      *)
DoInstall(t, order) ==
    \/ /\ order # "APPLY" \/ ~CanInstall(t)
       /\ task' = t
       /\ UNCHANGED <<comps, files, flows, savedBell, bell>>
    \/ /\ CanInstall(t) /\ order = "APPLY"
       /\ task' = t /\ SubmitFlow("apply", order, t)
       /\ UNCHANGED <<comps, files, savedBell, bell>>
    \/ /\ t.status = "DOWNLOAD_SUCCESS" /\ order # "APPLY"
       /\ ~IsUpgradePackagesReady(comps)
       /\ ClearFirmwareInfo
       /\ UNCHANGED <<flows, savedBell, bell>>
    \/ /\ t.status = "DOWNLOAD_SUCCESS" /\ order # "APPLY"
       /\ IsUpgradePackagesReady(comps)
       /\ task' = t /\ SubmitFlow("submitted", order, t)
       /\ ProcessBeforeUpgrade(t.mode)
       /\ UNCHANGED <<comps, files>>

(* The user's request: the mode of the row becomes MANUAL whatever is      *)
(* under way.                                                              *)
Upgrade ==
    /\ Request
    /\ isExistTask
    /\ \E order \in Order : DoInstall([task EXCEPT !.mode = "MANUAL"], order)
    /\ UNCHANGED <<nightSwitch, autoSwitch, process, installer, installed, ab,
                   running, rebootReq, updaterResult, history>>

(* The night alarm.  DoNightUpgrade passes options whose order is left at  *)
(* its default, INSTALL.                                                   *)
HandleNightUpgrade ==
    /\ nightAlarm /\ nightAlarm' = FALSE
    /\ Request
    /\ IF nightSwitch /\ task.status = "DOWNLOAD_SUCCESS"
       THEN DoInstall([task EXCEPT !.mode = "NIGHT"], "INSTALL")
       ELSE UNCHANGED <<task, comps, files, flows, savedBell, bell>>
    /\ UNCHANGED <<nightSwitch, autoSwitch, isChecking, init, reason,
                   installer, installed, ab, running, rebootReq, updaterResult, history>>

(* FirmwareInstallExecutor::DoInstall, in an ffrt task: the component      *)
(* rows, then the task row and the status, then the package files.         *)
QueryComponents(f) ==
    /\ At(f, "submitted")
    /\ Set(f, [flows[f] EXCEPT !.vers = comps, !.pc = IF comps = {} THEN "after" ELSE "write"])
    /\ UNCHANGED <<database, prefs, process, device, history, bounds>>

WriteInstalling(f) ==
    /\ At(f, "write")
    /\ UpdateStatusByTaskId(task.ver, IF ab THEN "INSTALLING" ELSE "UPDATING")
    /\ Set(f, [flows[f] EXCEPT !.tid = task.ver, !.pc = "legal"])
    /\ UNCHANGED <<comps, files, prefs, process, device, history, bounds>>

(* StartInstall: IsComponentLegal, then PerformInstall of the installer    *)
(* or of the updater.                                                      *)
StartInstall(f) ==
    /\ At(f, "legal")
    /\ Set(f, IF IsUpgradePackagesReady(flows[f].vers)
              THEN [flows[f] EXCEPT !.todo = flows[f].vers \X (1 .. NumComponents),
                                    !.vers = {}, !.pc = IF ab THEN "next" ELSE "updater"]
              ELSE [flows[f] EXCEPT !.ok = FALSE, !.pc = "done"])
    /\ UNCHANGED <<database, prefs, process, device, history, bounds>>

(* DoSysInstall of the next component first forgets the result of the one  *)
(* before, without the mutex of the callback.                              *)
InitInstallProgress(f) ==
    /\ At(f, "next") /\ flows[f].todo # {}
    /\ Set(f, [flows[f] EXCEPT !.progress = "INSTALLING", !.pc = "ready"])
    /\ UNCHANGED <<database, prefs, process, device, history, bounds>>

(* The installer refuses when it is busy, and may refuse anyway; otherwise *)
(* the callback is set and it starts.  What the last component has         *)
(* reported since the reset counts for this one.                           *)
DoSysInstall(f) ==
    /\ At(f, "ready")
    /\ \E c \in flows[f].todo :
         LET rest == [flows[f] EXCEPT !.todo = @ \ {c}]
         IN  /\ \A d \in flows[f].todo : c[1] = d[1] => c[2] <= d[2]
             /\ \/ /\ Set(f, [rest EXCEPT !.ok = FALSE, !.pc = "next"])
                   /\ UNCHANGED installer
                \/ /\ installer = Nobody
                   /\ installer' = [job |-> c, flow |-> f]
                   /\ Set(f, [rest EXCEPT !.pc = "wait"])
    /\ UNCHANGED <<database, prefs, process, installed, ab, running, rebootReq,
                   updaterResult, bell, history, bounds>>

WaitInstallResult_mut(f) ==                 \* mutant: a timeout is no failure
    /\ At(f, "wait")
    /\ \/ flows[f].progress # "INSTALL_FAIL" /\ Goto(f, "next")
       \/ /\ flows[f].progress = "INSTALL_FAIL"
          /\ Set(f, [flows[f] EXCEPT !.ok = FALSE, !.pc = "next"])
    /\ UNCHANGED <<database, prefs, process, device, history, bounds>>

(* WaitInstallResult: a final status, or the timeout.                      *)
WaitInstallResult(f) ==
    /\ At(f, "wait")
    /\ \/ flows[f].progress = "INSTALL_SUCCESS" /\ Goto(f, "next")
       \/ /\ flows[f].progress # "INSTALL_SUCCESS"
          /\ Set(f, [flows[f] EXCEPT !.ok = FALSE, !.pc = "next"])
    /\ UNCHANGED <<database, prefs, process, device, history, bounds>>

(* PerformInstall returns when no component is left.                       *)
PerformInstallEnd(f) ==
    /\ At(f, "next") /\ flows[f].todo = {}
    /\ Goto(f, "done")
    /\ UNCHANGED <<database, prefs, process, device, history, bounds>>

(* DoUpdaterInstall: the call asks for a reboot into the updater and       *)
(* returns; the device goes down some time later.                          *)
DoUpdaterInstall(f) ==
    /\ At(f, "updater")
    /\ \/ /\ rebootReq' = [how |-> "updater", vers |-> {c[1] : c \in flows[f].todo}]
          /\ Set(f, [flows[f] EXCEPT !.todo = {}, !.pc = "done"])
       \/ /\ Set(f, [flows[f] EXCEPT !.todo = {}, !.ok = FALSE, !.pc = "done"])
          /\ UNCHANGED rebootReq
    /\ UNCHANGED <<database, prefs, process, installer, installed, ab, running,
                   updaterResult, bell, history, bounds>>

(* HandleInstallResult.  What PerformInstall knew is of no more use.       *)
HandleInstallResult(f) ==
    /\ At(f, "done")
    /\ UpdateStatusByTaskId(flows[f].tid,
           CASE flows[f].ok        -> "INSTALL_SUCCESS"
             [] ~flows[f].ok /\ ab -> "INSTALL_FAIL"
             [] OTHER              -> "UPDATE_FAIL")
    /\ Set(f, [flows[f] EXCEPT !.pc = "after", !.vers = {}, !.ok = TRUE,
                               !.progress = "INSTALLING"])
    /\ UNCHANGED <<comps, files, prefs, process, device, history, bounds>>

(* The callback object dies with the install: the installer's later        *)
(* reports find nobody.                                                    *)
FinishInstall(f) ==
    /\ Finish(f)
    /\ installer' = [installer EXCEPT !.flow = IF @ = f THEN 0 ELSE @]

(* GetStepAfterInstall reads the status twice, both times from the table.  *)
GetStepAfterInstall(f) ==
    /\ At(f, "after")
    /\ IF task.status = "INSTALL_SUCCESS"
       THEN /\ Goto(f, "after2")
            /\ UNCHANGED <<database, savedBell, bell, installer>>
       ELSE /\ ProcessAfterUpgrade(flows[f].mode)
            /\ ClearFirmwareInfo
            /\ FinishInstall(f)
    /\ UNCHANGED <<nightSwitch, autoSwitch, process, installed, ab, running, rebootReq,
                   updaterResult, history, bounds>>

GetApplyStep(f) ==
    /\ At(f, "after2")
    /\ IF task.status = "INSTALL_SUCCESS" /\ flows[f].order = "INSTALL_AND_APPLY"
       THEN Goto(f, "apply") /\ UNCHANGED installer
       ELSE FinishInstall(f)
    /\ UNCHANGED <<database, prefs, process, installed, ab, running, rebootReq,
                   updaterResult, bell, history, bounds>>

(* FirmwareApplyExecutor::DoInstall.                                       *)
DoApply(f) ==
    /\ At(f, "apply")
    /\ IF comps = {}
       THEN FinishInstall(f) /\ UNCHANGED rebootReq
       ELSE /\ rebootReq' = IF rebootReq = Stay THEN [Stay EXCEPT !.how = "reboot"]
                                                ELSE rebootReq
            /\ Goto(f, "rebooting")
            /\ UNCHANGED installer
    /\ UNCHANGED <<database, prefs, process, installed, ab, running,
                   updaterResult, bell, history, bounds>>

-----------------------------------------------------------------------------
(***************************************************************************)
(* The system installer (external).  Its callback first stores the status  *)
(* and wakes the waiting thread (OnUpgradeProgress) and only then writes   *)
(* the progress of the task (HandleInstallProgress).                       *)
(***************************************************************************)
Alive(f) == f # 0 /\ ~flows[f].late

InstallerReport ==
    LET f == installer.flow
        Tell(status) ==
            IF f = 0 THEN UNCHANGED flows
            ELSE Set(f, [flows[f] EXCEPT !.progress = status, !.late = TRUE])
    IN  /\ installer # Nobody /\ (f = 0 \/ Alive(f))
        /\ Settled
        /\ \/ /\ Tell("INSTALLING") /\ f # 0
              /\ UNCHANGED <<installer, installed>>
           \/ /\ Tell("INSTALL_FAIL")
              /\ installer' = Nobody /\ UNCHANGED installed
           \/ /\ Tell("INSTALL_SUCCESS")
              /\ installer' = Nobody /\ installed' = installed \cup {installer.job}
        /\ UNCHANGED <<database, prefs, process, ab, running, rebootReq, updaterResult,
                       bell, history, bounds>>

(* HandleInstallProgress sets the task to INSTALLING.  It runs in the      *)
(* thread of the callback; after the end of the flow it works on an        *)
(* executor that is gone, and then it may as well do nothing.              *)
HandleInstallProgress(f) ==
    /\ flows[f].late
    /\ \/ UpdateStatusByTaskId(flows[f].tid, "INSTALLING")
       \/ flows[f].kind = "none" /\ UNCHANGED task
    /\ Set(f, IF flows[f].kind = "none" THEN IdleFlow ELSE [flows[f] EXCEPT !.late = FALSE])
    /\ UNCHANGED <<comps, files, prefs, process, device, history, bounds>>

-----------------------------------------------------------------------------
(***************************************************************************)
(* The end of a process, the reboot of the device, and the init thread.    *)
(***************************************************************************)
ProcessEnd ==
    /\ Accident
    /\ Restart("PROCESS_INIT")
    /\ installer' = [installer EXCEPT !.flow = 0]
    /\ UNCHANGED <<database, prefs, installed, ab, running, rebootReq, updaterResult,
                   bell, history>>

(* FirmwareManager::Init with PROCESS_ENV_RESET forgets everything.        *)
ResetEnvironment ==
    /\ ClearFirmwareInfo
    /\ savedBell' = FALSE /\ nightSwitch' = FALSE /\ autoSwitch' = FALSE

(* DoTerminateUpgrade: the process exits, and the next one starts with     *)
(* PROCESS_ENV_RESET.  Whatever happens in the second before the exit      *)
(* might as well happen before the request: the two are one step.          *)
DoTerminateUpgrade ==
    /\ Request
    /\ Restart("PROCESS_INIT")
    /\ ResetEnvironment
    /\ installer' = [installer EXCEPT !.flow = 0]
    /\ UNCHANGED <<installed, ab, running, rebootReq, updaterResult, bell, history>>

IsInstalled(v) == \A c \in 1 .. NumComponents : <<v, c>> \in installed

(* A reboot may go through the updater, which installs what it was given   *)
(* or leaves the device as it was.                                         *)
Reboot ==
    /\ \/ rebootReq # Stay /\ UNCHANGED bounds
       \/ rebootReq = Stay /\ Accident
    /\ \/ /\ rebootReq.how = "updater"
          /\ \/ /\ running' \in rebootReq.vers
                /\ updaterResult' = [v \in Versions |->
                       IF v \in rebootReq.vers THEN "pass" ELSE "none"]
                /\ installed' = installed \cup (rebootReq.vers \X (1 .. NumComponents))
             \/ /\ updaterResult' = [v \in Versions |->
                       IF v \in rebootReq.vers THEN "fail" ELSE "none"]
                /\ UNCHANGED <<running, installed>>
       \/ rebootReq.how # "updater" /\ UNCHANGED <<running, updaterResult, installed>>
    /\ Restart("DEVICE_REBOOT")
    /\ installer' = Nobody /\ rebootReq' = Stay
    /\ UNCHANGED <<database, prefs, ab, bell, history>>

NextInit == IF reason = "DEVICE_REBOOT" THEN "boot" ELSE "up"

(* A download that was running is paused.                                  *)
HandleBootDownloadOnStatusProcess ==
    /\ UpdateStatusByTaskId(task.ver, "DOWNLOAD_PAUSE")
    /\ UNCHANGED <<comps, files, flows, savedBell, bell, nightAlarm>>

(* A night upgrade gets its alarm back.                                    *)
HandleBootDownloadedStatusProcess ==
    SetNightUpgradeAlarm /\ UNCHANGED <<database, flows, savedBell, bell>>

(* An install starts again from its packages, and will be applied.         *)
HandleBootInstallOnStatusProcess ==
    /\ DoInstall([task EXCEPT !.status = "DOWNLOAD_SUCCESS"], "INSTALL_AND_APPLY")
    /\ UNCHANGED nightAlarm

RestoreUpdate ==
    /\ init = "restore" /\ init' = NextInit
    /\ CASE task.status = "DOWNLOADING"      -> HandleBootDownloadOnStatusProcess
         [] task.status = "DOWNLOAD_SUCCESS" -> HandleBootDownloadedStatusProcess
         [] task.status = "INSTALLING"       -> HandleBootInstallOnStatusProcess
         [] OTHER -> UNCHANGED <<database, flows, savedBell, bell, nightAlarm>>
    /\ UNCHANGED <<nightSwitch, autoSwitch, isChecking, reason, installer,
                   installed, ab, running, rebootReq, updaterResult, history, bounds>>

(* FirmwareResultProcess: what the updater wrote about the packages, or    *)
(* the version the device runs where it wrote nothing.                     *)
GetUpdaterResult_mut ==                     \* mutant: any record of the packages will do
    comps # {} /\ \A v \in comps : updaterResult[v] # "none" \/ running = v

GetUpdaterResult ==
    comps # {} /\ \A v \in comps : \/ updaterResult[v] = "pass"
                                   \/ updaterResult[v] = "none" /\ running = v

(* HandleBootUpdateSuccess announces the components of the table,          *)
(* HandleBootUpdateFail says so; both clear everything.                    *)
HandleBootUpdateSuccess ==
    /\ notices' = notices \cup {[vers |-> comps, status |-> task.status]}
    /\ ClearFirmwareInfo
HandleBootUpdateFail == UNCHANGED notices /\ ClearFirmwareInfo

(* HandleBootComplete.  A task that was updating asks the updater's        *)
(* result; one that is INSTALL_SUCCESS counts as upgraded.                 *)
HandleBootComplete ==
    /\ init = "boot" /\ init' = "up"
    /\ \/ /\ task.status \in {"UPDATING", "INSTALL_SUCCESS"}
          /\ ProcessAfterUpgrade(task.mode)
          /\ IF task.status = "UPDATING" /\ ~GetUpdaterResult THEN HandleBootUpdateFail
                                                             ELSE HandleBootUpdateSuccess
       \/ /\ task.status \notin {"UPDATING", "INSTALL_SUCCESS"}
          /\ UNCHANGED <<database, savedBell, bell, notices>>
    /\ UNCHANGED <<nightSwitch, autoSwitch, flows, isChecking, nightAlarm, reason, installer,
                   installed, ab, running, rebootReq, updaterResult, crossed, bounds>>

-----------------------------------------------------------------------------
CheckStep(f) ==
    \/ OnCheckCallback(f) \/ HandleCheckResult(f) \/ InsertComponents(f)
    \/ InsertTask(f) \/ GetStepAfterCheck(f)
InstallStep(f) ==
    \/ QueryComponents(f) \/ WriteInstalling(f) \/ StartInstall(f) \/ InitInstallProgress(f) \/ DoSysInstall(f)
    \/ WaitInstallResult(f) \/ PerformInstallEnd(f) \/ DoUpdaterInstall(f)
    \/ HandleInstallResult(f) \/ GetStepAfterInstall(f) \/ GetApplyStep(f) \/ DoApply(f)

Next ==
    \/ DoCheck \/ DoAutoUpgrade \/ CheckExpires
    \/ DoDownload \/ DoCancel \/ DoClearError
    \/ \E night, auto \in BOOLEAN : SetUpgradePolicy(night, auto)
    \/ Upgrade \/ HandleNightUpgrade
    \/ \E f \in FlowIds : \/ CheckStep(f) \/ InstallStep(f)
                          \/ DownloadStart(f) \/ OnDownloadCallback(f)
                          \/ HandleInstallProgress(f)
    \/ InstallerReport
    \/ ProcessEnd \/ DoTerminateUpgrade \/ Reboot
    \/ RestoreUpdate \/ HandleBootComplete

Spec == Init /\ [][Next]_vars

-----------------------------------------------------------------------------
(***************************************************************************)
(* Properties.                                                             *)
(***************************************************************************)

(* On a device with two slots a task is INSTALL_SUCCESS only if the        *)
(* installer has reported success for every package of that version: not   *)
(* after a timeout, not because a callback of one package was taken for    *)
(* another's, not because a check put another version's rows in place      *)
(* between the reads of FirmwareInstallExecutor::DoInstall.  Three flows   *)
(* are needed to break it, and two of them have crossed: two checks that   *)
(* insert their rows at the same time, or a download that ends while an    *)
(* install of its versions is between reading the rows and the files.      *)
SuccessIsInstalled ==
    ab /\ ~crossed /\ task.status = "INSTALL_SUCCESS" => \A v \in comps : IsInstalled(v)

(* The client is told that a version is upgraded only if it is installed:  *)
(* on a device with two slots unless flows have crossed, and on every      *)
(* device, whatever crossed, when HandleBootComplete asks the updater's    *)
(* result (a task left UPDATING).                                          *)
NoticeIsTruthful ==
    \A n \in notices : (ab /\ ~crossed) \/ n.status = "UPDATING" => \A v \in n.vers : IsInstalled(v)

(* A boot sound that a night upgrade has switched off stays remembered in  *)
(* the preference until it is on again, through the end of the flow, other *)
(* requests, crashes and reboots.  Two things forget it: the termination   *)
(* of the upgrade, which clears the preferences, and a night install that  *)
(* starts while the sound is already off and saves that.                   *)
MutedBellIsOwed ==
    [][(savedBell /\ ~bell /\ ~bell') =>
          \/ savedBell'
          \/ init' = "restore"
          \/ \E f \in FlowIds : /\ flows[f].kind = "none"
                                /\ flows'[f].pc = "submitted" /\ flows'[f].mode = "NIGHT"]_vars

(* "An install that fails does not reboot the device: restore at once what *)
(* was changed before the upgrade" (FirmwareInstallApplyMode): the end of  *)
(* a night install that failed leaves the boot sound on, as it was before  *)
(* the first attempt.  It does not hold after a restart in the install; no *)
(* run claims it, the README has the bounds and the trace.                 *)
FailedInstallRestoresBell ==
    [][\A f \in FlowIds :
          (At(f, "after") /\ flows[f].mode = "NIGHT" /\ flows'[f].kind = "none" /\ init' = init)
             => bell']_vars
=============================================================================
