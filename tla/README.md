# A TLA+ model of the update service

The update service (`services/`) is the system ability that looks for new firmware,
downloads its packages, installs them and reports to the update client. This
directory models the parts of it that are hard to test: several threads that end in
any order, three locks, a serial callback queue, a database and files that survive a
power loss, a firmware layer that believes what the callbacks tell it, and in front of
the service an IPC interface, a client kit and two JavaScript bindings that share state
between calls.

Source paths below are relative to the repository; "engine" means
`services/core/ability/download`, "firmware" means `services/firmware`.

## 1. The system

| Component | State | Operations | Talks to | Correct if |
|---|---|---|---|---|
| `DownloadTaskManager` (engine, `manager/`) | `downloadTaskMap_`, `downloadTaskMapMutex_` (recursive) | `Start`, `Resume`, `Cancel`, `RemoveTask`, `DealCallBack`, `OnNetChange`, `RestoreDownloadTask` | tasks; business callback; `NetManager` | no callback of a live task is lost; a call returns |
| `DownloadTask` | `callback_`, `status_`, `isStopDownloadingCallback_`, `callbackMutex_`, serial queue | `Start`, `Resume`, `Cancel`, `UpdateTaskProgress`, ten-second report | service below, manager above | every change of status reaches the callback, final ones last |
| `DownloadService` | `serviceDownloadInfoMap_`, `threadMap_`, rows of `download_info` | package loops, `HandleRetry`, `UpdateDownloadProgress` | threads, database | memory, rows, threads and files agree |
| `DownloadThread` / `DownloadRequest` | the open file, `downloadedSize_`, `fsyncSize_`, stop flags | construct, download, verify, `Stop`, `NetChangeToPause` | curl, file system, service | a resume never trusts bytes that may be gone |
| `DownloadTaskProgressProcessor` | none | `CalcDownloadTaskStatus` | – | the task succeeds only if every package did |
| Firmware download executor / mode / process | firmware task row (`status`, `downloadTaskId`) | decide start, resume or report; handle callbacks | engine | `DOWNLOAD_SUCCESS` only with all packages; never stuck |
| `FirmwareManager`, event and flow managers, modes | firmware task and component rows, status cache, alarms | check, download, install, apply, cancel, boot recovery | executors, alarms, result process | what is announced is true; a restart resumes the right step |
| Install (`FirmwareInstall`, sys-installer, stream, updater) | progress, `resultReady_` | `StartInstall`, installer callback, `WaitInstallResult` | installer process | success only if every package was installed |
| Startup (`StartupManager`, `ScheduleManager`, `AccessManager`) | last idle check, schedule tasks, start policy | `IdleLoop`, `IdleCheck`, `PreExit`, `SAExit` | system ability manager | exits only when idle and is started again in time |
| User unlock observer | `initialized_`, subscriber | `Start`, event, `TryNotifyUnlocked` | account service | initialises exactly once |
| `UpdateService` registry | registered clients, death recipients | `RegisterUpdateCallback`, `UnregisterUpdateCallback`, `OnRemoteDied` | clients | a registered client keeps the service alive, a dead one does not |
| `UpdateService` requests (`services/engine`) | `updateImpMap`, `checkComplete_`, status cache, one-second filters, user keys | entry checks, one handler per request, restorer, local updater | firmware, extension, device administrator | nothing runs unchecked; an answer belongs to its call; every call returns |
| `NetManager` | registered callbacks, current net type | observer events, `OnNetChange` | engine | every registered callback hears every change |
| `ModuleManager` (`services/engine`, `foundations/ability`) | loaded library, `onRemoteRequestFuncMap_` | load, hook, `HandleFunc` | extension library | a request is checked by whoever handles it |
| Stream installer and `StreamProgressThread` | `downloadProgress_`, `sysInstallProgress_`, record point of the component, thread, its buffer, `isExitThread_` | start, feed, report, retry, stop, join | curl, system installer, rows | every byte reaches the installer once and in place; an install ends |
| Client kit (`interfaces/inner_api/engine`) | `remoteServer_`, death recipient, `remoteUpdateCallbackMap_`, `retryTimes_` | `GetService`, `ResetService`, register, unregister, forwarded calls | service | kit and service agree on who is registered |
| JavaScript objects and sessions (`frameworks/js/napi`, `frameworks/js/ani`) | members of the native object, sessions, works, listeners | a method in three parts (parse, work, complete), `on`, `off`, events | kit | a call sends its own arguments and gets its own answer; a listener is told or there is a reason |
| Messages (`interfaces/inner_api/feature`, converters of both bindings) | none | parse, `Marshalling`, `ReadFromParcel`, build | every side above | what arrives is what was said |

How a download works. `FirmwareDownloadExecutor` marks the firmware task
DOWNLOADING and calls `DownloadTaskManager::Start`, which, holding the map mutex,
builds a `DownloadTask`; `DownloadService::Start` inserts one row per package and
submits one `DownloadThread` each. A thread reports upwards:
`CallbackUpdateDownloadProgress` (checks the stop flag), `UpdateDownloadProgress`
(service mutex: thread map, retry, memory and row), `UpdateTaskProgress`
(`GetTaskProgress`, then `IsProgressChanged`), and finally the serial queue calls
`DealCallBack`, which hands the status to the firmware under `callbackMutex_`; the
firmware may call back into `RemoveTask`. Pause comes from the network, resume and
cancel from the user, and a reboot may come at any time.

How a request gets there. A JavaScript method parses its arguments into members of the
native object, a worker thread hands them to the kit, the kit writes them to a parcel and
calls the service through a proxy it may have to fetch or re-register with first.
`CallbackEnter` checks the caller, the permission, the unlock and the device
administrator, unless an extension has hooked the request; the handler reads the status
and starts a flow. Events travel back through the registered callback to the listeners.

What makes it hard: a report is four critical sections with gaps in between; the map
mutex and the callback mutex are taken in both orders; `Stop` does not wait for its
thread; rows, files and memory are changed one after the other; the file is reopened
without truncation after a crash; a check writes into the frame of a caller that may have
left; two calls of one JavaScript object share their arguments; a streamed package has no
file, only a count of the bytes the installer has reported.

## 2. Modules

| Module | Models | Proved about |
|---|---|---|
| `DownloadFile` | one package file, its threads one after the other, power loss | yes, `DownloadFile_proofs` |
| `DownloadStatus` | statuses, their classes, `CalcDownloadTaskStatus` | its result, in `DownloadEngine_proofs` |
| `DownloadEngine` (extends `DownloadStatus`) | manager, task, service, thread control, serial queue, the firmware's download executor and `DoCancel`, network changes, restart | yes, `DownloadEngine_proofs` |
| `ServiceLifecycle` | `OnStart` and the user unlock observer, the registry of client callbacks, the alarm of the automatic upgrade, the idle loop and the exit | yes, `ServiceLifecycle_proofs` |
| `FirmwareFlow` | check, download, install and apply flows, alarms, restart and boot handling, installer and updater | yes, `FirmwareFlow_proofs` |
| `StreamRow` | abstract: what the rows of a streamed version promise to their readers | yes, as the goal of the refinement |
| `StreamInstall` (instantiates `StreamRow`) | the stream mode, installer, progress thread, installer callbacks, restart | yes, `StreamInstall_proofs` |
| `ServiceCalls` | entry checks, extension hook, every request handler, check threads, one-second filters | yes, `ServiceCalls_proofs` |
| `ClientEvents` | listeners of both bindings, client kit, proxy, death notices, registrations | yes, `ClientEvents_proofs` |
| `JsCalls` | the asynchronous methods of both bindings: members, sessions, works, completion | yes, `JsCalls_proofs` |
| `Messages` | arguments, parcels, answers, progress reports, events and notices as data | no (`RECURSIVE` operators) |
| `MC…` | one module per component with its instance for TLC | |

### DownloadFile

`fileSize`, `syncedSize` and `durable` are what the file system knows: the length a
`stat` returns, the length covered by the last fsync, and the prefix that holds the
package's bytes whatever happens. `offset`, `fsyncSize`, `downloadedSize`,
`fileInitSize` and `startSize` are the fields of `DownloadThread` and
`DownloadRequest`; `callback` is the last report. Actions: `StartThread` (constructor
with `CalculatedRollBackSize`, open, seek), `WriteFun` and `FsyncInWriteFun` (one curl
buffer, and the fsync of `WriteFun`), `CallbackProgress`, `WriteError`, `RequestEnds`
with `SyncFile`, `HandleDownloadFinish`, `VerifySuccess`, `VerifyFail`, `PowerLoss`.
With `IoFaults`, fflush and fsync may fail: inside `WriteFun` that is an I/O error which
deletes the file, in `SyncFile` it is logged and ignored, as in the code.

### DownloadEngine

One task (one version) with the packages `Packages`. Who may move:

- `op` is the holder of `downloadTaskMapMutex_`: `StartTask`, `StartPackage`,
  `EnsureInsert`; `ResumeTask`, `ResumePackage`, `ResumeFinish`; `CancelTask`,
  `CancelPackage`, `CancelRecord`, `CancelCallback`, `CancelFinish`; `OnNetLost`,
  `NetPausePackage`, `NetLostFinish`. `op.todo` is what is left of the package loop,
  during which `downloadServiceMutex_` is held too (`ServiceMutexFree`).
- `threads[t]` is a `DownloadThread`; `pc` is `submitted`, `running`, `verifying`, or one
  of the steps of a report: `check` (stop flag), `leave` (out of `threadMap_`),
  `update` (memory, row, retry), `snap` (`GetTaskProgress`), `record`
  (`IsProgressChanged`), and for a CANCEL first seen by a thread `sync` and `remove`.
- `worker` is the serial queue at work: `call` (waits for `callbackMutex_`), `deal`,
  `remove` (holds `callbackMutex_`, waits for the map mutex).
- the firmware: `fw` is `FirmwareTask.status`, `want` the engine call that
  `FirmwareDownloadExecutor` is about to make after it wrote DOWNLOADING, `tidy` a
  `DoCancel` that has called `Cancel` and not yet reset the firmware task.
- `net` and `notify` are the network and the call of `NetManager` on its way.
- `Restart` is a power loss and the whole boot recovery (`RestoreDownloadTask`,
  `NotifyRecoverCompleted`, `HandleBootEvent`), one step because nothing else runs yet.

`verified`, `handed`, `lost`, `doubled` and `overlapped` are history: packages whose file is on
disk and matched sha256; the last status handed to the business callback; whether an end of the
task got lost, because `DealCallBack` dropped a callback of an unfinished task or `Resume` recorded
the end itself, since the task was last started or resumed; packages for which `Resume` started a
second thread while the first was at work or had not recorded its end (`Busy`); and whether a
download was ever begun before the clean-up of the one before was done. No guard reads them.

Abstractions, beyond sizes and messages:

- a thread or a queue entry of a replaced task object reaches only that object
  (`attached = FALSE`); its later reports are dropped. The lifetime of the raw `this`
  captured by the queue's lambdas is outside the model;
- one progress report of a running thread stands for any number of them: whether two
  equal running statuses differ in size is a nondeterministic choice in
  `RecordAndSubmit`;
- `DealCallBack` and the firmware's reading of its own task status are one step;
- `Pause` and automatic resume exist in the engine, but no caller in this repository
  uses them (`isNeedAutoResume` is false for firmware); they are left out, and so is
  `ResetRetryTimes`;
- `CancelUnexecutedTask` is an empty virtual function (`download_service.h:48`);
- `RecordAndSubmit` is two steps of the code: `IsProgressChanged` records the status under
  its lock (`download_task.cpp:453`), and the entry is submitted after the lock is left (line
  321). The order of two entries in the model is the order of their records; in the code
  another thread may come between the two;
- deleting all rows of a task is one step (one SQL statement); the boot-time network
  notification is part of `Restart`;
- `NetChangeToPause` erases from the map it iterates over. What an iterator does after
  that is undefined; the model lets the loop continue or end.

### ServiceLifecycle

One service process after the other, without an extension module. Who may move:

- `main` is `UpdateService::OnStart`: `StartCheck`, `RegisterUserUnlockListener` and
  `StartRecheck` are `UpdateUserUnlockObserver::Start`, `MainTry` and `MainInit` its
  `TryNotifyUnlocked`, `Publish` the end;
- `tasks[n]` is the ffrt task of the n-th unlock event (`OnReceiveEvent`, `TaskTry`,
  `TaskInit`), and `unsubscribe` the one that unsubscribes;
- binder threads: `RegisterUpdateCallback` and `InsertClientProxy` are the two lock scopes
  of one call, `ClientUnregisters` is one scope, `OnRemoteDied` a death notice. A client
  is its `UpgradeInfo`; its processes are numbered, so that a late notice of an old
  process can be told from the new one, which the code cannot;
- the timer of the idle loop: `IdleCheck` (with `TaskManage`), `PreExit`
  (`OnDemandSchedule`), `SAExit`. Between them clients and the firmware go on.

The alarm of the automatic upgrade: `due` and `needRetry` are the preferences
`auto_upgrade_time` and `need_retry_check`, which outlive the process; `alarm` is
`autoTimerId_`, whose timer does not. `InitFirmware` (which after PROCESS_ENV_RESET wipes the
preferences) starts the thread of `DelayInit`; its event and every `OnNetChanged` refresh the
alarm (`HandleNetChange`). `DoAutoUpgrade` is the timer that fires: it is refused while the
task is UPDATING, which leaves a `stale` id, or sets the time of the next upgrade
(`GetStepAfterInit`). A refresh is one step; the code takes no lock there, and what two
refreshes at the same time do to `autoTimerId_` is not modelled.

`FirmwareWorks` stands for everything else that changes `FirmwareManager::IsIdle`, and for an
automatic check that fails. Times are abstracted to what the code compares them with:
`now` (less than the 30 s that `UpdateStartupPolicy` demands), `near` (up to
`KEEP_ALIVE_THRESHOLD`), `far` (up to a day), and for `due` also `ahead` (more than a day),
`past` and `unset`. The system ability manager and the clients are external:
the manager may refuse the policy or the unload, a client may die and restart at any time.
The two attempts of `OnDemandSchedule` are one, the reads of `IdleCheck` are one step, and
one process of a client has one registration under way at a time. `deaf` (processes that
died before `AddDeathRecipient`) and `inits` are history that no guard reads.

### FirmwareFlow

What happens above the engine. Every request makes a `FirmwareFlowManager` of its own; only
the status in the task row keeps flows apart. The rows are `task` (a version, a status, an
upgrade mode), `comps` (the versions whose component rows are in the table) and `files`.
Who may move:

- the user and the alarms: `DoCheck`, `DoAutoUpgrade`, `DoDownload` (`Download`,
  `ResumeDownload`, a network that came back), `DoCancel`, `DoClearError`,
  `SetUpgradePolicy`, `Upgrade`, `HandleNightUpgrade`, `DoTerminateUpgrade` (whose exit
  a second later is part of the action). Each decides its
  first step in the caller's thread (`CanInstall`, `DoInstall`, …) and leaves the rest to:
- `flows[f]`, a flow with its program counter. A check goes through `request`, `result`,
  `insert`, `insertTask`, `afterCheck`; a download through `dlSubmitted`, `dl`; an install
  through `submitted` (`QueryComponents`), `write` (`WriteInstalling`), `legal`
  (`StartInstall`), then per package `next` (`InitInstallProgress` resets the result and the
  progress), `ready` (`DoSysInstall` hands the package over) and `wait` (`WaitInstallResult`),
  or `updater`, and `done`, `after`, `after2`, `apply`. Every gap between two database
  operations is a step, so another flow may come in between;
- the system installer (`InstallerReport`), whose callback stores the result and wakes the
  waiting thread, and only later (`late`) writes INSTALLING (`HandleInstallProgress`);
- the device: `ProcessEnd`, `Reboot` (through the updater or not), and the init thread
  `RestoreUpdate`, `HandleBootComplete`.

`ab` says whether the device has two slots (system installer) or goes through the updater.
`installed` is what the installer or the updater has installed; `notices` is the history of
EVENT_UPGRADE_SUCCESS, and `crossed` says that flows have replaced rows or packages under each
other: a check went on to insert while another was between its inserts, or a download ended while
an install that had read the rows of its versions had not yet looked at the files. No guard reads
`installed`, `notices` or `crossed`. A new flow takes the least free slot (`New`).

Abstractions: a version has `NumComponents` packages and its hash is its task id; only the
oldest task row matters, since `QueryTask` reads row 0 and the table is only cleared as a
whole; `ClearFirmwareInfo` is one step; a request is answered once `RestoreUpdate` has run;
a download or an installer that takes seconds does not come to its end between two inserts of
one check (`Settled`); the first half of the installer's callback, which stores the result and
wakes the waiter under one lock, is one step, and the installer calls the flow that gave it the
package (that a second flow of the same version replaces the callback of the first is the
installer's matter); space, battery, idleness and network are nondeterministic; streamed
versions are left out; the boot sound is supported and on at first; the process starts with no
task or with a downloaded one, and with both switches equal. A download without component rows
calls an unset function object (`firmware_download_executor.cpp:45`), which ends the process.

### StreamInstall and StreamRow

A version that is streamed has no file: `StreamProgressThread` downloads it and hands it,
a buffer at a time, to the system installer, whose reports add up to the record point in
the component's row; a later attempt resumes there. Who may move:

- `main`, the flow: `DoInstall` (mode, status check), `WriteInstalling`, then per attempt
  the start of the session with the installer, the join of the last attempt's thread,
  `WaitInstallResult`, the decision to retry, then the result in two steps:
  `HandleInstallResult` puts it into the executor's `taskProgress_` and
  `UpdateProgressByTaskId` writes what is there by then to the row; the callback that reads
  `taskProgress_` once more, the destructor and the apply;
- `worker`, the thread: its wait, `CheckFileSize` (the header request), the transfer, which may
  come with a length (`HeadersCome`) or never, `WriteFunc`, `DownloadProgress`, which curl calls
  every second and which looks at the exit flag only when the length is known, its end and its
  report;
- the installer (`Deal`, `InstallerFails`) and its callback (`InstallerCallback`, and
  `LateCallback` for one that outlives the component it has a reference to, or that comes while
  the flow writes the result and overwrites `taskProgress_`, which no lock protects);
- `Crash`, the end of the service, with the recovery that continues an interrupted install.

`seen` is history: two attempts mixed up (a thread or a report of one in the session of the next),
an overflow, a gap, a result that a late report took out of `taskProgress_` before it was written
(`unrecorded`). A call of the installer's callback is one step. Properties are stated up to `mixed`,
because the code does not exclude it (section 4). The record point is stored with `PutInt`, so it
wraps at `IntMax`. Left out: `isCancel_`, which nothing sets during an install, several components
per version, and two installs at once, whose start is in `ServiceCalls`.

`StreamRow` is the view of a reader of the database: a status that moves along the life of
an install, a point that is never ahead of what the installer has dealt with, success only
for a whole package. `KeepsRows` says that `StreamInstall` implements it, under
`status <- task, dealt <- inst.dealt, mixed <- "mixed" \in seen`.

### ServiceCalls

IPC threads (`Slots`) with one call each. `CallbackEnter` is the whole entry check of the stub,
after which `Dispatched` picks the extension's function or the service's handler, as
`CallbackParcel` does with the hooks as they are *then*. Handlers that wait or write twice are
several steps: `CheckNewVersion` (start the thread, wait for `checkComplete_`, leave), `Download`
and `Upgrade` (the filter of one second, the status, the start in the flow that reads the status
again), `Cancel` (the status, then `DoCancel`, which reads it again and refuses what is being
streamed), `GetNewVersionInfo` (two tables), `ForceFactoryReset` (erase, then reset). The others are
one step. `threads` are check threads that hold references into the frame of their call.
`Environment` is the loading of the extension and its hooks, the unlock, the administrator, the
passing of a second, and the few status changes of the flows. `build` tells the build with the empty
updater from the ones with firmware, and of these how the device installs: through the updater,
through the system installer, or streamed, which `IsStreamUpgrade` and `CanInstall` decide by. The
filter is a test and a set of plain members of `StatusCache`, but its only caller,
`FirmwareStatusCache` (`firmware_status_cache.cpp:52`, `:60`), holds `firmwareStatusMutex_` around
both, so it is one step; the query of the status after it is not under that lock. `overlap`,
`timedOut`, `smashed`, `unseen`, `crossed` and `told` are history; `unseen` says that a second
passed, or the install of a stream began over a download, before a start showed in the status;
`crossed` says that a check cleared the tables while another was between its two inserts, which
takes three calls: a check, one after the flag of the first has expired, and the request that sees
the result.

### ClientEvents

The JS thread with the listeners of an online and of a local updater in either `binding`,
a worker, the thread of death notices, and a service that dies and is started again.
`GetService` and the call it is for are two steps, because the kit's lock is not held in
between; so a proxy may be stale, or reset by a late notice. A handler runs with its
mutex held (`held`), per listener in NAPI and per updater in ANI; a call of `on` or `off`
inside it that reaches the same mutex blocks for ever (`stuck`).
`why`, `missed` and `unfinished` are history: why an updater is not registered, a service that
refused the callbacks when the kit connected, and the updaters whose `off` never arrived; a callback
that only the service holds is one of the last (`StaleOnlyAfterFailedOff`). The recipients of a
death notice are a set: when the kit has dropped a proxy whose service lives (a call that failed, a
late notice) and fetches it again, it may have added two to that service, and two notices then use
two of the retries; the model gives one notice per process.

### JsCalls

`Invoke` parses the arguments of a call into `member`s of the native object and queues a
session; `Worker` reads them (in two steps, so that a racing read gives `Torn`), runs the
request and stores the answer in a member; `CompleteWork` builds the answer for the
callback or the promise from that member and releases session, work and reference. A
value is the number of the call it came from. The table of `Method`s says which members
each method uses. `CompleteWork` always comes to the callback or the promise; in the code it returns
without when a napi call fails (`base_async_session.h:118`, `:124`), and such a call is never
answered. The ANI binding (`AniInvoke`, `AniReturn`) keeps both in locals.

### Messages

One message per behaviour: an argument, an answer, a progress report, an event or a
notice, in one binding or the other. Layouts are lists of fields, once as `Marshalling`
writes them and once as `ReadFromParcel` reads them; any one write of the parcel may fail,
and a reader out of step gets `Noise`. A scalar is zero, or the name of its own field, or
of an enum value, so that a value in the wrong place shows. Formatting of dates and texts
of logs are left out.

## 3. Runs

Requests from outside are bounded per run (`MaxDownloads` …, `MaxCalls`, `Calls`, …), threads
and queues by `MaxThreads` and `MaxQueue`, faults by `MaxFaults`. When the requests are used
up, or a handler has blocked the JS thread, the system is at rest, so most runs say
`CHECK_DEADLOCK FALSE`; the waits that matter are liveness properties (`CancelReturns`,
`CallsReturn`, `InstallEnds`). `file_durability`, `lifecycle`, `js_calls` and `messages` check
deadlock.

| Run | Instance | States | Shows |
|---|---|---|---|
| `file_durability` | size 18, roll back 7, buffer 2, I/O faults | 198 k | `DurabilityInv`, `ResumeInsideDurablePrefix`, `ProgressNeverRollsBack` |
| `engine_ends` | 1 package, 2 retries, 1 download, 1 resume, 1 network change, fair | 60 k | `DownloadEnds` |
| `engine_cancel` | 1 package, 1 retry, 1 download, 1 cancel, 2 network changes, power loss outside `Cancel` | 768 k | `TypeOK`, `QuietIsNotDownloading`, `CancelLeavesNoRow` |
| `engine_crash` | 2 packages (symmetric), 1 download, 1 resume, power loss outside `Start` | 1.3 M | `SuccessMeansAllVerified`, `RunningHasThread`, `PersistedSuccessIsVerified`, `QuietIsNotDownloading`, `FinalIsFinal` |
| `engine_cancel_deadlock` | 1 package, 1 download, 1 cancel, fair | violation | `CancelReturns` |
| `lifecycle` | 1 client with 2 processes, 2 registrations, 1 unlock event per service process, fair | 832 k | `TypeOK`, `InitializedOnce`, `DeadClientIsNoticed`, `NextUpgradeIsAwaited`, `UnlockIsNoticed` |
| `firmware_flow` | 2 versions (symmetric) of 2 packages, 2 flows, 2 requests, 1 accident, with and without slots | 2.1 M | `TypeOK`, `SuccessIsInstalled`, `NoticeIsTruthful`, `MutedBellIsOwed` |
| `stream_install` | 3 bytes, buffer of 2, 2 attempts per install, 1 call, 1 fault, int of 2 bits, fair | 976 k | `StreamInv`, `StatusIsExplained`, `KeepsRows`, `InstallEnds` |
| `service_calls` | 2 IPC threads, 2 calls, 3 callers, 2 infos, 15 requests, one of them hooked, three ways to install and the empty build, fair | 280 k | `NothingRunsUnchecked`, `CheckInv`, `StatusReadsHold`, `KeysGoneIsTold`, `CallsReturn` |
| `client_events` | 2 classifications, 2 functions, 2 tries, 1 reconnect, 2 service processes, both bindings | 873 k | `HandlerInv`, `RegistrationsAgree`, `SilenceIsExplained` |
| `js_calls` | 2 calls, 9 methods, one of each kind, both bindings, fair | 390 k | `OwnArguments`, `OwnAnswer`, `SessionInv`, `EveryCallAnswered` |
| `messages` | every message, lists of 0 to 3 with a bound of 2, any one failing write | 19 k | `ParcelInv`, `ArgumentsAreKept`, `AnswersAreShown` |

Why the bounds are enough. `file_durability`: the package is more than twice the roll back, so a
thread can be resumed below, at and above it, and the fsync interval `FILE_SIZE_MB = 7 - 2*2 = 3` is
passed several times and by more than one buffer size; the ratios, not the megabytes, decide. In the
engine two packages are the smallest number for which the status of the task differs from that of a
package; one retry shows a thread that replaces another and two that the second may fail as well,
two threads a late one beside a new one; two network changes lose the network and bring it back. The
runs split the features because their product does not fit: cancellation and network with one
package, liveness with retries, a resume and the network with one, interleaved reports and power
loss with two and a resume. `DownloadEnds` with two packages and one retry passes as well, but is
too long for a run. All the safety properties of the engine are also theorems, for any bounds, some
of them only until the first cancellation (section 5). Packages are symmetric but for the package a
free thread names, which nothing reads. In `lifecycle` two processes of a client give a dead one and
its successor and two registrations one for each; an unlock event gives a task beside `OnStart`;
service starts and exits, network changes, alarms and the clock are not bounded. The three safety
properties are also theorems, for any number of clients, registrations and events. With `Faults =
TRUE` and one registration the invariants pass as well (628 521 states). Deadlock is checked there.
In `firmware_flow` two versions let a check replace what another flow is working on, two packages
let the report of one meet the wait for the other, two flows are a pair that meets in every gap, and
two requests or alarms and one accident (an end of the process or an unasked reboot) are, from a
downloaded version, an install, a second request beside it and a restart at any point; reboots the
firmware asks for are not bounded. `stream_install`: three bytes through a buffer of two give a full
block and a last partial one, a resume inside and at the end of a block, and a record point that
overflows an `IntMax` of 1; two attempts per install (three in the code) give the thread and the
reports of one in the session of the next. `service_calls`: two calls are the smallest number that
overlaps, and the callers are an application of the system without the permission for factory
resets, an application that is not of the system, and the device administrator's service with only
that permission; the extension hooks the factory reset; the administrator and the user act while a
call is to come; the requests left out are answered by a handler of the same shape as one that is
kept. `client_events`: two listeners, one of which goes while the other stays, two functions for one
classification and one function for two, and a service that dies twice with one reconnect, so that
the retries run out. The local updater's listeners are bounded by 0: they work as the online one's,
and what differs, its registration, is kept. `js_calls`: members are shared by pairs of methods, so
two overlapping calls of any two kinds meet every sharing there is. `messages`: no field depends on
another message, and lists differ by empty, below, at and past the bound.

What the properties say, in short: a firmware task believed to be downloading always has something
left that will end it (`QuietIsNotDownloading`, and under fairness `DownloadEnds`); the reports of
two threads cannot reorder a final status (`FinalIsFinal`); late threads of a cancelled task leave
nothing behind in the database (`CancelLeavesNoRow`); what the database calls SUCCESS after a crash
is really on disk (`PersistedSuccessIsVerified`), and the firmware's DOWNLOAD_SUCCESS covers every
package (`SuccessMeansAllVerified`), both up to a package in `doubled`, for which they are false
(item 4 of the next section), and the second up to `overlapped` (item 7). `RunningHasThread` is
claimed only without cancellations: the late VERIFYING report of a cancelled thread makes a package
count as running without one. In the lifecycle: an unlock is noticed and initialises the business,
once, wherever it falls in `OnStart` (`UnlockIsNoticed`, `InitializedOnce`); a dead client does not
stay registered (`DeadClientIsNoticed`); a time saved for the next automatic upgrade has a running
timer in every process that has come to its first event, and an exit that happened left the start
policy that was computed for it, not an older one (`NextUpgradeIsAwaited`). In the firmware: on a
device with slots INSTALL_SUCCESS means that the installer reported success for every package in the
table, whatever timeouts, late callbacks, other flows and checks did (`SuccessIsInstalled`, up to
`crossed`); an upgrade that is announced after a reboot did take place (`NoticeIsTruthful`). On a
device without slots the second is claimed only for a task left UPDATING, because of the case at the
end of the next section. A boot sound that the service switched off stays remembered until it is
given back or the whole preference is wiped (`MutedBellIsOwed`).

In front of the service: a request runs only for a caller that was checked, although the extension
may hook it between check and dispatch (`NothingRunsUnchecked`); a check answers its own caller and
only while it waits, unless two checks of one updater overlapped or one timed out (`CheckInv`); two
quick downloads or upgrades start one, although filter, status and start are three steps, and one
answer is about one version, with the exceptions `StatusReadsHold` names; a device that runs on
without its keys has told its caller (`KeysGoneIsTold`). `HandlerInv`: no handler runs after its
`off`, and only a handler's own call blocks the JS thread; `RegistrationsAgree`: kit and service
know of the same callbacks, but for a service that refused them or an `off` that never arrived;
`SilenceIsExplained`: a listener that is not told has one of four reasons. `OwnArguments` and
`OwnAnswer` hold for calls that do not share a member with an overlapping one, and `SessionInv` ties
sessions, works and references to the calls that are still open. `ParcelInv`: a message that is read
is the one that was written; `ArgumentsAreKept` and `AnswersAreShown` name the fields that are lost,
and no other is.

In a streamed install: the installer gets every byte in its place and success is of the whole
package, over attempts, overflows and restarts (`StreamInv`); a pause or a restart of the device
that nobody asked for has a reason (`StatusIsExplained`); the rows keep the promise of
`StreamRow`, the result included (`KeepsRows`); an install ends, although the server and the installer
may fall silent, or it joins its thread where that can hang (`JoinIsStuck`), or a late report took its
result before it was written (`InstallEnds`).

Several of these are conjunctions of named parts that one run checks together with the module's
`TypeOK`; the parts and their comments are in the modules.

`QuietIsNotDownloading` excuses `lost`, `overlapped` and a cancelled task, because exactly those
cases do go wrong: see the next section.

### Fairness

`FairSpec` assumes: the holder of the map mutex goes on; a submitted thread runs and its request
ends, which `ffrt` and curl guarantee (connect timeout of 20 s in `download_request.cpp:29`,
low-speed limit of 1 byte in 6 s in `network_base_request.cpp:27`); the worker of the serial queue
goes on. `TakeCallback` has strong fairness: the queue is FIFO by submission time, and the
ten-second report, which shares the worker, is submitted with a delay, so that it cannot overtake a
queued callback for ever. Requests, network changes, the timed report and power loss are not fair:
nothing promises them. Each named step of `Fairness` is one sequential thread: the call that waits
for the map mutex (`CallStep`), the holder of it (`HolderStep`), the handler of a network event
(`NetHandlerStep`), a download thread, the worker of the queue (`WorkerGoesOn`). In
`ServiceLifecycle` only `OnStart` and submitted ffrt tasks are fair; clients, unlocks, the timer and
the firmware are not. `UnlockIsNoticed` is checked with `Faults = FALSE`, since a failed query or
subscription is never retried.

`JsCalls`: the napi thread pool runs every queued work, the kit's request returns and the event loop
runs every completion; the application need not call. `ServiceCalls`: each IPC thread goes on, and
the wait of a check ends by its own timeout; nothing is assumed of the check thread, whose
`SSL_read` has none. `StreamInstall`: the flow's thread goes on where it can (`Flow`;
`WaitInstallResult` has a timeout), and so does the worker between its calls of the network
(`Works`). Nothing is assumed of the server, which need not answer, send a length or send another
byte (the stream's curl handle has neither a timeout nor a low-speed limit, unlike the engine's),
nor of the installer. `ClientEvents` and `Messages` claim no liveness.

## 4. Where the code and its comments disagree

Each is stated as a property that TLC refutes. The second is a run (`engine_cancel_deadlock`, with
a finding in `PROJECT.json` that quotes the lines); for the others the property is kept in its
module with a comment that it does not hold, and the instance that refutes it in seconds is given
in brackets (constants of the run of the same module unless given, bounds not named are 0).

1. **Lost callback.** `EnsureInsert` (`download_task_manager.cpp:89`) comes after the
   threads are submitted. A thread that fails or pauses first is not found by
   `DealCallBack`, whose comment (line 291) says the task was cancelled or completed, and the
   firmware task stays DOWNLOADING. [`NeverStuckDownloading`: 1 package, `MaxDownloads = 1`]
2. **Deadlock of Cancel.** `Cancel` holds the map mutex and waits for `callbackMutex_`
   (`download_task.cpp:208`); a final callback holds `callbackMutex_` and waits for the map
   mutex in `RemoveTask` (`download_task_manager.cpp:155`).
3. **Power loss inside Start.** Rows are inserted one by one (`download_service.cpp:84`);
   the restored task lacks the rest and still succeeds. [`SuccessMeansAllVerified`: 2 packages,
   1 download, 1 resume, `CrashPoints = {"start"}`]
4. **Pause of a thread that has not run.** It leaves the thread map and runs all the same
   (`download_thread.cpp:129`); after a resume two threads write one file.
   [`AtMostOneThreadPerPackage`: 1 package, 1 download, 1 resume, `MaxNetChanges = 2`]
   One of the two may verify the file and the other fail after it and delete the file
   (`ClearPackage`, `download_service.cpp:442`): the row, and the firmware, may then say SUCCESS
   without a file. [`SuccessMeansAllVerified` without `doubled`: the same with two threads and
   `MaxQueue = 3`] It happens without the network, too: an ending thread leaves `threadMap_`
   (line 420) before its end is in the `DownloadInfo` (lines 425, 443), and a `Resume` in between
   starts another on the same package (line 146). [2 packages, 3 threads, 1 download, 1 resume]

5. **Keep-alive threshold.** `TaskManage` says whether the next task is far enough away to
   exit (`schedule_manager.cpp:94`), and `IdleCheck` drops its answer (line 44): the idle
   service exits with an upgrade due within the hour. The start policy makes up for it
   unless the delay is below 30 s, in which case `PreExit` fails and the service stays.
   [`ExitOnlyFarFromWork`: 1 client, 1 process, 1 event, 1 call, `Faults = FALSE`]

6. **Boot sound.** A night install saves the boot sound and switches it off
   (`firmware_upgrade_processor.cpp:38`). After a restart the next attempt saves "off" over
   it, and the failed install does not bring the sound back, as the comment at
   `firmware_install_apply_mode.cpp:149` says. A manual `Upgrade` during a night install has the
   same effect, since it sets the mode of the row to MANUAL, and so has `TerminateUpgrade`, which
   wipes the preference. [`FailedInstallRestoresBell`: 1 version, 1 package, 1 flow, 3 requests,
   1 accident]

7. **Clean-up of the download before.** A FAIL makes the firmware task DOWNLOAD_FAIL first and
   cleans up after that (`firmware_download_process.cpp:33`): it removes the task by its id and
   deletes the files. DOWNLOAD_FAIL is a status from which a new download may begin
   (`firmware_download_mode.cpp:67`), and nothing makes it wait. If it begins in between, the old
   clean-up deletes the new files and clears the firmware task, while `RemoveTask` refuses the
   running task; after the next check the new task reports SUCCESS without a file.
   [`SuccessMeansAllVerified` without `overlapped`: 1 package, 2 threads, `MaxQueue = 2`,
   `MaxDownloads = 2`] Or it takes the new task out of the map, its end is dropped, and the firmware
   task stays DOWNLOADING.
   [`QuietIsNotDownloading` without `overlapped`: the same with `MaxDownloads = 3`] With
   `overlapped` TLC passes both instances. No run has room for it; the proofs of section 5 led here.

Five more were seen without a run of their own:

- *The lower bound of a random delay.* `GetRandTime` (`time_utils.h:65`, "random minTime ~
  maxTime" at line 67) never adds `minTime`: the retry that `HandleNetChange` wants after 5 to
  60 minutes comes after 0 to 55. At 0 `RegisterAlarm` finds the time outdated and there is no
  timer until the next network change (`due = "past"`, `alarm = "none"` in `ServiceLifecycle`).
- *Resume hides an end.* `Resume` records the status it computes (`download_task.cpp:139`); a
  thread that ended meanwhile finds its status "already reported", and the firmware is never told.
  The model counts it as `lost`. [`NeverStuckDownloading` of a task in the map, after a resume:
  2 packages, 2 threads, `MaxQueue = 2`, 1 download, 1 resume]
- *Power loss inside Cancel* (`CrashPoints = {"cancel"}`, one package, one of each
  request): files go before rows (`download_service.cpp:161`, rows at 229), and the
  restored SUCCESS is reported without files; `SuccessMeansAllVerified` fails.
- *A late VERIFYING report overwrites CANCEL*: only DOWNLOADING is filtered
  (`download_service.cpp:484`); the CANCEL callback is then never made and the task stays
  in the map.
- *The size of a FAIL callback* is not always the package size, as the comment at
  `download_thread.cpp:230` says: the clamp at 237 comes first.

`ServiceLifecycle` reaches five situations about which the code promises nothing and no
property is stated: the late death notice of an old process erases the callback that the
restarted client has just registered (`update_service_common.cpp:59`); a client that dies
during its registration stays registered (line 81, the exception in
`DeadClientIsNoticed`); a client that registers between the idle check and the unload loses
its callback (`startup_manager.cpp:84`); a time more than a day away counts as a clock that
was turned back (`firmware_auto_upgrade_alarm_manager.cpp:145`), but half of the times the
automatic upgrade sets are up to 30 minutes more than a day away, so that a network change soon
after it repeats it in 10 s; an automatic upgrade that is refused while the task is UPDATING
sets no new alarm, and the service neither exits (a delay below 30 s) nor tries again before
the next network change.

`FirmwareFlow` reaches more situations for which no comment or test states otherwise:

- on a device without slots `RebootAndInstallUpgradePackage` returns and
  `HandleInstallResult` writes INSTALL_SUCCESS over UPDATING before the reboot;
  `HandleBootComplete` then takes the branch of devices with slots
  (`firmware_event_manager.cpp:177`) and announces success without asking the updater;
- the installer's callback wakes the waiter before it writes INSTALLING
  (`firmware_sys_installer_install.cpp:90`), which may undo INSTALL_SUCCESS;
- a process that dies during an install starts it again while the installer is busy: the
  attempt fails and clears the rows of a version that is then installed;
- a crash between the two inserts of a check leaves components without a task, and every
  later check finds "the same version";
- UPDATING survives a restart of the process without a reboot and blocks checks;
- `DoNightUpgrade` passes options without the order it has just set
  (`firmware_event_manager.cpp:122`): a night upgrade installs and does not apply.

`StreamInstall` reaches these; the properties are stated up to them:

- the session of a new attempt is opened before the thread of the last one is joined
  (`firmware_stream_installer_install.cpp:185`), and the installer's callback keeps a reference
  to a component on a stack that may be gone (line 140): blocks or reports of two attempts mix
  (`mixed`);
- the record point is 64 bits wide and stored with `PutInt` (`firmware_component_operator.cpp:68`):
  above 2 GiB it wraps, a resume starts over with a negative count, and the last partial block,
  which is handed over only when the count reaches the size exactly
  (`stream_progress_thread.cpp:225`), stays in the buffer;
- after a failed `curl_easy_init` the thread loops for the mutex that its joiner holds
  (`progress_thread.cpp:42`); the header request has no timeout
  (`stream_progress_thread.cpp:102`), nor has the transfer (line 132), and `DownloadProgress` does not
  look at the exit flag while the length is unknown (line 191): in each case the join may never return
  (`JoinIsStuck`);
- `HandleInstallProgress` sets `taskProgress_` to INSTALLING without a lock
  (`firmware_install_executor.cpp:117`), and the executor reads it for the row after it has stored the
  result there (line 154): a late report makes the row stay INSTALLING (`unrecorded`);
- an interrupted install goes on with INSTALL_AND_APPLY whatever was asked
  (`firmware_manager.cpp:393`);
- an installer status that was never set is read after a failure (`firmware_install.cpp:48`): the
  row may say paused.

`ServiceCalls`: the answer of one check ends the wait of another, or wipes it, since
`checkComplete_` belongs to the updater (`update_service_impl_firmware.cpp:53`); after a timeout the
check thread writes into the frame of a call that has returned (line 44); a call that reads the
status, or a start that shows in it, later than a second after the filter lets a second download
start (`status_cache.cpp:57`); `GetNewVersionInfo` can pair the task of one version with the
components of another (line 172); an upgrade that cannot start is answered SUCCESS
(`firmware_manager.cpp:281`).

`ClientEvents`: in NAPI `off` of one listener silences the others (`iupdater.cpp:90`); `on` or
`off` inside a handler blocks the thread (`update_session.cpp:105`, `ani_base_updater.cpp:83`); a
first registration that failed is not tried again (`local_updater.cpp:80`,
`ani_base_updater.cpp:39`); `retryTimes_` is never reset
(`update_service_kits_impl.cpp:326`) and the results of the re-registration are not looked at
(line 315); a late death notice drops the proxy of the new process
(`base_service_kits_impl.h:118`).

`JsCalls`: overlapping calls of one object send each other's arguments (`update_client.cpp:178`) or
get each other's answers (line 117); a call that is refused has overwritten the digest of a queued
one (line 147); a property the caller leaves out is sent with the value of the call before
(`napi_common_utils.cpp:79`); a callback that throws leaves its work and reference behind
(`base_async_session.h:128`).

`Messages`: both ends of an upgrade period are read from the array element itself, not from its
properties (`client_helper.cpp:447`); no write of a task body is checked (`task_body.cpp:122`); a
list past `MAX_VECTOR_SIZE` loses the whole answer (`check_result.cpp:26`); ANI shows sizes as
32-bit integers (`ani_common_conveter.cpp:162`); EVENT_UPGRADE_PAUSE has no exported name
(`define_property.cpp:209`); a status without an event is shown as EVENT_TASK_BASE
(`base_callback_utils.cpp:60`).

## 5. Proofs

`DownloadFile_proofs` holds for every package size, roll back and buffer size that satisfy
`SizesAssumption`: sizes are positive and the roll back exceeds two buffers, which is how
`FILE_SIZE_MB` is defined (10 MB against 2 × 16 KB in the code).

- `DurabilityInductive`: `Spec => []DurabilityInv`. The invariant that matters,
  `ResumeInsideDurablePrefix`, is not inductive: a new thread is safe only because the
  unsynced tail is no longer than the roll back (`UnsyncedTailBounded`), and that holds
  only because a running request has written at most `fsyncSize` bytes above the durable
  prefix and `fsyncSize` stays below `FILE_SIZE_MB + CURL_MAX_WRITE_SIZE`
  (`RequestSynced`): one buffer may pass the limit before the fsync. The sum is below the
  roll back, which is exactly why the code subtracts two buffers. `DurabilityInv` is the
  conjunction of these with `TypeOK` and `durable <= syncedSize <= fileSize`; TLC checks it
  in `file_durability`, `DurabilityInit` and `DurabilityStep` prove it action by action.
- `ResumeIsSafe` and `UnsyncedTailIsBounded` are its two consequences a reader wants.
- `ProgressIsMonotone`: `Spec => ProgressNeverRollsBack`. It needs `ReportCovered`: what a
  running thread has reported is at most the larger of what it received and what the file
  held when the thread was created. A new thread starts lower but reports at least the file
  size.

`ServiceLifecycle_proofs` holds for any number of clients, processes, calls and events, and
with faults (`LifecycleAssumption` only gives the constants their types).

- `UnlockInitializesOnce`: `Spec => []InitializedOnce`, by `OnceInv`, which ties the number
  of initialisations to the flag of the compare-exchange.
- `DeadClientsAreNoticed`: `Spec => []DeadClientIsNoticed`, by `RegistryInv`. The property
  alone is not inductive: that a process leaves a notice when it dies needs that it was
  watched while it lived (`RegisteredIsWatched`), and that a restart cannot revive an old
  entry needs that nothing registered or under way is newer than the last process
  (`KnownIsBorn`).
- `UpgradesAreAwaited`: `Spec => []NextUpgradeIsAwaited`, by `AlarmInv`. The early return of
  `RegisterAutoUpgradeTime` is right only because a timer id that has fired never stands beside
  a time that lies ahead (`StaleIsPast`), and a restart only because a time without a timer
  belongs to a process whose `DelayInit` is still to come (`UnarmedIsEarly`); for the exit,
  nothing changes policy or plan between `PreExit` and the next start (`ExitIsPlanned`).

- `LifecycleTypes`: `Spec => []TypeOK`.

`JsCalls_proofs` holds for any set of calls of any of the methods, with members of any names.

- `RequestsCarryOwnArguments`, `AnswersAreOwn`, `SessionsOwnTheirWork`: `OwnArguments`, `OwnAnswer`
  and `SessionInv`, by `CallInv`. What the members hold is not said by the properties: from the
  parse to the request they hold the call's own arguments, and from the worker to the completion
  the member it stored into holds its answer (`MembersAreOwn`); another call can change that only if
  it is live and shares a member, and then both are on record (`SharingIsOverlap`). That the answer
  is built from the member the worker stored into (`AnswerMember`) is proved over the table of all
  methods.

`StreamInstall_proofs` holds for a package, a buffer and chunks of any size, an int of any width
and any number of retries, calls, faults and restarts.

- `StreamIsWhole`: `Spec => []StreamInv`. The blocks on their way follow one another up to the
  byte the session expects next (`QueueIsContiguous`), which is the first byte the thread has not
  handed over (`ThreadFeedsSession`), and the record point together with the report under way is
  never ahead of the installer (`PointIsBehind`); without an overflow the thread's count is its
  place in the package (`CountIsOffset`). Whoever says success, the executor's `taskProgress_` on its
  way to the row included, says it of the whole package (`SuccessIsDealt`). All of it up to `mixed`.
- `StatusHasReason`: `Spec => []StatusIsExplained`.
- `StreamKeepsRows`: `Spec => KeepsRows`, the refinement of `StreamRow` and the action property
  about results: initial states map to initial states, and each action to one of the abstract
  steps or to a stutter; the crash and the recovery map to the abstract restart.

`ServiceCalls_proofs` holds for any IPC threads, callers, infos and hooks and any number of calls.

- `CallersAreChecked`: `Spec => []NothingRunsUnchecked`. A call under way was checked, or it waits
  to be handed to the extension that hooked it, and an extension never unhooks (`CallsAreChecked`).
- `ChecksAnswerTheirCaller`: `Spec => []CheckInv`. Without overlap and timeout each check thread has
  one call that waits for it (`ThreadIsAwaited`), and the flag is up only for a call that has its
  answer (`FlagIsOwn`); ids tell calls and threads apart (`IdsDiffer`).
- `ReadsHoldForTheAnswer`: `Spec => []StatusReadsHold`. Without `crossed` at most one check fills
  the tables, the row says INIT meanwhile, and otherwise the tables are of one version
  (`TablesAgree`). A call that passed the filter reads the status and starts in two more steps, and
  the install of a stream starts from nearly any status, so that one start is not the filter's work
  alone (`OneStarts`): while the second lasts at most one call is behind the filter, a start that it
  could meet shows in the status it reads, and none is left when it comes to start. The attempt to
  prove it without `crossed` failed for a good reason: both parts are false from three calls on.
- `ErasedKeysAreTold`: `Spec => []KeysGoneIsTold`.

`ClientEvents_proofs` holds for any subscriptions, tries, processes of the service, events and
listeners. `SubscriptionsAssumption` says that a subscription is a classification and a function.

- `HandlersAreSubscribed`, `CallbacksAgree`, `SilenceHasReason`: `HandlerInv`,
  `RegistrationsAgree` and `SilenceIsExplained`, by `ClientInv`. The last is stated for the JS
  thread at rest; between its steps a wanted updater is explained or registers right now
  (`WantedOrUnderWay`), and an `off` on its way is noted, in ANI only for the last listener
  (`OffIsNoted`).

`FirmwareFlow_proofs` holds for any versions, packages, flows, requests and restarts, on devices
with one slot and with two; `FlowAssumption` only gives the constants their types.

- `FlowTypesHold`, `SuccessIsReal`, `NoticesAreTruthful`: `TypeOK`, `SuccessIsInstalled` and
  `NoticeIsTruthful`, by `FlowInv`. INSTALL_SUCCESS is written by a flow that has seen no failure,
  to the row of the `taskId` it holds, so two things have to be known. First, that the install left
  no package of that version out: each is installed, still to do, or the one the installer works on
  for this flow (`NothingLeftOut`). A late success of one package must not be taken for the next,
  whose progress is reset in a step before it is handed over: between the two the installer works for
  nobody or for another flow, because it works only for an install that has begun and is not over,
  and the progress is no success any more (`Installs`, with `JobIsOfInstall` as an invariant beside
  `FlowInv`). Second, that the versions whose files it found are the one of
  its `taskId` and the one of the component rows: without crossed flows the rows are of one version,
  a check that fills them is alone and found them empty, and an install whose packages are on disk
  has read both rows of the same version (`RowsAgree`). The updater says "pass" only for versions
  it installed (`UpdaterIsTruthful`).
- `MutedBellStaysOwed`: `Spec => MutedBellIsOwed`, an action property, action by action.

  `SuccessIsInstalled` used to be stated without `crossed`, and TLC agrees for two flows. The proof
  attempt showed why it fails beyond: three flows, three requests, one package, no restart
  (`FlowIds = {1, 2, 3}`, `MaxRequests = 3`, `NumComponents = 1`, `MaxRestarts = 0`). `Upgrade` and
  two automatic checks, the second after the flag of the first expired; the answers of both pass
  `HasUndoneTask` before the install writes INSTALLING; both clear the tables and insert, one the
  version that is being installed, the other a newer one; the install finds its row and writes
  INSTALL_SUCCESS to a task with the components of both (`firmware_check_data_processor.cpp`,
  `HandleNewVersion`, takes no lock).

`DownloadEngine_proofs` holds for any packages, threads, queue, retries, requests and network
changes; `EngineAssumption` only gives the constants their types.

- `EngineTypes`: `Spec => []TypeOK`, by `Types`, which says more: what a task reports (the recorded
  status, a thread's snapshot, the queue, the callback in hand) is never VERIFYING. Without that
  `TypeOK` is not inductive, since `UpgradeStatus` has no case for VERIFYING; it rests on
  `TaskStatusType`, that `CalcDownloadTaskStatus` shows VERIFYING as DOWNLOADING whatever the
  packages say.
- `NothingAfterTheEnd`: `Spec => FinalIsFinal`, an action property, by `FinalIsOut`: a task whose
  final status was handed out has left the map, and one that is being started is neither in the map
  nor has it reported. A late callback therefore finds no task.
- `CancelledStaysCancelled`: `Spec => []CancelLeavesNoRow`, by `StoppedHasNoRow`: `Start` and
  `Resume` take the stop flag back before they insert anything, and a late thread only updates rows
  that exist.
- `SuccessRowsAreVerified`: `Spec => []PersistedSuccessIsVerified`, by `VerifiedInv`. A success on
  its way to a row is of a file that nobody deleted since (`ReportsAreVerified`), because one thread
  works on a package (`OneWorksOnIt`, up to `doubled`), and a package that somebody works on has
  not succeeded (`BusyIsUnfinished`, `SubmittedIsUnfinished`), so that a retry does not report an
  old success again. The hypothesis `"cancel" \notin CrashPoints` leaves out the power loss inside
  `Cancel`, for which the property is false (section 4). It used to be stated without `doubled`,
  and TLC agreed for the bounds of the run; the proof attempt led to the two instances of item 4.
  With `doubled` TLC passes the first of them completely, 1.1 M states.

The other three are proved until the first cancellation (`Uncancelled`): `Cancel` does not wait
for the threads it stops, a late VERIFYING report makes a package run without a thread, and a power
loss before `DoCancel` has reset the firmware task finds a success without files. Their invariants
were checked with TLC first, together, on four instances: one package with three downloads, with a
retry, a resume and a network change, with two downloads and a resume, all with power loss, and two
packages with a resume and power loss (2.1 M states).

- `RunningPackagesHaveThreads`: `Spec => [](Uncancelled => RunningHasThread)`, by `CalmInv` and
  `PoolInv`. Without a cancellation CANCEL and PAUSE are nowhere, in no status, report or snapshot,
  and only the threads of a replaced task object were told to stop (`CalmInv`). A thread in
  `threadMap_` is at work and stays so while `OnNetChange` walks through the map (`MappedIsBusy`), so
  that pausing a package on the spot never leaves it running (`RunningIsBusy`), and a task in the map
  has packages, to which its threads belong (`TaskHasPackages`).
- `EveryEndIsPassedOn`: `Spec => [](Uncancelled => QuietIsNotDownloading)`, by `ClientInv` and
  `EndInv`, up to `overlapped`. The flow behind the callback is alive exactly while the firmware task
  is DOWNLOADING and the engine was called (`ClientInv`). While it is alive a thread is at work or
  still to look at the task's status, or the end is in the queue or in delivery (`EndIsComing`). That
  the last look finds an end needs that no package is left at INIT (`InitHasTurn`), and that
  `IsProgressChanged` does not drop it as already reported needs that a recorded end is on its way
  (`RecordedIsOut`). Both exceptions of `lost` come from the attempt to do without them.
- `SuccessIsOfEveryPackage`: with `"start"` and `"cancel"` not in `CrashPoints`,
  `Spec => [](Uncancelled => SuccessMeansAllVerified)`, by `RowsInv`, `CurrentInv`, `SucceededInv` and
  the `VerifiedInv` of the rows. Outside `Start` every package has a row or none has, so that a
  restored task has all of them (`RowsInv`). A SUCCESS on its way from a thread's look through the
  queue to the firmware was computed over all packages of the current download, and what has
  succeeded stays so (`CurrentInv`); once the firmware has it, no thread is left that could fail and
  delete a file, and a `Resume` that meets it starts none (`SucceededInv`). The hypotheses leave out
  the two power losses for which it is false (section 4): that inside `Start` leaves a part of the
  rows.

Only model-checked, for the instances above: all of `Messages`, whose reader and builder are
recursive operators; and of the engine `QuietIsNotDownloading` after a cancellation (`engine_cancel`).
Liveness (`DownloadEnds`, `CancelReturns`, `UnlockIsNoticed`,
`InstallEnds`, `CallsReturn`, `EveryCallAnswered`) is out of the prover's reach and stays with TLC.

## 6. Not modelled

- Databases, preferences, file, hash, JSON and time utilities, device adapters: I/O and data
  conversion, which appear as atomic steps or nondeterministic results of the modelled callers.
- The parsing of the server's answer (`firmware_check_analyze_utils.cpp`): its outcome is a choice
  of the check in `FirmwareFlow`.
- `DownloadThread` of `progress_thread.cpp`: no code instantiates it.
- `update_notify.cpp`, which starts an ability of the update application, beyond the text of the
  notice (in `Messages`); the notifications to the user; the dump command.
- The exported constants of the bindings beyond the events and enum values a property tells apart.
- The network manager's observer and its list of callbacks beyond the one the engine registers;
  the timer service itself; two unlocked refreshes of one alarm at the same time.
- The variants ending in `_empty` and `_fake`, which replace features that a product leaves out,
  except the empty online updater, which is a build of `ServiceCalls`.
- Interactions across modules that no module composes: two streamed installs at once, and the
  firmware flow above a modelled engine; each side is a nondeterministic environment of the other.

## 7. Plan

1. *Done*: `DownloadFile`, `DownloadStatus`, `DownloadEngine`, `ServiceLifecycle`, `FirmwareFlow`,
   `StreamInstall` with the abstract `StreamRow`, `ServiceCalls`, `ClientEvents`, `JsCalls`,
   `Messages`.
2. *Done*: the proofs of section 5.
3. Proofs: `QuietIsNotDownloading` of the engine beyond the first cancellation.
4. Model: the callbacks of `NetManager` and its observer, the night alarm whose timer fails.
