-------------------------- MODULE ServiceLifecycle --------------------------
(***************************************************************************)
(* One system ability from its start to its exit: OnStart with the user    *)
(* unlock observer, the registry of client callbacks with their death      *)
(* recipients, and the idle loop that unloads the service after it told    *)
(* the system ability manager when to start it again.                      *)
(*                                                                         *)
(* Concurrent actors: the main thread in OnStart (`main'), the ffrt tasks  *)
(* that unlock events submit (`tasks'), binder threads with calls and      *)
(* death notices of clients, and the timer of the idle loop (`loop').      *)
(*                                                                         *)
(* Times are abstracted to what the code compares them with: a delay is    *)
(* "now" (less than 30 s, which UpdateStartupPolicy refuses), "near" (up   *)
(* to KEEP_ALIVE_THRESHOLD) or "far" (up to a day).  The saved time of the *)
(* next automatic upgrade may also be "ahead" (more than a day), "past" or *)
(* "unset".  A refresh of its alarm is one step: the code takes no lock    *)
(* there.  No extension module is loaded.                                  *)
(***************************************************************************)
EXTENDS Integers, FiniteSets

CONSTANTS
    Clients,        \* UpgradeInfo: the key of a client in clientProxyMap_
    MaxProcesses,   \* bound: processes a client goes through
    MaxEvents,      \* bound: unlock events delivered to one observer
    MaxCalls,       \* bound: calls of RegisterUpdateCallback
    Faults          \* TRUE: account queries, subscriptions and timers may fail

ASSUME LifecycleAssumption ==
    /\ IsFiniteSet(Clients)
    /\ MaxProcesses \in Nat \ {0} /\ MaxEvents \in Nat /\ MaxCalls \in Nat
    /\ Faults \in BOOLEAN

VARIABLES
    up,             \* the service process runs
    main,           \* where OnStart is
    unlocked,       \* the active user is unlocked
    subscribed,     \* userUnlockSubscriber_ is subscribed
    tasks,          \* the ffrt tasks of OnReceiveEvent
    initialized,    \* UpdateUserUnlockObserver::initialized_
    inits,          \* history: how often InitBusinessAfterUnlock began
    unsubscribe,    \* UnregisterUserUnlockListener is submitted
    looper,         \* the timer of the idle loop is registered
    process,        \* the process of each client, 0 while it is dead
    born,           \* how many processes each client had
    clientProxyMap, \* the process whose callback is registered, or 0
    isRemoteIdle,   \* AccessManager::isRemoteIdle_
    calls,          \* calls of RegisterUpdateCallback between its two locks
    called,         \* how many calls were made
    deaf,           \* history: processes that died before they were watched
    watched,        \* processes with a death recipient
    notices,        \* death notices on their way to OnRemoteDied
    busy,           \* FirmwareManager::IsIdle is false
    due,            \* auto_upgrade_time, saved: how far away it is
    needRetry,      \* need_retry_check, saved: a check could not be made
    alarm,          \* autoTimerId_: "none", "set", or "stale" once it fired
    delayInit,      \* the thread of FirmwareManager::DelayInit is under way
    loop,           \* where the idle loop is
    planned,        \* the delay in scheduleTask_, kept until the next start
    policy          \* the start policy the system ability manager has

observer == <<subscribed, tasks, initialized, inits, unsubscribe>>
registry == <<clientProxyMap, isRemoteIdle, calls, watched, notices, deaf>>
world    == <<unlocked, process, born, called, policy>>
upgrade  == <<due, needRetry, alarm, delayInit>>
idling   == <<looper, busy, upgrade, loop, planned>>
vars == <<up, main, observer, registry, world, idling>>

TaskIds == 1..MaxEvents
NoTasks == [n \in TaskIds |-> "none"]
Delays  == {"now", "near", "far"}
Future  == Delays \cup {"ahead"}

Init ==
    /\ up = FALSE /\ main = "off"
    /\ unlocked = FALSE /\ subscribed = FALSE /\ tasks = NoTasks
    /\ initialized = FALSE /\ inits = 0 /\ unsubscribe = FALSE
    /\ looper = FALSE
    /\ process = [c \in Clients |-> 0] /\ born = [c \in Clients |-> 0]
    /\ clientProxyMap = [c \in Clients |-> 0] /\ isRemoteIdle = TRUE
    /\ calls = {} /\ called = 0 /\ watched = {} /\ notices = {} /\ deaf = {}
    /\ busy = FALSE /\ due = "unset" /\ needRetry = FALSE
    /\ alarm = "none" /\ delayInit = FALSE /\ loop = "wait" /\ planned = "far"
    /\ policy = "none"

-----------------------------------------------------------------------------
(* OnStart and the user unlock observer                                    *)

(* The process ends, and with it everything it kept in memory; the status  *)
(* of the firmware task, the time of the next upgrade and the retry flag   *)
(* are persisted, the timer is not.                                        *)
ProcessEnds ==
    /\ up' = FALSE /\ main' = "off"
    /\ subscribed' = FALSE /\ tasks' = NoTasks
    /\ initialized' = FALSE /\ inits' = 0 /\ unsubscribe' = FALSE
    /\ looper' = FALSE
    /\ clientProxyMap' = [c \in Clients |-> 0] /\ isRemoteIdle' = TRUE
    /\ calls' = {} /\ watched' = {} /\ notices' = {} /\ deaf' = {}
    /\ busy' \in {busy, FALSE}
    /\ alarm' = "none" /\ delayInit' = FALSE
    /\ UNCHANGED <<unlocked, process, born, called, policy, due, needRetry, planned>>

(* The system ability manager loads the service: at boot, on a call or by  *)
(* the start policy.                                                       *)
OnStart ==
    /\ ~up
    /\ up' = TRUE /\ main' = "check" /\ loop' = "wait" /\ planned' = "far"
    /\ UNCHANGED <<observer, registry, world, looper, busy, upgrade>>

(* UserAccountHelper::IsActiveUserUnlocked: an error counts as locked.     *)
IsActiveUserUnlocked == {unlocked, unlocked /\ ~Faults}

(* UpdateUserUnlockObserver::Start, the first query.                       *)
StartCheck ==
    /\ main = "check"
    /\ \E answer \in IsActiveUserUnlocked :
          main' = IF answer THEN "try" ELSE "register"
    /\ UNCHANGED <<up, observer, registry, world, idling>>

RegisterUserUnlockListener ==
    /\ main = "register"
    /\ subscribed' \in {TRUE, ~Faults}
    /\ main' = "recheck"
    /\ UNCHANGED <<up, tasks, initialized, inits, unsubscribe, registry, world,
                   idling>>

StartRecheck_mut ==
    /\ main = "recheck"
    /\ main' = "publish"
    /\ UNCHANGED <<up, observer, registry, world, idling>>

(* The second query: the user may have unlocked before the subscription.   *)
StartRecheck ==
    /\ main = "recheck"
    /\ \E answer \in IsActiveUserUnlocked :
          main' = IF answer THEN "try" ELSE "publish"
    /\ UNCHANGED <<up, observer, registry, world, idling>>

Publish ==
    /\ main = "publish"
    /\ main' = "on"
    /\ UNCHANGED <<up, observer, registry, world, idling>>

(* A user unlocks.  A subscriber receives the event and submits a task.    *)
OnReceiveEvent ==
    /\ unlocked' = TRUE
    /\ \/ /\ ~subscribed /\ ~unlocked
          /\ UNCHANGED tasks
       \/ \E n \in TaskIds :
             /\ subscribed /\ tasks[n] = "none"
             /\ \A m \in TaskIds : m < n => tasks[m] # "none"
             /\ tasks' = [tasks EXCEPT ![n] = "try"]
    /\ UNCHANGED <<up, main, subscribed, initialized, inits, unsubscribe,
                   registry, process, born, called, policy, idling>>

TryNotifyUnlocked_mut ==
    /\ initialized' = TRUE
    /\ inits' = inits + 1
    /\ UNCHANGED <<subscribed, unsubscribe>>

(* TryNotifyUnlocked: the compare-exchange lets one caller through; the    *)
(* others unsubscribe.                                                     *)
TryNotifyUnlocked ==
    IF initialized
    THEN /\ subscribed' = FALSE
         /\ UNCHANGED <<initialized, inits, unsubscribe>>
    ELSE /\ initialized' = TRUE
         /\ inits' = inits + 1
         /\ UNCHANGED <<subscribed, unsubscribe>>

(* FirmwareManager::Init starts DelayInit in a thread.  After an           *)
(* interrupted upgrade (PROCESS_ENV_RESET) it first removes the            *)
(* preferences and the database.                                           *)
InitFirmware ==
    /\ delayInit' = TRUE
    /\ \/ UNCHANGED <<due, needRetry, busy>>
       \/ due' = "unset" /\ needRetry' = FALSE /\ busy' = FALSE
    /\ UNCHANGED alarm

(* InitBusinessAfterUnlock: NetManager::Init and StartupManager::Start,    *)
(* which registers the idle loop; then the unsubscription is submitted.    *)
InitBusinessAfterUnlock ==
    /\ looper' = TRUE
    /\ InitFirmware
    /\ unsubscribe' = TRUE
    /\ UNCHANGED <<subscribed, initialized, inits, loop, planned>>

MainTry ==
    /\ main = "try"
    /\ TryNotifyUnlocked
    /\ main' = IF initialized THEN "publish" ELSE "init"
    /\ UNCHANGED <<up, tasks, registry, world, idling>>

MainInit ==
    /\ main = "init"
    /\ InitBusinessAfterUnlock
    /\ main' = "publish"
    /\ UNCHANGED <<up, tasks, registry, world>>

TaskTry(n) ==
    /\ tasks[n] = "try"
    /\ TryNotifyUnlocked
    /\ tasks' = [tasks EXCEPT ![n] = IF initialized THEN "done" ELSE "init"]
    /\ UNCHANGED <<up, main, registry, world, idling>>

TaskInit(n) ==
    /\ tasks[n] = "init"
    /\ InitBusinessAfterUnlock
    /\ tasks' = [tasks EXCEPT ![n] = "done"]
    /\ UNCHANGED <<up, main, registry, world>>

(* The subscriber is forgotten; should the unsubscription itself fail, the *)
(* events that still come find initialized_ set and change nothing.        *)
UnregisterUserUnlockListener ==
    /\ unsubscribe
    /\ subscribed' = FALSE /\ unsubscribe' = FALSE
    /\ UNCHANGED <<up, main, tasks, initialized, inits, registry, world, idling>>

-----------------------------------------------------------------------------
(* The registry of client callbacks                                        *)

ClientStarts(c) ==
    /\ process[c] = 0 /\ born[c] < MaxProcesses
    /\ born' = [born EXCEPT ![c] = @ + 1]
    /\ process' = [process EXCEPT ![c] = born'[c]]
    /\ UNCHANGED <<up, main, observer, registry, unlocked, called, policy, idling>>

(* A client dies: its death recipient, if there is one, is notified.       *)
ClientDies(c) ==
    /\ process[c] # 0
    /\ process' = [process EXCEPT ![c] = 0]
    /\ watched' = watched \ {<<c, process[c]>>}
    /\ notices' = notices \cup ({<<c, process[c]>>} \cap watched)
    /\ UNCHANGED <<up, main, observer, clientProxyMap, isRemoteIdle, calls, deaf,
                   unlocked, born, called, policy, idling>>

(* UnregisterUpdateCallback under clientProxyMapLock_.                     *)
UnregisterUpdateCallback(c) ==
    IF clientProxyMap[c] = 0
    THEN UNCHANGED <<watched, clientProxyMap, isRemoteIdle>>
    ELSE /\ watched' = watched \ {<<c, clientProxyMap[c]>>}
         /\ clientProxyMap' = [clientProxyMap EXCEPT ![c] = 0]
         /\ isRemoteIdle' = (\A d \in Clients : clientProxyMap'[d] = 0)

(* CallbackEnter refuses a call before the user unlocked.                  *)
CallbackEnter == main = "on" /\ initialized

(* RegisterUpdateCallback: the old entry goes, the lock is released, ...   *)
(* One process has one call under way at a time.                           *)
RegisterUpdateCallback(c) ==
    /\ CallbackEnter /\ process[c] # 0 /\ called < MaxCalls
    /\ <<c, process[c]>> \notin calls
    /\ called' = called + 1
    /\ UnregisterUpdateCallback(c)
    /\ calls' = calls \cup {<<c, process[c]>>}
    /\ UNCHANGED <<up, main, observer, notices, deaf, unlocked, process, born,
                   policy, idling>>

AddDeathRecipient_mut(c, p) == UNCHANGED watched

(* AddDeathRecipient: of a process that is already dead it fails, and the  *)
(* failure is ignored.                                                     *)
AddDeathRecipient(c, p) ==
    watched' = IF process[c] = p THEN watched \cup {<<c, p>>} ELSE watched

(* ... taken again, and the new entry inserted unless there is one.        *)
InsertClientProxy(c, p) ==
    /\ <<c, p>> \in calls
    /\ calls' = calls \ {<<c, p>>}
    /\ AddDeathRecipient(c, p)
    /\ clientProxyMap' = [clientProxyMap EXCEPT ![c] = IF @ = 0 THEN p ELSE @]
    /\ isRemoteIdle' = FALSE
    /\ deaf' = IF process[c] = p THEN deaf ELSE deaf \cup {<<c, p>>}
    /\ UNCHANGED <<up, main, observer, notices, world, idling>>

(* The client unregisters.                                                 *)
ClientUnregisters(c) ==
    /\ CallbackEnter /\ process[c] # 0 /\ clientProxyMap[c] # 0
    /\ UnregisterUpdateCallback(c)
    /\ UNCHANGED <<up, main, observer, calls, notices, deaf, world, idling>>

(* OnRemoteDied knows the client, not the process that died.               *)
OnRemoteDied(c, p) ==
    /\ <<c, p>> \in notices
    /\ notices' = notices \ {<<c, p>>}
    /\ UnregisterUpdateCallback(c)
    /\ UNCHANGED <<up, main, observer, calls, deaf, world, idling>>

-----------------------------------------------------------------------------
(* The idle loop                                                           *)

(* RegisterTimer: the timer service creates and starts it, or fails.       *)
RegisterTimer == IF Faults THEN {"set", "none"} ELSE {"set"}

(* RegisterAlarm refuses a time that is not in the future.                 *)
RegisterAlarm(time) ==
    alarm' \in IF time \in Future THEN RegisterTimer ELSE {"none"}

(* RegisterAutoUpgradeTime saves a new time and replaces the timer.        *)
RegisterAutoUpgradeTime(times) ==
    \E time \in times : due' = time /\ RegisterAlarm(time)

KeepAutoUpgradeTime_mut == UNCHANGED <<due, alarm>>

(* ... a time that is kept needs no timer if there is one.                 *)
KeepAutoUpgradeTime ==
    /\ due' = due
    /\ IF alarm = "none" THEN RegisterAlarm(due) ELSE alarm' = alarm

(* HandleNetChange: a time that is past or more than a day away is         *)
(* replaced by one in 10 s; for a retry GetRandTime gives 0 to 55 minutes, *)
(* whatever its lower bound says.                                          *)
HandleNetChange ==
    \/ /\ due \notin Delays
       /\ RegisterAutoUpgradeTime({"now"})
       /\ needRetry' = FALSE
    \/ /\ due \in Delays /\ needRetry
       /\ RegisterAutoUpgradeTime({"past", "now", "near"})
       /\ needRetry' = FALSE
    \/ /\ due \in Delays /\ ~needRetry
       /\ KeepAutoUpgradeTime
       /\ UNCHANGED needRetry

(* HandleEvent on a boot, a process start or a network change refreshes    *)
(* the alarm; what else it starts is FirmwareFlow.                         *)
HandleEvent == HandleNetChange

(* DelayInit ends with the event of the boot or of the process start.      *)
DelayInit ==
    /\ delayInit
    /\ delayInit' = FALSE
    /\ HandleEvent
    /\ UNCHANGED <<up, main, observer, registry, world, looper, busy, loop, planned>>

(* The network changes; the listener is registered early in DelayInit.     *)
OnNetChanged ==
    /\ looper
    /\ HandleEvent
    /\ UNCHANGED <<up, main, observer, registry, world, looper, busy, delayInit,
                   loop, planned>>

(* CalculateAutoUpgradeTime for DURATION: a day from now, give or take     *)
(* half an hour.  EVENT is HandleNetChange, RAND is asked for by nobody.   *)
CalculateAutoUpgradeTime == {"far", "ahead"}

(* GetStepAfterInit of the automatic upgrade sets the next one; without a  *)
(* network a retry is noted, and a busy task is left alone.                *)
GetStepAfterInit ==
    /\ RegisterAutoUpgradeTime(CalculateAutoUpgradeTime)
    /\ \/ needRetry' = TRUE /\ UNCHANGED busy
       \/ UNCHANGED needRetry /\ busy' \in {busy, TRUE}

(* The timer fires.  DoAutoUpgrade is refused while the task is UPDATING,  *)
(* and then nothing replaces the timer.                                    *)
DoAutoUpgrade ==
    /\ alarm = "set" /\ due = "past"
    /\ \/ busy /\ alarm' = "stale" /\ UNCHANGED <<due, needRetry, busy>>
       \/ GetStepAfterInit
    /\ UNCHANGED <<up, main, observer, registry, world, looper, delayInit, loop,
                   planned>>

(* A check, a download or an installation begins or ends: GetStepAfterCheck*)
(* notes a retry after an automatic check that failed.                     *)
FirmwareWorks ==
    /\ initialized
    /\ busy' = ~busy
    /\ needRetry' \in {needRetry, needRetry \/ busy}
    /\ UNCHANGED <<up, main, observer, registry, world, looper, due, alarm,
                   delayInit, loop, planned>>

TimePasses ==
    /\ due \in Future
    /\ due' = CASE due = "ahead" -> "far" [] due = "far" -> "near"
                 [] due = "near" -> "now" [] due = "now" -> "past"
    /\ UNCHANGED <<up, main, observer, registry, world, looper, busy, needRetry,
                   alarm, delayInit, loop, planned>>

(* GetAutoUpgradeScheduleTask: no less than nothing, no more than a day.   *)
GetAutoUpgradeScheduleTask ==
    CASE due = "past" -> "now" [] due = "ahead" -> "far" [] OTHER -> due

(* TaskManage: the delay to the nearest task, a day if there is none.      *)
TaskManage == IF due = "unset" THEN "far" ELSE GetAutoUpgradeScheduleTask

(* AccessManager::IsIdle: no client, and the firmware access is idle.      *)
IsIdle == isRemoteIdle /\ ~busy

(* IdleCheck: TaskManage's verdict on the keep-alive threshold is dropped. *)
IdleCheck ==
    /\ looper /\ loop = "wait"
    /\ IsIdle
    /\ planned' = TaskManage
    /\ loop' = "schedule"
    /\ UNCHANGED <<up, main, observer, registry, world, looper, busy, upgrade>>

PreExit_mut ==
    /\ loop = "schedule"
    /\ loop' = "exit"
    /\ policy' \in {policy} \cup ({planned} \ {"now"})
    /\ UNCHANGED <<up, main, observer, registry, unlocked, process, born, called,
                   looper, busy, upgrade, planned>>

PreExitSoon_mut ==
    /\ loop = "schedule"
    /\ \/ policy' = planned /\ loop' = "exit"
       \/ policy' = policy /\ loop' = "wait"
    /\ UNCHANGED <<up, main, observer, registry, unlocked, process, born, called,
                   looper, busy, upgrade, planned>>

(* UpdateStartupPolicy succeeds: it refuses less than 30 s.                *)
UpdateStartupPolicy ==
    /\ planned # "now"
    /\ policy' = planned

(* PreExit: OnDemandSchedule sets the start policy, or the system ability  *)
(* manager refuses it under both event names.                              *)
PreExit ==
    /\ loop = "schedule"
    /\ \/ UpdateStartupPolicy /\ loop' = "exit"
       \/ policy' = policy /\ loop' = "wait"
    /\ UNCHANGED <<up, main, observer, registry, unlocked, process, born, called,
                   looper, busy, upgrade, planned>>

(* SAExit: the manager unloads the service, or does not.                   *)
SAExit ==
    /\ loop = "exit"
    /\ \/ ProcessEnds /\ loop' = "exited"
       \/ /\ loop' = "wait"
          /\ UNCHANGED <<up, main, observer, registry, world, looper, busy, upgrade,
                         planned>>

(* The process is killed.                                                  *)
Kill ==
    /\ up
    /\ ProcessEnds /\ loop' = "wait"

MainNext ==
    \/ StartCheck \/ RegisterUserUnlockListener \/ StartRecheck
    \/ MainTry \/ MainInit \/ Publish

TaskNext(n) == TaskTry(n) \/ TaskInit(n)

LoopNext == IdleCheck \/ PreExit \/ SAExit

Next ==
    \/ OnStart \/ MainNext \/ OnReceiveEvent
    \/ \E n \in TaskIds : TaskNext(n)
    \/ UnregisterUserUnlockListener
    \/ \E c \in Clients : \/ ClientStarts(c) \/ ClientDies(c)
                          \/ RegisterUpdateCallback(c) \/ ClientUnregisters(c)
                          \/ \E p \in 1..MaxProcesses :
                                InsertClientProxy(c, p) \/ OnRemoteDied(c, p)
    \/ DelayInit \/ OnNetChanged \/ DoAutoUpgrade
    \/ FirmwareWorks \/ TimePasses \/ LoopNext \/ Kill

Spec == Init /\ [][Next]_vars

-----------------------------------------------------------------------------
(* Properties                                                              *)

(* Every variable has its type.                                            *)
TypeOK ==
    /\ {up, unlocked, subscribed, initialized, unsubscribe, looper, isRemoteIdle,
        busy, needRetry, delayInit} \subseteq BOOLEAN
    /\ main \in {"off", "check", "register", "recheck", "try", "init", "publish", "on"}
    /\ tasks \in [TaskIds -> {"none", "try", "init", "done"}]
    /\ inits \in Nat /\ called \in 0..MaxCalls
    /\ {process, born, clientProxyMap} \subseteq [Clients -> 0..MaxProcesses]
    /\ \A S \in {calls, watched, notices, deaf} :
          S \subseteq Clients \X (1..MaxProcesses)
    /\ due \in Future \cup {"past", "unset"} /\ planned \in Delays
    /\ alarm \in {"none", "set", "stale"}
    /\ loop \in {"wait", "schedule", "exit", "exited"}
    /\ policy \in {"none", "near", "far"}

(* Whoever notices the unlocked user first, OnStart before or after it     *)
(* subscribed or any number of unlock events, the business of the service  *)
(* is initialised once: a second StartupManager::Start would start a       *)
(* second FirmwareManager::DelayInit beside the first.                     *)
InitializedOnce == inits <= 1

(* A callback that is still registered although its process is dead is     *)
(* about to be removed by OnRemoteDied, whatever the order of calls,       *)
(* deaths and restarts: no dead client keeps isRemoteIdle_ false.  The one *)
(* exception is a process that died before AddDeathRecipient.              *)
DeadClientIsNoticed ==
    \A c \in Clients :
       LET p == clientProxyMap[c]
       IN  p # 0 /\ process[c] # p => <<c, p>> \in notices \cup deaf

(* Something starts the next automatic upgrade.  While the service runs    *)
(* and DelayInit is through, a saved time that lies ahead has a running    *)
(* timer, whatever restarts, refreshes and refused upgrades came before: a *)
(* timer that fired, or died with an older process, never passes for one.  *)
(* Only the timer service may fail it.  When the service has unloaded      *)
(* itself, the start policy in force is the one TaskManage computed for    *)
(* this exit, not an older one or none.                                    *)
NextUpgradeIsAwaited ==
    /\ looper /\ ~delayInit /\ due \in Future =>
          alarm = "set" \/ (Faults /\ alarm = "none")
    /\ loop = "exited" => policy = planned

(* "The service may exit only if the nearest task is further away than the *)
(* keep-alive threshold" (schedule_manager.cpp:94).  It does not hold; no  *)
(* run claims it, the README has the bounds and the trace.                 *)
ExitOnlyFarFromWork == loop = "exit" => planned = "far"

(* OnStart, the submitted ffrt tasks and binder threads go on.             *)
Fairness ==
    /\ WF_vars(MainNext)
    /\ \A n \in TaskIds : WF_vars(TaskNext(n))
    /\ WF_vars(UnregisterUserUnlockListener)

FairSpec == Spec /\ Fairness

(* An unlocked user is noticed, whether the unlock comes before, during or *)
(* after the subscription, and the idle loop is registered: until then     *)
(* CallbackEnter refuses every call and the service never exits.           *)
UnlockIsNoticed == unlocked /\ up ~> looper \/ ~up

=============================================================================
