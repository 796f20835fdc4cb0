---------------------------- MODULE ServiceCalls ----------------------------
(***************************************************************************)
(* The requests the service takes: who may call, the extension that may    *)
(* take a request over, and what each handler does, with two IPC threads.  *)
(*                                                                         *)
(* A handler that waits or writes twice is several steps: CheckNewVersion  *)
(* waits for a thread that was given references into the caller's frame;   *)
(* ForceFactoryReset erases the keys and then resets; Download, Upgrade and*)
(* Cancel pass a filter, read the status and read it again in the flow that*)
(* they start; GetNewVersionInfo reads two tables.                         *)
(* What the flows do with the task is FirmwareFlow's matter: here they are *)
(* the few status changes the handlers look at.                            *)
(***************************************************************************)
EXTENDS Integers, Sequences, FiniteSets

CONSTANTS
    Slots,      \* the IPC threads of the service
    Codes,      \* the requests that are made, of AllCodes
    Callers,    \* who calls: token, uid, system (an application of the system), perms
    Infos,      \* the UpgradeInfos clients use: app and subType
    Hookable,   \* the codes an extension hooks
    MaxCalls    \* bound: calls that are made

None == "none"
NoInfo == [app |-> None, subType |-> None]
Nobody == [token |-> None, uid |-> None, system |-> FALSE, perms |-> {}]

ResetCodes == {"FACTORY_RESET", "FORCE_FACTORY_RESET", "DEEP_FACTORY_RESET"}
LocalCodes == {"APPLY_NEW_VERSION", "VERIFY_UPGRADE_PACKAGE", "GET_DEEP_FACTORY_RESET_INFO"}
OnlineCodes == {"CHECK_VERSION", "DOWNLOAD", "UPGRADE", "CLEAR_ERROR", "CANCEL", "GET_NEW_VERSION",
                "GET_NEW_VERSION_DESCRIPTION", "GET_CURRENT_VERSION", "GET_CURRENT_VERSION_DESCRIPTION",
                "GET_TASK_INFO", "GET_POLICY"}
\* The service answers these itself, whatever the updater behind it can do.
UnsupportedCodes == {"PAUSE_DOWNLOAD", "RESUME_DOWNLOAD"}
AllCodes == ResetCodes \cup LocalCodes \cup OnlineCodes \cup UnsupportedCodes

ASSUME CodesAssumption == Codes \subseteq AllCodes /\ Hookable \subseteq Codes
ASSUME CallsAssumption == MaxCalls \in Nat

VARIABLES
    build,      \* how the device installs, or "empty": the build without an online updater
    stage,      \* of OnStart
    tries,      \* dlopen calls so far
    loaded,     \* the extension is loaded
    hooked,     \* the codes of onRemoteRequestFuncMap_
    unlocked,   \* the unlock observer has seen the user unlock
    mdm,        \* the device administrator forbids resets
    calls,      \* per IPC thread, the call it handles or has answered last
    made,
    updateImpMap,  \* the infos that have an updater
    checkComplete, \* checkComplete_ of the updater of an info
    checking,      \* the status cache's flag
    threads,       \* check threads: whose call, of which updater, where
    db,            \* versions of the task and of the components, status of the task
    recent,        \* "download", "upgrade": triggered less than a second ago
    starts,        \* flows that were started and have not begun, or have begun
    keys, reboot,  \* what a reset leaves behind
    \* History, read by the properties only.
    overlap,    \* the updaters whose checks overlapped
    timedOut,   \* the updaters one of whose checks timed out
    smashed,    \* a thread wrote into the frame of a call that had returned
    unseen,     \* a start did not show in the status: after a second, or for an install over it
    crossed,    \* a check cleared the tables while another was filling them
    told        \* a force reset was answered with an error after it erased the keys

procVars == <<build, stage, tries, loaded, hooked>>
envVars == <<unlocked, mdm>>
chkVars == <<updateImpMap, checkComplete, checking, threads>>
devVars == <<keys, reboot>>
history == <<overlap, timedOut, smashed, unseen, crossed, told>>
vars == <<procVars, envVars, calls, made, chkVars, db, recent, starts, devVars, history>>

\* A device with one boot slot leaves the install to the updater.  With two it
\* installs the files it downloaded, or streams the packages.
InstallTypes == {"UPDATER", "SYS_INSTALLER", "STREAM_INSTALLER"}

NoCall == [pc |-> "idle", code |-> None, who |-> Nobody, info |-> NoInfo, id |-> 0, fair |-> FALSE,
           err |-> None, got |-> <<>>]

Init ==
    /\ build \in InstallTypes \cup {"empty"} /\ stage = "load" /\ tries = 0 /\ loaded = FALSE /\ hooked = {}
    /\ unlocked = FALSE /\ mdm = FALSE
    /\ calls = [s \in Slots |-> NoCall] /\ made = 0
    /\ updateImpMap = {} /\ checkComplete = [i \in Infos |-> FALSE] /\ checking = FALSE /\ threads = {}
    /\ db \in [task : {1}, comps : {1},
                status : {"CHECK_VERSION_SUCCESS"} \cup
                           IF build \in {"STREAM_INSTALLER", "empty"} THEN {} ELSE {"DOWNLOAD_SUCCESS"}]
    /\ recent = {} /\ starts = [download |-> 0, upgrade |-> 0]
    /\ keys = "present" /\ reboot = None
    /\ overlap = {} /\ timedOut = {} /\ smashed = FALSE /\ unseen = FALSE /\ crossed = FALSE /\ told = FALSE
-----------------------------------------------------------------------------
(***************************************************************************)
(* OnStart, and the extension.                                             *)
(***************************************************************************)
dlopenTries == 2

\* A path that is empty, elsewhere or of no file loads nothing.
LoadModule(opens) ==
    /\ stage = "load"
    /\ loaded' = opens
    /\ IF opens \/ tries + 1 = dlopenTries THEN stage' = "publish" /\ tries' = 0
       ELSE stage' = "load" /\ tries' = tries + 1
    /\ UNCHANGED <<build, hooked, envVars, calls, made, chkVars, db, recent, starts, devVars, history>>

NoModule ==
    /\ stage = "load" /\ tries = 0 /\ stage' = "publish"
    /\ UNCHANGED <<build, tries, loaded, hooked, envVars, calls, made, chkVars, db, recent, starts, devVars, history>>

Publish ==
    /\ stage = "publish" /\ stage' = "up"
    /\ UNCHANGED <<build, tries, loaded, hooked, envVars, calls, made, chkVars, db, recent, starts, devVars, history>>

\* The extension hooks when it is loaded, or when it is told of OnStart:
\* by then calls are coming in.
HookFunc(code) ==
    /\ loaded /\ code \notin hooked
    /\ hooked' = hooked \cup {code}
    /\ UNCHANGED <<build, stage, tries, loaded, envVars, calls, made, chkVars, db, recent, starts, devVars, history>>

IsMapFuncExist(code) == code \in hooked

\* Bound: while the service takes calls and one is to come, without an
\* extension, as nothing else looks at the flag.
UserUnlocks ==
    /\ stage = "up" /\ made < MaxCalls /\ ~unlocked /\ ~loaded /\ unlocked' = TRUE
    /\ UNCHANGED <<procVars, mdm, calls, made, chkVars, db, recent, starts, devVars, history>>

\* The administrator forbids resets.  Bound: while one is being handled and a
\* call is to come, as nothing else looks at the parameter.
MdmForbids ==
    /\ made < MaxCalls /\ ~mdm /\ mdm' = TRUE /\ \E s \in Slots : calls[s].code \in ResetCodes
    /\ UNCHANGED <<procVars, unlocked, calls, made, chkVars, db, recent, starts, devVars, history>>
-----------------------------------------------------------------------------
(***************************************************************************)
(* Who may call.                                                           *)
(***************************************************************************)
IsUserUnlockRequired(code) == code \notin ResetCodes \cup LocalCodes

IsCallerValid(who) ==
    \/ who.token = "HAP" /\ who.system
    \/ who.token = "NATIVE" /\ who.uid \in {"ROOT", "EDM", "CDM"}

Permission(code) ==
    CASE code \in {"FACTORY_RESET", "DEEP_FACTORY_RESET", "GET_DEEP_FACTORY_RESET_INFO"} -> "FACTORY_RESET"
      [] code = "FORCE_FACTORY_RESET" -> "FORCE_FACTORY_RESET"
      [] OTHER -> "UPDATE_SYSTEM"

IsPermissionGranted(who, code) == Permission(code) \in who.perms

IsResetDisabledByMdm(code) == code \in ResetCodes /\ mdm

PermissionCheck(who, code) ==
    CASE ~IsCallerValid(who) -> "NOT_SYSTEM_APP"
      [] ~IsPermissionGranted(who, code) -> "APP_NOT_GRANTED"
      [] IsResetDisabledByMdm(code) -> "MDM_DISABLE_RESET"
      [] OTHER -> "SUCCESS"

\* A hooked request is the extension's to check.  Only the full build asks
\* for the unlock, and only when it has no extension.
Enter(who, code) ==
    CASE build # "empty" /\ ~loaded /\ IsUserUnlockRequired(code) /\ ~unlocked -> "FORBIDDEN"
      [] loaded /\ IsMapFuncExist(code) -> "SUCCESS"
      [] OTHER -> PermissionCheck(who, code)

Busy == {s \in Slots : calls[s].pc \notin {"idle", "done"}}
At(s, pc) == calls[s].pc = pc
Goto(s, pc) == calls' = [calls EXCEPT ![s].pc = pc]
\* What a call was answered is kept where a property asks for it.
Ended(call, err) ==
    IF call.code \in {"CHECK_VERSION", "GET_NEW_VERSION"} /\ call.pc # "entered"
    THEN [call EXCEPT !.pc = "done", !.err = err, !.who = Nobody, !.id = 0] ELSE NoCall
Answer(s, err) == calls' = [calls EXCEPT ![s] = Ended(@, err)]

CallbackEnter(s, code, who, info) ==
    /\ stage = "up" /\ s \notin Busy /\ made < MaxCalls
    /\ made' = made + 1
    /\ LET call == [NoCall EXCEPT !.pc = "entered", !.code = code, !.who = who, !.info = info,
                                  !.id = made', !.fair = code \in ResetCodes /\ ~mdm]
           err == Enter(who, code)
       IN calls' = [calls EXCEPT ![s] = IF err = "SUCCESS" THEN call ELSE Ended(call, err)]
    /\ UNCHANGED <<procVars, envVars, chkVars, db, recent, starts, devVars, history>>

\* The empty build: no online updater, no local one.
Unsupported(code) ==
    \/ code \in UnsupportedCodes
    \/ build = "empty" /\ code \in OnlineCodes \cup {"APPLY_NEW_VERSION", "VERIFY_UPGRADE_PACKAGE"}

\* Mutant: the hook is not looked up again.
CallbackParcel_mut(code) == IF Unsupported(code) THEN "UN_SUPPORT" ELSE "DISPATCH"

\* Who serves a request that was let in.  The dispatch, and with it the
\* handler, follows at once: its first step asks this.
CallbackParcel(code) ==
    CASE loaded /\ IsMapFuncExist(code) -> "EXTENSION"
      [] Unsupported(code) -> "UN_SUPPORT"
      [] OTHER -> "DISPATCH"

HandleFunc(s) ==
    /\ At(s, "entered") /\ CallbackParcel(calls[s].code) # "DISPATCH"
    /\ Answer(s, CallbackParcel(calls[s].code))
    /\ UNCHANGED <<procVars, envVars, made, chkVars, db, recent, starts, devVars, history>>

Dispatched(s) == At(s, "entered") /\ CallbackParcel(calls[s].code) = "DISPATCH"
Open(s, code) == calls[s].code = code /\ Dispatched(s)

\* Only firmware has an updater; it is made for the first call of an info
\* and kept.
GetOnlineUpdater(s) ==
    /\ calls[s].info.subType = "FIRMWARE"
    /\ updateImpMap' = updateImpMap \cup {calls[s].info}

NoOnlineUpdater(s) ==
    /\ Dispatched(s) /\ calls[s].code \in OnlineCodes
    /\ calls[s].info.subType # "FIRMWARE"
    /\ Answer(s, "CALL_FAIL")
    /\ UNCHANGED <<procVars, envVars, made, chkVars, db, recent, starts, devVars, history>>
-----------------------------------------------------------------------------
(***************************************************************************)
(* CheckNewVersion.                                                        *)
(***************************************************************************)
\* GetStepAfterInit: a check that may not go ahead completes inside the
\* call, and wakes whoever waits for this updater.
IsNeedBlockCheck == checking \/ db.status = "UPDATING"

CheckNewVersion(s) ==
    LET me == calls[s]  i == calls[s].info  id == calls[s].id
        others == {t \in Slots \ {s} : calls[t].pc \in {"wait", "leave"} /\ calls[t].info = i}
    IN
    /\ Open(s, "CHECK_VERSION") /\ GetOnlineUpdater(s)
    /\ overlap' = IF others = {} THEN overlap ELSE overlap \cup {i}
    /\ \/ /\ IsNeedBlockCheck
          /\ calls' = [calls EXCEPT ![s].pc = "wait", ![s].got = <<"busy">>]
          /\ checkComplete' = [checkComplete EXCEPT ![i] = TRUE]
          /\ UNCHANGED <<checking, threads>>
       \/ /\ ~IsNeedBlockCheck
          /\ Goto(s, "wait")
          /\ checking' = TRUE /\ threads' = threads \cup {[id |-> id, info |-> i, pc |-> "ask"]}
          /\ UNCHANGED checkComplete
    /\ UNCHANGED <<procVars, envVars, made, db, recent, starts, devVars, timedOut, smashed, unseen, crossed, told>>

Moves(t, pc) == threads' = (threads \ {t}) \cup {[t EXCEPT !.pc = pc]}

\* What the socket gives: a new version or none, or an error, a file that is
\* no JSON, which come to a failed check.
ReadDataFromSSL == {"new", "none", "failed"}

\* The calls that read the two tables meanwhile.
Torn == [s \in Slots |-> [calls[s] EXCEPT !.fair = @ \/ (calls[s].code = "GET_NEW_VERSION" /\ s \in Busy)]]

\* ClearFirmwareInfo.
Cleared == [task |-> 0, comps |-> 0, status |-> "INIT"]

\* HandleCheckResult: the status says that the version is being worked on.
HasUndoneTask == db.status \in {"DOWNLOADING", "DOWNLOAD_PAUSE", "INSTALLING", "UPDATING"}

\* The server answers, or the connection fails.  Complete lowers the flag
\* first.  It may also never happen: the read has no timeout.  A new version
\* and the loss of one clear the tables.
CheckAnswers(t, found) ==
    LET replaces == found = "new" /\ ~HasUndoneTask /\ db.comps # 2
        clears == replaces \/ (found = "none" /\ ~HasUndoneTask)
    IN  /\ t.pc = "ask" /\ checking' = FALSE
        /\ Moves(t, IF replaces THEN "insert" ELSE "call")
        /\ db' = IF clears THEN Cleared ELSE db
        /\ calls' = IF clears THEN Torn ELSE calls
        /\ crossed' = (crossed \/ (clears /\ \E u \in threads \ {t} : u.pc \in {"insert", "insertTask"}))
        /\ UNCHANGED <<procVars, envVars, made, updateImpMap, checkComplete, recent, starts, devVars,
                       overlap, timedOut, smashed, unseen, told>>

\* Five minutes after the start the cache lets another check in.
IsCheckingExpires ==
    /\ checking /\ checking' = FALSE
    /\ UNCHANGED <<procVars, envVars, calls, made, updateImpMap, checkComplete, threads, db,
                   recent, starts, devVars, history>>

InsertComponents(t) ==
    /\ t.pc = "insert" /\ Moves(t, "insertTask")
    /\ db' = [db EXCEPT !.comps = 2] /\ calls' = Torn
    /\ UNCHANGED <<procVars, envVars, made, updateImpMap, checkComplete, checking, recent, starts, devVars, history>>

InsertTask(t) ==
    /\ t.pc = "insertTask" /\ Moves(t, "call")
    /\ db' = [db EXCEPT !.task = 2, !.status = "CHECK_VERSION_SUCCESS"] /\ calls' = Torn
    /\ UNCHANGED <<procVars, envVars, made, updateImpMap, checkComplete, checking, recent, starts, devVars, history>>

\* The callback writes through its references and raises the flag of the
\* updater, not of the call.
OnCheckComplete(t) ==
    LET waiting == {s \in Slots : calls[s].id = t.id /\ calls[s].pc \in {"wait", "leave"}} IN
    /\ t.pc = "call" /\ threads' = threads \ {t}
    /\ calls' = [s \in Slots |-> IF s \notin waiting THEN calls[s]
                                ELSE [calls[s] EXCEPT !.got = <<"own">>, !.err = IF @ = None THEN @ ELSE "SUCCESS"]]
    /\ smashed' = (smashed \/ waiting = {})
    /\ checkComplete' = [checkComplete EXCEPT ![t.info] = TRUE]
    /\ UNCHANGED <<procVars, envVars, made, updateImpMap, checking, db, recent, starts, devVars,
                   overlap, timedOut, unseen, crossed, told>>

\* The wait ends: the flag is up, or forty seconds are over.  Whoever has
\* seen that holds the updater's mutex until the flag is lowered.
HasMutex(s) == \A t \in Slots \ {s} : ~(At(t, "leave") /\ calls[t].info = calls[s].info)

WaitReturns(s) ==
    /\ At(s, "wait") /\ HasMutex(s) /\ checkComplete[calls[s].info]
    /\ calls' = [calls EXCEPT ![s].pc = "leave", ![s].err = "SUCCESS"]
    /\ UNCHANGED <<procVars, envVars, made, chkVars, db, recent, starts, devVars, history>>

\* Mutant: the wait has no limit.
WaitTimesOut_mut(s) == FALSE /\ UNCHANGED vars

WaitTimesOut(s) ==
    /\ At(s, "wait") /\ HasMutex(s) /\ ~checkComplete[calls[s].info]
    /\ calls' = [calls EXCEPT ![s].pc = "leave", ![s].err = "TIME_OUT"]
    /\ timedOut' = timedOut \cup {calls[s].info}
    /\ UNCHANGED <<procVars, envVars, made, chkVars, db, recent, starts, devVars, overlap,
                   smashed, unseen, crossed, told>>

\* Mutant: the flag stays up.
LeaveCheck_mut(s) ==
    /\ At(s, "leave") /\ Answer(s, calls[s].err)
    /\ UNCHANGED <<procVars, envVars, made, chkVars, db, recent, starts, devVars, history>>

LeaveCheck(s) ==
    /\ At(s, "leave") /\ Answer(s, calls[s].err)
    /\ checkComplete' = [checkComplete EXCEPT ![calls[s].info] = FALSE]
    /\ UNCHANGED <<procVars, envVars, made, updateImpMap, checking, threads, db, recent, starts, devVars, history>>
-----------------------------------------------------------------------------
(***************************************************************************)
(* Download, Upgrade, Cancel and ClearError.                               *)
(***************************************************************************)
\* The install type follows the components: a table without rows is no stream.
IsStreamUpgrade == build = "STREAM_INSTALLER" /\ db.comps # 0
GetInstallType == IF build = "STREAM_INSTALLER" /\ ~IsStreamUpgrade THEN "SYS_INSTALLER" ELSE build

\* IsDownloadTriggered, IsUpgradeTriggered: a call that comes within a
\* second of one that was let through is refused.  FirmwareStatusCache takes
\* its mutex around the test and the set, so they are one step; what the
\* handler does after it is not.
Triggered(what) == what \in recent

SecondPasses(what) ==
    /\ what \in recent /\ recent' = recent \ {what}
    /\ unseen' = (unseen \/ (\E s \in Slots : calls[s].pc \in {"query", "start", "install", "mode"})
                         \/ (starts.download > 0 /\ db.status # "DOWNLOADING")
                         \/ (starts.upgrade > 0 /\ db.status # "INSTALLING"))
    /\ UNCHANGED <<procVars, envVars, calls, made, chkVars, db, starts, devVars, overlap,
                   timedOut, smashed, crossed, told>>

\* Mutant: the time of the call is not kept.
Download_mut(s) ==
    /\ Open(s, "DOWNLOAD") /\ GetOnlineUpdater(s)
    /\ recent' = recent
    /\ IF Triggered("download") THEN Answer(s, "FAIL") ELSE Goto(s, "query")
    /\ UNCHANGED <<procVars, envVars, made, checkComplete, checking, threads, db, starts, devVars, history>>

Download(s) ==
    /\ Open(s, "DOWNLOAD") /\ GetOnlineUpdater(s)
    /\ recent' = recent \cup {"download"}
    /\ IF Triggered("download") THEN Answer(s, "FAIL") ELSE Goto(s, "query")
    /\ UNCHANGED <<procVars, envVars, made, checkComplete, checking, threads, db, starts, devVars, history>>

QueryTask(s) ==
    /\ At(s, "query")
    /\ IF db.status = "CHECK_VERSION_SUCCESS" THEN Goto(s, "start") ELSE Answer(s, "FAIL")
    /\ UNCHANGED <<procVars, envVars, made, chkVars, db, recent, starts, devVars, history>>

\* FirmwareDownloadMode::GetStepAfterInit reads the task again; the network
\* or the space may also be missing.
DoDownload(s) ==
    /\ At(s, "start")
    /\ \/ /\ db.status \in {"CHECK_VERSION_SUCCESS", "DOWNLOAD_FAIL", "DOWNLOAD_PAUSE"}
          /\ starts' = [starts EXCEPT !.download = @ + 1] /\ Answer(s, "SUCCESS")
       \/ Answer(s, "FAIL") /\ UNCHANGED starts
    /\ UNCHANGED <<procVars, envVars, made, chkVars, db, recent, devVars, history>>

Upgrade(s) ==
    /\ Open(s, "UPGRADE") /\ GetOnlineUpdater(s)
    /\ recent' = recent \cup {"upgrade"}
    /\ IF Triggered("upgrade") THEN Answer(s, "FAIL") ELSE Goto(s, "install")
    /\ UNCHANGED <<procVars, envVars, made, checkComplete, checking, threads, db, starts, devVars, history>>

CanInstall ==
    CASE GetInstallType = "SYS_INSTALLER" -> db.status \in {"DOWNLOAD_SUCCESS", "INSTALL_SUCCESS"}
      [] GetInstallType = "STREAM_INSTALLER" -> db.status # "INSTALLING"
      [] OTHER -> db.status = "DOWNLOAD_SUCCESS"

\* It returns without a word when CanInstall says no.
DoInstall(s) ==
    /\ At(s, "install")
    /\ IF CanInstall THEN Goto(s, "mode") ELSE Answer(s, "SUCCESS")
    /\ UNCHANGED <<procVars, envVars, made, chkVars, db, recent, starts, devVars, history>>

\* FirmwareInstallApplyMode and FirmwareStreamInstallApplyMode read the task
\* again, the second for its existence only.  An install starts; or the space,
\* the battery, the network are missing; or the order is to apply, which starts
\* no install; or the downloaded files are not what they were, and all is
\* cleared.
GetStepAfterInit(s) ==
    LET installable == IF IsStreamUpgrade THEN db.status # "INIT" ELSE db.status = "DOWNLOAD_SUCCESS"
    IN
    /\ At(s, "mode")
    /\ \/ /\ installable
          /\ starts' = [starts EXCEPT !.upgrade = @ + 1] /\ Answer(s, "SUCCESS") /\ UNCHANGED db
       \/ Answer(s, "FAIL") /\ UNCHANGED <<db, starts>>
       \/ db.status # "INIT" /\ Answer(s, "SUCCESS") /\ UNCHANGED <<db, starts>>
       \/ /\ installable /\ ~IsStreamUpgrade
          /\ db' = Cleared /\ calls' = [Torn EXCEPT ![s] = Ended(@, "FAIL")] /\ UNCHANGED starts
    /\ UNCHANGED <<procVars, envVars, made, chkVars, recent, devVars, history>>

\* What is streamed is cancelled while it installs, which DoCancel refuses.
Cancel(s) ==
    /\ Open(s, "CANCEL") /\ GetOnlineUpdater(s)
    /\ IF db.status \in IF IsStreamUpgrade THEN {"INSTALLING"} ELSE {"DOWNLOADING", "DOWNLOAD_PAUSE"}
       THEN Goto(s, "cancel") ELSE Answer(s, "FAIL")
    /\ UNCHANGED <<procVars, envVars, made, checkComplete, checking, threads, db, recent, starts, devVars, history>>

\* DoCancel reads the status again, and takes a finished download as well.
DoCancel(s) ==
    /\ At(s, "cancel")
    /\ IF db.status \in {"DOWNLOADING", "DOWNLOAD_SUCCESS", "DOWNLOAD_PAUSE"}
       THEN /\ db' = [db EXCEPT !.status = "CHECK_VERSION_SUCCESS"] /\ starts' = [starts EXCEPT !.download = 0]
            /\ Answer(s, "SUCCESS")
       ELSE Answer(s, "FAIL") /\ UNCHANGED <<db, starts>>
    /\ UNCHANGED <<procVars, envVars, made, chkVars, recent, devVars, history>>

\* DoClearError: only a failed upgrade is cleared, with all its rows.
ClearError(s) ==
    /\ Open(s, "CLEAR_ERROR") /\ GetOnlineUpdater(s)
    /\ CASE db.status = "INIT" -> Answer(s, "SUCCESS") /\ UNCHANGED db
         [] db.status = "INSTALL_FAIL" ->
              /\ db' = Cleared
              /\ calls' = [Torn EXCEPT ![s] = Ended(@, "SUCCESS")]
         [] OTHER -> Answer(s, "FAIL") /\ UNCHANGED db
    /\ UNCHANGED <<procVars, envVars, made, checkComplete, checking, threads, recent, starts, devVars, history>>

\* The flows, as far as these handlers can tell.  What is streamed is installed
\* from any status.
InstallBegins ==
    /\ starts.upgrade > 0
    /\ IF IsStreamUpgrade THEN db.status \notin {"INIT", "INSTALLING"} ELSE db.status = "DOWNLOAD_SUCCESS"

FlowMoves ==
    /\ \/ /\ starts.download > 0 /\ db.status = "CHECK_VERSION_SUCCESS"
          /\ db' = [db EXCEPT !.status = "DOWNLOADING"] /\ UNCHANGED <<starts, unseen>>
       \/ /\ starts.download > 0 /\ db.status = "DOWNLOADING"
          /\ \E to \in {"DOWNLOAD_SUCCESS", "DOWNLOAD_FAIL", "DOWNLOAD_PAUSE"} : db' = [db EXCEPT !.status = to]
          /\ starts' = [starts EXCEPT !.download = @ - 1] /\ UNCHANGED unseen
       \/ /\ InstallBegins
          /\ db' = [db EXCEPT !.status = "INSTALLING"] /\ unseen' = (unseen \/ starts.download > 0)
          /\ UNCHANGED starts
       \/ /\ starts.upgrade > 0 /\ db.status = "INSTALLING"
          /\ \E to \in {"INSTALL_FAIL", IF build = "UPDATER" THEN "UPDATING" ELSE "INSTALL_SUCCESS"} :
               db' = [db EXCEPT !.status = to]
          /\ starts' = [starts EXCEPT !.upgrade = @ - 1] /\ UNCHANGED unseen
    /\ UNCHANGED <<procVars, envVars, calls, made, chkVars, recent, devVars, overlap, timedOut,
                   smashed, crossed, told>>
-----------------------------------------------------------------------------
(***************************************************************************)
(* What is only read.                                                      *)
(***************************************************************************)
GetNewVersionInfo(s) ==
    /\ Open(s, "GET_NEW_VERSION") /\ GetOnlineUpdater(s)
    /\ calls' = [calls EXCEPT ![s].pc = "components", ![s].got = <<db.task>>,
                              ![s].fair = \E t \in threads : t.pc = "insertTask"]
    /\ UNCHANGED <<procVars, envVars, made, checkComplete, checking, threads, db, recent, starts, devVars, history>>

QueryAllComponents(s) ==
    /\ At(s, "components")
    /\ LET read == [calls[s] EXCEPT !.got = Append(@, db.comps)]
       IN  calls' = [calls EXCEPT ![s] = Ended(read, "SUCCESS")]
    /\ UNCHANGED <<procVars, envVars, made, chkVars, db, recent, starts, devVars, history>>

\* A changelog: fine, of an id with other characters, missing or outside its
\* directory, without the bar that ends its type.
Changelogs == {"fine", "badId", "noFile", "noBar"}
IsValidComponentId(f) == f # "badId"
CheckFilePathValid(f) == f # "noFile"
HasContent(f) == f # "noBar"
GetDescription(f) == IsValidComponentId(f) /\ CheckFilePathValid(f) /\ HasContent(f)

\* One unusable changelog fails the call, whatever was put in before it.
GetNewVersionDescription(files) ==
    IF files # <<>> /\ \A k \in DOMAIN files : GetDescription(files[k]) THEN "SUCCESS" ELSE "FAIL"

\* The id is a preference, and may be missing.
GetCurrentVersionDescription(files) ==
    IF files # <<>> /\ GetDescription(files[1]) THEN "SUCCESS" ELSE "FAIL"

DescriptionCodes == {"GET_NEW_VERSION_DESCRIPTION", "GET_CURRENT_VERSION_DESCRIPTION"}
Describes(s) ==
    /\ Dispatched(s) /\ calls[s].code \in DescriptionCodes /\ GetOnlineUpdater(s)
    /\ \E n \in 0 .. db.comps : \E files \in [1 .. n -> Changelogs] :
         Answer(s, IF calls[s].code = "GET_NEW_VERSION_DESCRIPTION" THEN GetNewVersionDescription(files)
                   ELSE GetCurrentVersionDescription(files))
    /\ UNCHANGED <<procVars, envVars, made, checkComplete, checking, threads, db, recent, starts, devVars, history>>

\* The row of the task, the version that runs, the switches.
GetTaskInfo == IF db.status = "INIT" THEN None ELSE db.status
GetCurrentVersionInfo == "SUCCESS"
GetUpgradePolicy == "SUCCESS"
ReadCodes == {"GET_TASK_INFO", "GET_CURRENT_VERSION", "GET_POLICY"}

ReadsOnly(s) ==
    /\ Dispatched(s) /\ calls[s].code \in ReadCodes /\ GetOnlineUpdater(s)
    /\ Answer(s, CASE calls[s].code = "GET_TASK_INFO" -> GetTaskInfo
                   [] calls[s].code = "GET_CURRENT_VERSION" -> GetCurrentVersionInfo
                   [] OTHER -> GetUpgradePolicy)
    /\ UNCHANGED <<procVars, envVars, made, checkComplete, checking, threads, db, recent, starts, devVars, history>>
-----------------------------------------------------------------------------
(***************************************************************************)
(* Resets, and packages that are already on the device.                    *)
(***************************************************************************)
\* ExecReset: the command is written and the device goes down, or the call
\* says that it could not.
ExecReset(s, how, works) ==
    IF works THEN reboot' = how /\ Answer(s, "SUCCESS") ELSE UNCHANGED reboot /\ Answer(s, "CALL_FAIL")

FactoryReset(s) ==
    /\ Open(s, "FACTORY_RESET") /\ \E works \in BOOLEAN : ExecReset(s, "wipe", works)
    /\ UNCHANGED <<procVars, envVars, made, chkVars, db, recent, starts, keys, history>>

FileManagerEraseKeys(s) ==
    /\ Open(s, "FORCE_FACTORY_RESET")
    /\ \/ keys' = "erased" /\ Goto(s, "erased")
       \/ keys' = keys /\ Answer(s, "CALL_FAIL")
    /\ UNCHANGED <<procVars, envVars, made, chkVars, db, recent, starts, reboot, history>>

\* Mutant: the outcome of the reboot is not passed on.
ForceFactoryReset_mut(s) ==
    /\ At(s, "erased")
    /\ \E works \in BOOLEAN : IF works THEN reboot' = "wipe" ELSE UNCHANGED reboot
    /\ Answer(s, "SUCCESS")
    /\ UNCHANGED <<procVars, envVars, made, chkVars, db, recent, starts, keys, history>>

ForceFactoryReset(s) ==
    /\ At(s, "erased")
    /\ \E works \in BOOLEAN : ExecReset(s, "wipe", works) /\ told' = (told \/ ~works)
    /\ UNCHANGED <<procVars, envVars, made, chkVars, db, recent, starts, keys, overlap,
                   timedOut, smashed, unseen, crossed>>

\* The scope must be DATA or DATA_AND_OS.
DeepFactoryReset(s) ==
    /\ Open(s, "DEEP_FACTORY_RESET")
    /\ \/ Answer(s, "CALL_FAIL") /\ UNCHANGED reboot
       \/ \E works \in BOOLEAN : ExecReset(s, "secureErase", works)
    /\ UNCHANGED <<procVars, envVars, made, chkVars, db, recent, starts, keys, history>>

GetDeepFactoryResetInfo(s) ==
    /\ Open(s, "GET_DEEP_FACTORY_RESET_INFO") /\ \E err \in {"SUCCESS", "CALL_FAIL"} : Answer(s, err)
    /\ UNCHANGED <<procVars, envVars, made, chkVars, db, recent, starts, devVars, history>>

ApplyNewVersion(s) ==
    /\ Open(s, "APPLY_NEW_VERSION") /\ \E works \in BOOLEAN : ExecReset(s, "package", works)
    /\ UNCHANGED <<procVars, envVars, made, chkVars, db, recent, starts, keys, history>>

VerifyUpgradePackage(s) ==
    /\ Open(s, "VERIFY_UPGRADE_PACKAGE") /\ \E err \in {"SUCCESS", "CALL_FAIL"} : Answer(s, err)
    /\ UNCHANGED <<procVars, envVars, made, chkVars, db, recent, starts, devVars, history>>
-----------------------------------------------------------------------------
Handles(s) ==
    \/ HandleFunc(s) \/ NoOnlineUpdater(s)
    \/ CheckNewVersion(s) \/ WaitReturns(s) \/ WaitTimesOut(s) \/ LeaveCheck(s)
    \/ Download(s) \/ QueryTask(s) \/ DoDownload(s) \/ Upgrade(s) \/ DoInstall(s) \/ GetStepAfterInit(s)
    \/ Cancel(s) \/ DoCancel(s) \/ ClearError(s)
    \/ GetNewVersionInfo(s) \/ QueryAllComponents(s) \/ Describes(s) \/ ReadsOnly(s)
    \/ FactoryReset(s) \/ FileManagerEraseKeys(s) \/ ForceFactoryReset(s) \/ DeepFactoryReset(s)
    \/ GetDeepFactoryResetInfo(s) \/ ApplyNewVersion(s) \/ VerifyUpgradePackage(s)

CheckThread(t) ==
    \/ \E found \in ReadDataFromSSL : CheckAnswers(t, found)
    \/ InsertComponents(t) \/ InsertTask(t) \/ OnCheckComplete(t)

Environment ==
    \/ (\E opens \in BOOLEAN : LoadModule(opens)) \/ NoModule \/ Publish
    \/ (\E code \in Hookable : HookFunc(code))
    \/ UserUnlocks \/ MdmForbids \/ IsCheckingExpires \/ FlowMoves
    \/ \E what \in {"download", "upgrade"} : SecondPasses(what)

\* A device that reboots does nothing any more.
Next ==
    /\ reboot = None
    /\ \/ Environment
       \/ \E s \in Slots, code \in Codes, who \in Callers :
            \E info \in IF code \in OnlineCodes THEN Infos ELSE {NoInfo} : CallbackEnter(s, code, who, info)
       \/ \E s \in Slots : Handles(s)
       \/ \E t \in threads : CheckThread(t)

\* The IPC threads run.  Nothing is assumed of the network, of the user, or
\* of the clients.
Spec == Init /\ [][Next]_vars /\ \A s \in Slots : WF_vars(reboot = None /\ s \in Busy /\ Handles(s))
-----------------------------------------------------------------------------
\* Where a call is that an updater serves.
Serving == {"wait", "leave", "query", "start", "install", "mode", "cancel", "components"}

TypeOK ==
    /\ stage \in {"load", "publish", "up"} /\ tries \in 0 .. dlopenTries
    /\ hooked \subseteq Hookable /\ (hooked # {} => loaded) /\ updateImpMap \subseteq Infos
    /\ \A s \in Slots :
         /\ calls[s].pc \in {"idle", "entered", "erased", "done"} \cup Serving
         /\ calls[s].pc \in Serving => calls[s].info \in updateImpMap
    /\ \A t \in threads : t.info \in updateImpMap /\ t.id \in 1 .. made
    /\ recent \subseteq {"download", "upgrade"} /\ keys \in {"present", "erased"}

\* No handler of this service runs for a caller that was not checked: the
\* two hooks of the stub agree on which requests are the extension's, so what
\* CallbackEnter let pass for the extension to check never reaches the
\* service's own handler; a reset runs only if the administrator allowed
\* resets when the call came in; without an extension the full
\* build runs nothing but the exempt requests before the unlock.
NothingRunsUnchecked ==
    \A s \in Slots : Dispatched(s) \/ calls[s].pc \notin {"idle", "entered", "done"} =>
        /\ IsCallerValid(calls[s].who) /\ IsPermissionGranted(calls[s].who, calls[s].code)
        /\ calls[s].code \in ResetCodes => calls[s].fair
        /\ build # "empty" /\ ~loaded /\ IsUserUnlockRequired(calls[s].code) => unlocked

\* CheckNewVersion: a call that is answered without TIME_OUT has an answer of
\* its own, and one that has its own answer is not told TIME_OUT, as long as
\* no two checks of its updater overlapped and none timed out before: the
\* flag belongs to the updater, and a late thread or another call raises or
\* lowers it for everyone.
OwnAnswer ==
    \A s \in Slots : At(s, "done") /\ calls[s].code = "CHECK_VERSION" /\ calls[s].info \notin overlap =>
        /\ calls[s].err = "SUCCESS" /\ calls[s].got = <<>> => calls[s].info \in timedOut
        /\ calls[s].err = "TIME_OUT" => calls[s].got = <<>>

\* CheckNewVersion gives its thread references into its own frame: they are
\* written after the call has returned only if a check timed out or two
\* overlapped.
NoDeadFrame == smashed => timedOut \cup overlap # {}

\* The filter of one second and the status together keep a second download
\* or install from starting, although a call passes the filter, reads the
\* status and starts its flow in three steps: unless a second passes before
\* the first start shows in the status, an install that is streamed begins
\* over a download and hides it, or one of two checks that crossed writes over
\* the status.
OneStart == starts.download > 1 \/ starts.upgrade > 1 => unseen \/ crossed

\* GetNewVersionInfo reads the task and the components one after the other:
\* they are of one version unless a check was writing or an error was cleared
\* meanwhile, or two checks that crossed have left the tables at odds.
VersionInfoIsWhole ==
    \A s \in Slots : At(s, "done") /\ calls[s].code = "GET_NEW_VERSION" /\ Len(calls[s].got) = 2 /\ ~calls[s].fair =>
        calls[s].got[1] = calls[s].got[2] \/ crossed

\* ForceFactoryReset erases the keys before it knows that the device will
\* reboot: a device that runs on without its keys has a call under way or has
\* answered one with an error.
KeysGoneIsTold == keys = "erased" /\ reboot = None => told \/ \E s \in Slots : At(s, "erased")

\* Every call returns: the wait of a check ends even when the server never
\* answers.
CallsReturn == \A s \in Slots : s \in Busy ~> (s \notin Busy \/ reboot # None)

\* A check answers its own caller, and only while that caller waits, unless a
\* check of its updater timed out or two overlapped.
CheckInv == TypeOK /\ OwnAnswer /\ NoDeadFrame

\* What a handler reads of the task holds for what it then does or answers:
\* one start for two calls, and one version in one answer, with the exceptions
\* named above.
StatusReadsHold == OneStart /\ VersionInfoIsWhole
=============================================================================
