------------------------------ MODULE Messages ------------------------------
(***************************************************************************)
(* What an application says and what it is shown: the arguments as the two *)
(* JavaScript bindings parse them, the messages as they are written to and *)
(* read from a parcel (interfaces/inner_api/feature/update/model), and the *)
(* answers and events as the bindings build them for the application.      *)
(*                                                                         *)
(* Data: a scalar is "0" (zero, false or the empty string), the name of    *)
(* its own field, or the name of an enum value; so a value in the wrong    *)
(* field shows.  Noise is what a read out of step gives.  A list element   *)
(* has all its scalars set or all of them zero.                            *)
(***************************************************************************)
EXTENDS Integers, Sequences, SequencesExt, FiniteSets, TLC

CONSTANTS
    MAX_VECTOR_SIZE,  \* the longest list that is read
    Patterns          \* the lists that are sent: per element, set or zero

ASSUME VectorAssumption == MAX_VECTOR_SIZE \in Nat
ASSUME PatternsAssumption == \A p \in Patterns : p \in Seq(BOOLEAN)

Zero == "0"
Noise == "noise"
None == "none"
-----------------------------------------------------------------------------
(***************************************************************************)
(* The layout of the messages, once as Marshalling writes it and once as   *)
(* ReadFromParcel reads it.  bool, int32 and uint32 take the same four     *)
(* bytes.  "checked": the fields whose write's failure ends Marshalling;   *)
(* what a nested message's Marshalling returns is never looked at.         *)
(***************************************************************************)
Word(f) == [f |-> f, k |-> "w32", of |-> None]
Long(f) == [f |-> f, k |-> "w64", of |-> None]
Str(f) == [f |-> f, k |-> "str", of |-> None]
List(f, T) == [f |-> f, k |-> "list", of |-> T]
Array(f, T) == [f |-> f, k |-> "array", of |-> T]
Struct(f, T) == [f |-> f, k |-> "struct", of |-> T]
Layout(fields, checked) == [fields |-> fields, checked |-> checked]
AllChecked(fields) == Layout(fields, {fields[i].f : i \in DOMAIN fields})

ErrorMessage_Marshalling == Layout(<<Word("errorCode"), Str("errorMessage")>>, {})
ErrorMessage_Read == <<Word("errorCode"), Str("errorMessage")>>

UpgradePeriod_Marshalling == Layout(<<Word("start"), Word("end")>>, {})
UpgradePeriod_Read == <<Word("start"), Word("end")>>

VersionComponent_Marshalling ==
    Layout(<<Str("componentId"), Word("componentType"), Str("upgradeAction"), Str("displayVersion"),
             Str("innerVersion"), Long("size"), Word("effectiveMode"), Word("otaMode"),
             Word("descriptionType"), Str("content"), Str("componentExtra")>>, {})
VersionComponent_Read ==
    <<Str("componentId"), Word("componentType"), Str("upgradeAction"), Str("displayVersion"),
      Str("innerVersion"), Long("size"), Word("effectiveMode"), Word("otaMode"),
      Word("descriptionType"), Str("content"), Str("componentExtra")>>

ComponentDescription_Marshalling ==
    Layout(<<Str("componentId"), Word("descriptionType"), Str("content"),
             Word("notifyDescriptionType"), Str("notifyContent")>>, {})
\* Mutant: the notification's texts are read in the other order.
ComponentDescription_Read_mut ==
    <<Str("componentId"), Word("descriptionType"), Str("notifyContent"),
      Word("notifyDescriptionType"), Str("content")>>

ComponentDescription_Read ==
    <<Str("componentId"), Word("descriptionType"), Str("content"),
      Word("notifyDescriptionType"), Str("notifyContent")>>

VersionDescriptionInfo_Marshalling == Layout(<<List("componentDescriptions", "ComponentDescription")>>, {})
VersionDescriptionInfo_Read == <<List("componentDescriptions", "ComponentDescription")>>

TaskBody_Marshalling ==
    Layout(<<Str("versionDigest"), Word("status"), Word("subStatus"), Word("progress"), Word("installMode"),
             List("errorMessages", "ErrorMessage"), List("versionComponents", "VersionComponent")>>, {})
TaskBody_Read ==
    <<Str("versionDigest"), Word("status"), Word("subStatus"), Word("progress"), Word("installMode"),
      List("errorMessages", "ErrorMessage"), List("versionComponents", "VersionComponent")>>

TaskInfo_Marshalling == Layout(<<Word("existTask"), Struct("taskBody", "TaskBody")>>, {"existTask"})
TaskInfo_Read == <<Word("existTask"), Struct("taskBody", "TaskBody")>>

EventInfo_Marshalling == Layout(<<Word("eventId"), Struct("taskBody", "TaskBody")>>, {"eventId"})
EventInfo_Read == <<Word("eventId"), Struct("taskBody", "TaskBody")>>

CheckResult_Marshalling ==
    Layout(<<Word("isExistNewVersion"), Str("versionDigest"), List("versionComponents", "VersionComponent")>>,
           {"isExistNewVersion", "versionDigest"})
CheckResult_Read ==
    <<Word("isExistNewVersion"), Str("versionDigest"), List("versionComponents", "VersionComponent")>>

NewVersionInfo_Marshalling ==
    Layout(<<Str("versionDigest"), List("versionComponents", "VersionComponent")>>, {"versionDigest"})
NewVersionInfo_Read == <<Str("versionDigest"), List("versionComponents", "VersionComponent")>>

CurrentVersionInfo_Marshalling ==
    Layout(<<Str("osVersion"), Str("deviceName"), List("versionComponents", "VersionComponent")>>,
           {"osVersion", "deviceName"})
CurrentVersionInfo_Read ==
    <<Str("osVersion"), Str("deviceName"), List("versionComponents", "VersionComponent")>>

BusinessError_Marshalling ==
    Layout(<<Str("message"), Word("errorNum"), List("data", "ErrorMessage")>>, {"message", "errorNum"})
BusinessError_Read == <<Str("message"), Word("errorNum"), List("data", "ErrorMessage")>>

\* The array has two elements, whatever size is written before it.
UpgradePolicy_Marshalling ==
    AllChecked(<<Word("downloadStrategy"), Word("autoUpgradeStrategy"), Word("customPolicyType"),
                 Array("autoUpgradePeriods", "UpgradePeriod")>>)
UpgradePolicy_Read ==
    <<Word("downloadStrategy"), Word("autoUpgradeStrategy"), Word("customPolicyType"),
      Array("autoUpgradePeriods", "UpgradePeriod")>>

UpgradeInfo_Marshalling ==
    AllChecked(<<Str("upgradeApp"), Str("vendor"), Word("subType"), Str("upgradeDevId"), Str("controlDevId"),
                 Word("processId"), Word("deviceType")>>)
UpgradeInfo_Read ==
    <<Str("upgradeApp"), Str("vendor"), Word("subType"), Str("upgradeDevId"), Str("controlDevId"),
      Word("processId"), Word("deviceType")>>

VersionDigestInfo_Marshalling == AllChecked(<<Str("versionDigest")>>)
VersionDigestInfo_Read == <<Str("versionDigest")>>
DescriptionOptions_Marshalling == AllChecked(<<Word("format"), Str("language")>>)
DescriptionOptions_Read == <<Word("format"), Str("language")>>
DownloadOptions_Marshalling == AllChecked(<<Word("allowNetwork"), Word("order")>>)
DownloadOptions_Read == <<Word("allowNetwork"), Word("order")>>
PauseDownloadOptions_Marshalling == AllChecked(<<Word("isAllowAutoResume")>>)
PauseDownloadOptions_Read == <<Word("isAllowAutoResume")>>
ResumeDownloadOptions_Marshalling == AllChecked(<<Word("allowNetwork")>>)
ResumeDownloadOptions_Read == <<Word("allowNetwork")>>
UpgradeOptions_Marshalling == AllChecked(<<Word("order")>>)
UpgradeOptions_Read == <<Word("order")>>
ClearOptions_Marshalling == AllChecked(<<Word("status")>>)
ClearOptions_Read == <<Word("status")>>
FactoryResetStrategy_Marshalling == AllChecked(<<Word("scope"), Str("strategy")>>)
FactoryResetStrategy_Read == <<Word("scope"), Str("strategy")>>
FactoryResetInfo_Marshalling == AllChecked(<<Word("duration")>>)
FactoryResetInfo_Read == <<Word("duration")>>

Marshalled == [
    ErrorMessage |-> ErrorMessage_Marshalling, UpgradePeriod |-> UpgradePeriod_Marshalling,
    VersionComponent |-> VersionComponent_Marshalling, ComponentDescription |-> ComponentDescription_Marshalling,
    VersionDescriptionInfo |-> VersionDescriptionInfo_Marshalling, TaskBody |-> TaskBody_Marshalling,
    TaskInfo |-> TaskInfo_Marshalling, EventInfo |-> EventInfo_Marshalling, CheckResult |-> CheckResult_Marshalling,
    NewVersionInfo |-> NewVersionInfo_Marshalling, CurrentVersionInfo |-> CurrentVersionInfo_Marshalling,
    BusinessError |-> BusinessError_Marshalling, UpgradePolicy |-> UpgradePolicy_Marshalling,
    UpgradeInfo |-> UpgradeInfo_Marshalling, VersionDigestInfo |-> VersionDigestInfo_Marshalling,
    DescriptionOptions |-> DescriptionOptions_Marshalling, DownloadOptions |-> DownloadOptions_Marshalling,
    PauseDownloadOptions |-> PauseDownloadOptions_Marshalling,
    ResumeDownloadOptions |-> ResumeDownloadOptions_Marshalling, UpgradeOptions |-> UpgradeOptions_Marshalling,
    ClearOptions |-> ClearOptions_Marshalling, FactoryResetStrategy |-> FactoryResetStrategy_Marshalling,
    FactoryResetInfo |-> FactoryResetInfo_Marshalling]

ReadAs == [
    ErrorMessage |-> ErrorMessage_Read, UpgradePeriod |-> UpgradePeriod_Read,
    VersionComponent |-> VersionComponent_Read, ComponentDescription |-> ComponentDescription_Read,
    VersionDescriptionInfo |-> VersionDescriptionInfo_Read, TaskBody |-> TaskBody_Read,
    TaskInfo |-> TaskInfo_Read, EventInfo |-> EventInfo_Read, CheckResult |-> CheckResult_Read,
    NewVersionInfo |-> NewVersionInfo_Read, CurrentVersionInfo |-> CurrentVersionInfo_Read,
    BusinessError |-> BusinessError_Read, UpgradePolicy |-> UpgradePolicy_Read,
    UpgradeInfo |-> UpgradeInfo_Read, VersionDigestInfo |-> VersionDigestInfo_Read,
    DescriptionOptions |-> DescriptionOptions_Read, DownloadOptions |-> DownloadOptions_Read,
    PauseDownloadOptions |-> PauseDownloadOptions_Read, ResumeDownloadOptions |-> ResumeDownloadOptions_Read,
    UpgradeOptions |-> UpgradeOptions_Read, ClearOptions |-> ClearOptions_Read,
    FactoryResetStrategy |-> FactoryResetStrategy_Read, FactoryResetInfo |-> FactoryResetInfo_Read]

Requests == {"UpgradeInfo", "VersionDigestInfo", "DescriptionOptions", "DownloadOptions", "PauseDownloadOptions",
             "ResumeDownloadOptions", "UpgradeOptions", "ClearOptions", "FactoryResetStrategy", "UpgradePolicy"}
Answers == {"CheckResult", "NewVersionInfo", "CurrentVersionInfo", "VersionDescriptionInfo", "TaskInfo",
            "UpgradePolicy", "FactoryResetInfo", "BusinessError"}

PERIODS == 2
Fields(T) == {Marshalled[T].fields[i].f : i \in DOMAIN Marshalled[T].fields}
Kind(T, f) == LET i == CHOOSE j \in DOMAIN Marshalled[T].fields : Marshalled[T].fields[j].f = f
              IN  Marshalled[T].fields[i]

\* A message: its scalars set or zero, its lists following a pattern, the
\* components of the given size.
RECURSIVE Message(_, _, _, _)
Message(T, set, pattern, size) ==
    [f \in Fields(T) |->
       LET e == Kind(T, f)
       IN  CASE e.k = "list" -> [i \in DOMAIN pattern |-> Message(e.of, pattern[i], <<>>, size)]
             [] e.k = "array" -> [i \in 1..PERIODS |-> Message(e.of, set, <<>>, size)]
             [] e.k = "struct" -> Message(e.of, set, pattern, size)
             [] OTHER -> IF ~set THEN Zero ELSE IF f = "size" THEN size ELSE f]

Token(k, v, n, checked) == [k |-> k, v |-> v, n |-> n, checked |-> checked]
Ignored(tokens) == [i \in DOMAIN tokens |-> [tokens[i] EXCEPT !.checked = FALSE]]

\* Marshalling: the writes of a message in order.
RECURSIVE Tokens(_, _)
Tokens(T, m) ==
    FlattenSeq([i \in DOMAIN Marshalled[T].fields |->
      LET e == Marshalled[T].fields[i]
          checked == e.f \in Marshalled[T].checked
      IN  IF e.k \in {"list", "array"}
          THEN <<Token("w32", "count", Len(m[e.f]), checked)>>
                 \o FlattenSeq([j \in DOMAIN m[e.f] |-> Ignored(Tokens(e.of, m[e.f][j]))])
          ELSE IF e.k = "struct" THEN Ignored(Tokens(e.of, m[e.f]))
          ELSE <<Token(e.k, m[e.f], 0, checked)>>])

\* A read: past the end it gives zero; out of step it gives noise, and so
\* do all reads after it.  "guess" is what a size out of step reads as.
ReadScalar(st, k) ==
    IF st.noise THEN [st EXCEPT !.v = Noise, !.n = st.guess]
    ELSE IF st.rest = <<>> THEN [st EXCEPT !.v = Zero, !.n = 0]
    ELSE LET t == Head(st.rest)
         IN  IF t.k # k THEN [st EXCEPT !.v = Noise, !.n = st.guess, !.noise = TRUE]
             ELSE [st EXCEPT !.v = IF t.v = "count" THEN Noise ELSE t.v,
                             !.n = IF t.v = "count" THEN t.n ELSE st.guess,
                             !.rest = Tail(st.rest)]

ValidSize(n) == n >= 0 /\ n <= MAX_VECTOR_SIZE

RECURSIVE ReadFromParcel(_, _)
ReadElements(T, st, count) ==
    FoldLeft(LAMBDA acc, i : IF ~acc.st.ok THEN acc
                             ELSE LET r == ReadFromParcel(T, acc.st)
                                  IN  [st |-> r.st, l |-> Append(acc.l, r.m)],
             [st |-> st, l |-> <<>>], [i \in 1..count |-> i])

ReadFromParcel(T, st0) ==
    FoldLeft(LAMBDA acc, e :
               IF ~acc.st.ok THEN acc
               ELSE IF e.k \in {"list", "array"}
               THEN LET s == ReadScalar(acc.st, "w32")
                        array == e.k = "array"
                        read == ReadElements(e.of, s, IF array /\ s.n > PERIODS THEN PERIODS ELSE s.n)
                        rest == [i \in 1..PERIODS |-> Message(e.of, FALSE, <<>>, Zero)]
                    IN  IF ~ValidSize(s.n) THEN [acc EXCEPT !.st = [s EXCEPT !.ok = FALSE]]
                        ELSE [st |-> read.st,
                              m |-> acc.m @@ (e.f :> IF array THEN SubSeq(read.l \o rest, 1, PERIODS) ELSE read.l)]
               ELSE IF e.k = "struct"
               THEN LET r == ReadFromParcel(e.of, acc.st) IN [st |-> r.st, m |-> acc.m @@ (e.f :> r.m)]
               ELSE LET s == ReadScalar(acc.st, e.k) IN [st |-> s, m |-> acc.m @@ (e.f :> s.v)],
             [st |-> st0, m |-> [x \in {} |-> Zero]], ReadAs[T])
-----------------------------------------------------------------------------
(***************************************************************************)
(* The arguments.  An argument is, per property of the JS object, a value, *)
(* or Missing, or Wrong: a value of another JS type.                       *)
(***************************************************************************)
Missing == "missing"
Wrong == "wrong"
Other == "other"     \* a number that is no value of the enum
\* The elements of the periods given as numbers, not as {start, end}.
Numbers == "numbers"

Statuses == {Zero, "CHECKING_VERSION", "CHECK_VERSION_FAIL", "CHECK_VERSION_SUCCESS", "DOWNLOADING", "DOWNLOAD_PAUSE",
             "DOWNLOAD_CANCEL", "DOWNLOAD_FAIL", "DOWNLOAD_SUCCESS", "VERIFYING", "VERIFY_FAIL", "VERIFY_SUCCESS",
             "WAIT_TRANSFER", "TRANSFER_START", "PACKAGE_TRANSING", "PACKAGE_TRANS_FAIL", "PACKAGE_TRANS_SUCCESS",
             "INSTALLING", "INSTALL_FAIL", "INSTALL_SUCCESS", "INSTALL_PAUSE", "UPDATING", "UPDATE_FAIL",
             "UPDATE_SUCCESS", "UPGRADE_REBOOT", "UPGRADE_COUNT_DOWN", "UPGRADE_CANCEL", "ERROR"}
NetTypes == {"CELLULAR", "METERED_WIFI", "NOT_METERED_WIFI", "WIFI", "CELLULAR_AND_WIFI"}
\* Mutant: the list of orders was not extended with a new value.
Orders_mut == {"DOWNLOAD", "INSTALL", "APPLY", "DOWNLOAD_AND_INSTALL"}

Orders == {"DOWNLOAD", "INSTALL", "APPLY", "DOWNLOAD_AND_INSTALL", "INSTALL_AND_APPLY", "TRANSFER",
           "TRANSFER_AND_APPLY"}
Formats == {Zero, "SIMPLIFIED"}
Scopes == {"DATA", "DATA_AND_OS"}

\* The lists of values the parser accepts, per validated property.
Accepted == [status |-> Statuses, allowNetwork |-> NetTypes, order |-> Orders, format |-> Formats, scope |-> Scopes]

\* The values the enums of the module export to the application.
DefineUpgradeStatus == Statuses \ {"WAIT_TRANSFER", "TRANSFER_START", "UPGRADE_REBOOT", "UPGRADE_COUNT_DOWN",
                                   "UPGRADE_CANCEL", "ERROR"}
DefineNetType == {"CELLULAR", "METERED_WIFI", "NOT_METERED_WIFI", "WIFI", "CELLULAR_AND_WIFI"}
DefineOrder == {"DOWNLOAD", "INSTALL", "DOWNLOAD_AND_INSTALL", "APPLY", "INSTALL_AND_APPLY"}
DefineBusinessSubType == {"FIRMWARE", "PARAM", "ROLLBACK"}
DefineDescriptionFormat == {Zero, "SIMPLIFIED"}
DefineFactoryResetScope == {"DATA", "DATA_AND_OS"}
Exported == [status |-> DefineUpgradeStatus, allowNetwork |-> DefineNetType, order |-> DefineOrder,
             format |-> DefineDescriptionFormat, scope |-> DefineFactoryResetScope, subType |-> DefineBusinessSubType]

\* The properties an application gives: processId is none of them.
Properties(T) == Fields(T) \ {"processId"}
GivenValues(f) == IF f \in DOMAIN Exported THEN Exported[f] ELSE {f}
BadValues(f) == {Missing, Wrong} \cup (IF f \in DOMAIN Exported THEN {Other} ELSE {})
                                 \cup (IF f = "autoUpgradePeriods" THEN {Numbers} ELSE {})

\* What is parsed for one property: missing or of another type, the member
\* keeps the zero it starts with.
Parsed(a) == IF a \in {Missing, Wrong} THEN Zero ELSE a

\* A sub type that is none of the known ones is a firmware's.
ParseBusinessType(v) == IF v \in {"ROLLBACK", "ASSIST", "ACCESSORY", "PARAM"} THEN v ELSE "FIRMWARE"

\* Two periods as an application gives them, and none.
Given == [i \in 1..PERIODS |-> Message("UpgradePeriod", TRUE, <<>>, Zero)]
NoPeriods == [i \in 1..PERIODS |-> Message("UpgradePeriod", FALSE, <<>>, Zero)]

\* napi_get_value_uint32 is called on the element itself, for start and for
\* end: an object gives nothing.
GetUpgradePolicyFromArg(arg) ==
    [downloadStrategy |-> Parsed(arg.downloadStrategy), autoUpgradeStrategy |-> Parsed(arg.autoUpgradeStrategy),
     customPolicyType |-> Zero,
     autoUpgradePeriods |-> IF arg.autoUpgradePeriods = Numbers
                            THEN [i \in 1..PERIODS |-> [start |-> "number", end |-> "number"]] ELSE NoPeriods]

GetUpgradeInfoFromArg(arg) ==
    [upgradeApp |-> Parsed(arg.upgradeApp), vendor |-> Parsed(arg.vendor),
     subType |-> ParseBusinessType(Parsed(arg.subType)),
     upgradeDevId |-> Parsed(arg.upgradeDevId), controlDevId |-> Parsed(arg.controlDevId),
     processId |-> "processId", deviceType |-> Parsed(arg.deviceType)]

GetOptionsFromArg(T, arg) == [f \in Fields(T) |-> Parsed(arg[f])]

NapiRefuses(T, arg) ==
    \/ \E f \in Fields(T) \cap DOMAIN Accepted : Parsed(arg[f]) \notin Accepted[f]
    \/ T = "UpgradePolicy" /\ arg.autoUpgradePeriods = Wrong

NapiParse(T, arg) ==
    CASE T = "UpgradePolicy" -> GetUpgradePolicyFromArg(arg)
      [] T = "UpgradeInfo" -> GetUpgradeInfoFromArg(arg)
      [] OTHER -> GetOptionsFromArg(T, arg)

\* The ANI types admit no other value: the fields are copied.  The binding
\* knows fewer fields, and does not set the process.
AniUnknown == [UpgradeInfo |-> {"upgradeDevId", "controlDevId", "processId", "deviceType"},
               UpgradePolicy |-> {"customPolicyType"}]
AniConverter(T, arg) ==
    [f \in Fields(T) |-> IF T \in DOMAIN AniUnknown /\ f \in AniUnknown[T] THEN Zero
                         ELSE IF f = "autoUpgradePeriods" THEN Given ELSE arg[f]]
-----------------------------------------------------------------------------
(***************************************************************************)
(* What the service tells: an answer, the report of a progress, an event.  *)
(***************************************************************************)
StatusMap == [
    DOWNLOADING |-> "DOWNLOAD_UPDATE", DOWNLOAD_PAUSE |-> "DOWNLOAD_PAUSE", DOWNLOAD_CANCEL |-> "DOWNLOAD_CANCEL",
    DOWNLOAD_FAIL |-> "DOWNLOAD_FAIL", VERIFY_FAIL |-> "DOWNLOAD_FAIL", DOWNLOAD_SUCCESS |-> "DOWNLOAD_SUCCESS",
    INSTALLING |-> "UPGRADE_UPDATE", INSTALL_FAIL |-> "UPGRADE_FAIL", INSTALL_SUCCESS |-> "APPLY_WAIT",
    INSTALL_PAUSE |-> "UPGRADE_PAUSE", UPDATING |-> "UPGRADE_UPDATE", UPDATE_FAIL |-> "UPGRADE_FAIL",
    UPDATE_SUCCESS |-> "UPGRADE_SUCCESS"]

Digest == {"versionDigest"}
Status == {"status"}
Sub == {"subStatus"}
Percent == {"progress"}
Mode == {"installMode"}
Errors == {"errorMessages"}
Components == {"versionComponents"}

\* g_taskBodyTemplateMap: the members of the body an event shows.
TaskBodyTemplate == [
    TASK_RECEIVE |-> Digest, TASK_CHANGE |-> Digest \cup Status \cup Percent, TASK_CANCEL |-> Digest,
    VERSION_INFO_CHANGE |-> Digest \cup Status, DOWNLOAD_WAIT |-> Digest \cup Status \cup Mode,
    DOWNLOAD_START |-> Digest \cup Mode, DOWNLOAD_UPDATE |-> Digest \cup Status \cup Percent \cup Mode \cup Sub,
    DOWNLOAD_PAUSE |-> Digest \cup Status \cup Percent \cup Mode \cup Errors,
    DOWNLOAD_RESUME |-> Digest \cup Status \cup Percent \cup Mode, DOWNLOAD_SUCCESS |-> Digest \cup Mode \cup Sub,
    DOWNLOAD_CANCEL |-> Digest \cup Status, DOWNLOAD_FAIL |-> Digest \cup Mode \cup Errors \cup Sub,
    TRANSFER_WAIT |-> Digest \cup Status \cup Mode \cup Sub, TRANSFER_START |-> Digest \cup Mode,
    TRANSFERING |-> Digest \cup Status \cup Percent \cup Mode \cup Sub, TRANSFER_SUCCESS |-> Digest \cup Mode,
    TRANSFER_FAIL |-> Digest \cup Errors \cup Mode,
    UPGRADE_WAIT |-> Digest \cup Status \cup Mode \cup Errors \cup Sub,
    UPGRADE_START |-> Digest \cup Status \cup Mode, UPGRADE_UPDATE |-> Digest \cup Status \cup Percent \cup Mode,
    APPLY_WAIT |-> Digest \cup Status \cup Errors, APPLY_START |-> Digest,
    UPGRADE_SUCCESS |-> Digest \cup Components \cup Sub, UPGRADE_FAIL |-> Digest \cup Components \cup Errors,
    UPGRADE_PAUSE |-> Digest \cup Status \cup Percent \cup Errors,
    AUTH_START |-> Digest \cup Components \cup Status, AUTH_SUCCESS |-> Digest \cup Components \cup Status,
    INITIALIZE |-> Status]

\* The body of a report: an end reason that is a number is its error.
BuildTaskBody(status, reason) ==
    [Message("TaskBody", FALSE, <<>>, Zero) EXCEPT
        !.versionDigest = "versionDigest", !.progress = "progress", !.status = status,
        !.errorMessages = IF reason THEN <<Message("ErrorMessage", TRUE, <<>>, Zero)>> ELSE <<>>]

ProgressEvent(status, reason) ==
    [eventId |-> IF status \in DOMAIN StatusMap THEN StatusMap[status] ELSE "TASK_BASE",
     taskBody |-> BuildTaskBody(status, reason)]

\* The events of the service itself, and those of the result of an upgrade,
\* which list the components.
NotifiedEvents == {"TASK_RECEIVE", "TASK_CANCEL", "DOWNLOAD_WAIT", "DOWNLOAD_START", "DOWNLOAD_RESUME", "DOWNLOAD_PAUSE",
                   "DOWNLOAD_FAIL", "DOWNLOAD_CANCEL", "UPGRADE_WAIT", "UPGRADE_START", "UPGRADE_FAIL",
                   "UPGRADE_PAUSE", "UPGRADE_SUCCESS", "INITIALIZE"}
ResultEvents == {"UPGRADE_SUCCESS", "UPGRADE_FAIL"}
\* Mutant: componentExtra is left as it is.
ResultComponent_mut ==
    [Message("VersionComponent", TRUE, <<>>, Zero) EXCEPT
        !.effectiveMode = Zero, !.otaMode = Zero, !.descriptionType = Zero, !.content = Zero, !.componentExtra = Zero]

ResultComponent ==
    [Message("VersionComponent", TRUE, <<>>, Zero) EXCEPT
        !.effectiveMode = Zero, !.otaMode = Zero, !.descriptionType = Zero, !.content = Zero, !.componentExtra = "{}"]

\* NotifyEvent: always one error message, that may be zero.
NotifiedEvent(id, status, reason, components) ==
    [eventId |-> id,
     taskBody |-> [BuildTaskBody(status, FALSE) EXCEPT
                     !.errorMessages = <<Message("ErrorMessage", reason, <<>>, Zero)>>,
                     !.versionComponents = IF components THEN <<ResultComponent>> ELSE <<>>]]

CommonErrors == {"UN_SUPPORT", "NOT_SYSTEM_APP", "APP_NOT_GRANTED", "PARAM_ERR", "MDM_DISABLE_RESET"}
AniCommonErrors == CommonErrors \ {"MDM_DISABLE_RESET"}
CallResults == CommonErrors \cup {Zero, "FAIL", "DEV_UPG_INFO_ERR", "FORBIDDEN", "IPC_ERR", "TIME_OUT", "DB_ERROR",
                                  "IO_ERROR", "NET_ERROR", "CANCEL_ERROR"}

ConvertToErrorCode(common, result) ==
    [base |-> IF result \in common \cup {Zero} THEN 0 ELSE 11500000, result |-> result]
-----------------------------------------------------------------------------
(***************************************************************************)
(* What the bindings show: a function of the properties of the JS object.  *)
(***************************************************************************)
IsValidData(m) ==
    CASE "errorCode" \in DOMAIN m -> m.errorCode # Zero
      [] "componentType" \in DOMAIN m -> m.componentType # Zero
      [] OTHER -> m.componentId # Zero

GetValidData(l) == SelectSeq(l, IsValidData)

\* The properties of an object: a list without valid data is not set.
NapiObject(T, m, fields) ==
    LET lists == {f \in Fields(T) : Kind(T, f).k = "list"}
        set == {f \in fields : f \in lists => GetValidData(m[f]) # <<>>}
    IN  [f \in set |-> IF f \in lists THEN GetValidData(m[f]) ELSE m[f]]

BuildCheckResult(m) ==
    NapiObject("CheckResult", m,
               IF m.isExistNewVersion = Zero THEN {"isExistNewVersion"} ELSE Fields("CheckResult"))

BuildTaskInfo(m) ==
    IF m.existTask = Zero THEN [existTask |-> Zero]
    ELSE [existTask |-> m.existTask, taskBody |-> NapiObject("TaskBody", m.taskBody, Fields("TaskBody"))]

BuildBusinessError(m) ==
    IF m.errorNum = Zero THEN [f \in {} |-> Zero]
    ELSE [f \in DOMAIN NapiObject("BusinessError", m, {"message", "data"}) \cup {"code"} |->
            IF f = "code" THEN ConvertToErrorCode(CommonErrors, m.errorNum)
            ELSE NapiObject("BusinessError", m, {"message", "data"})[f]]

\* The events the module names to the application.
DefineEventId == {"TASK_BASE", "TASK_RECEIVE", "TASK_CANCEL", "DOWNLOAD_WAIT", "DOWNLOAD_START", "DOWNLOAD_UPDATE",
                  "DOWNLOAD_PAUSE", "DOWNLOAD_RESUME", "DOWNLOAD_SUCCESS", "DOWNLOAD_FAIL", "UPGRADE_WAIT",
                  "UPGRADE_START", "UPGRADE_UPDATE", "APPLY_WAIT", "APPLY_START", "UPGRADE_SUCCESS", "UPGRADE_FAIL",
                  "AUTH_START", "AUTH_SUCCESS", "DOWNLOAD_CANCEL", "INITIALIZE", "TASK_CHANGE",
                  "VERSION_INFO_CHANGE"}

\* An event without a template is not built, and the handler not called.
BuildEventInfo(m) ==
    IF m.eventId \notin DOMAIN TaskBodyTemplate THEN [f \in {} |-> Zero]
    ELSE [eventId |-> m.eventId, taskBody |-> NapiObject("TaskBody", m.taskBody, TaskBodyTemplate[m.eventId])]

BuildNewVersionInfo(m) == NapiObject("NewVersionInfo", m, Fields("NewVersionInfo"))
BuildCurrentVersionInfo(m) == NapiObject("CurrentVersionInfo", m, Fields("CurrentVersionInfo"))
BuildVersionDescriptionInfo(m) == NapiObject("VersionDescriptionInfo", m, Fields("VersionDescriptionInfo"))
BuildFactoryResetInfo(m) == NapiObject("FactoryResetInfo", m, Fields("FactoryResetInfo"))
BuildUpgradePolicy(m) == NapiObject("UpgradePolicy", m, Fields("UpgradePolicy"))

NapiBuild(T, m) ==
    CASE T = "CheckResult" -> BuildCheckResult(m)
      [] T = "TaskInfo" -> BuildTaskInfo(m)
      [] T = "BusinessError" -> BuildBusinessError(m)
      [] T = "EventInfo" -> BuildEventInfo(m)
      [] T = "NewVersionInfo" -> BuildNewVersionInfo(m)
      [] T = "CurrentVersionInfo" -> BuildCurrentVersionInfo(m)
      [] T = "VersionDescriptionInfo" -> BuildVersionDescriptionInfo(m)
      [] T = "FactoryResetInfo" -> BuildFactoryResetInfo(m)
      [] T = "UpgradePolicy" -> BuildUpgradePolicy(m)

\* The text of an event.  What is appended as JSON is appended as it is: a
\* component without extra information, and a body without a template, are
\* holes in the text.
Malformed == [f \in {"null"} |-> Zero]
Broken(component) == component.componentExtra = Zero
TaskBodyJson(id, body) ==
    LET mask == IF id \in DOMAIN TaskBodyTemplate THEN TaskBodyTemplate[id] ELSE {}
        written == {f \in mask : f \in Errors \cup Components => body[f] # <<>>}
    IN  IF mask = {} \/ ("versionComponents" \in written /\ \E i \in DOMAIN body.versionComponents :
                                                               Broken(body.versionComponents[i]))
        THEN Malformed ELSE [f \in written |-> body[f]]
EventJson(m) ==
    LET body == TaskBodyJson(m.eventId, m.taskBody)
    IN  IF body = Malformed THEN Malformed ELSE [eventId |-> m.eventId, taskBody |-> body]

Big == "big"        \* a size of 2^31 bytes or more
Wrapped == "wrapped"  \* the same as an int32

AniHidden == {"otaMode", "componentExtra", "notifyDescriptionType", "notifyContent", "customPolicyType"}
AniScalar(v) == IF v = Big THEN Wrapped ELSE v

\* Converter of the ANI binding: all elements of all lists.
RECURSIVE AniObject(_, _)
AniObject(T, m) ==
    [f \in Fields(T) \ AniHidden |->
       LET e == Kind(T, f)
       IN  IF e.k \in {"list", "array"} THEN [i \in DOMAIN m[f] |-> AniObject(e.of, m[f][i])]
           ELSE IF e.k = "struct" THEN AniObject(e.of, m[f])
           ELSE AniScalar(m[f])]

\* SetError throws the code and the message and shows nothing else.
AniBuild(T, m) ==
    IF T # "BusinessError" THEN AniObject(T, m)
    ELSE IF m.errorNum = Zero THEN [f \in {} |-> Zero]
    ELSE [message |-> m.message, code |-> ConvertToErrorCode(AniCommonErrors, m.errorNum)]
-----------------------------------------------------------------------------
VARIABLES
    stage,    \* how far the message is
    flow,     \* "request", "answer", "event" or "notice"
    typ,      \* its type
    binding,  \* "napi" or "ani"
    arg,      \* what the application gave
    sent,     \* the message at the sender
    report,   \* an event's status and reason, where it reports a progress
    lost,     \* the write that failed, if one did
    parcel,   \* the data in the parcel
    got,      \* the message at the receiver
    shown     \* what the application is shown

vars == <<stage, flow, typ, binding, arg, sent, report, lost, parcel, got, shown>>

Nothing == [f \in {} |-> Zero]
NoReport == [status |-> None, reason |-> FALSE]

Init ==
    /\ stage = "start" /\ flow = None /\ typ = None /\ binding \in {"napi", "ani"}
    /\ arg = Nothing /\ sent = Nothing /\ report = NoReport
    /\ lost = 0 /\ parcel = <<>> /\ got = Nothing /\ shown = Nothing

\* An application gives an argument: all its properties good, or one bad.
\* The ANI types admit good ones only.
GiveArgument(type, a) ==
    /\ stage = "start"
    /\ flow' = "request" /\ typ' = type /\ arg' = a
    /\ IF binding = "ani"
       THEN sent' = AniConverter(type, a) /\ stage' = "native"
       ELSE IF NapiRefuses(type, a) THEN stage' = "refused" /\ UNCHANGED sent
       ELSE sent' = NapiParse(type, a) /\ stage' = "native"
    /\ UNCHANGED <<binding, report, lost, parcel, got, shown>>

GoodArguments(type) ==
    LET enums == Properties(type) \cap DOMAIN Exported
        choices == {c \in [enums -> UNION {Exported[f] : f \in enums}] : \A f \in enums : c[f] \in Exported[f]}
    IN  {[f \in Properties(type) |-> IF f \in enums THEN c[f] ELSE f] : c \in choices}
BadArguments(type) ==
    UNION {{[a EXCEPT ![f] = v] : v \in BadValues(f), a \in GoodArguments(type)} : f \in Properties(type)}

\* The service answers a request.
GiveAnswer(type, m) ==
    /\ stage = "start"
    /\ stage' = "native" /\ flow' = "answer" /\ typ' = type /\ sent' = m
    /\ UNCHANGED <<binding, arg, report, lost, parcel, got, shown>>

AnswersOf(type) ==
    LET all == {Message(type, set, p, size) : set \in BOOLEAN, p \in Patterns, size \in {"size", Big}}
    IN  IF type = "BusinessError"
        THEN {[m EXCEPT !.errorNum = r] : m \in all, r \in CallResults} ELSE all

\* ProgressCallback, for any status an executor may report.
ReportProgress(status, reason) ==
    /\ stage = "start"
    /\ stage' = "native" /\ flow' = "event" /\ typ' = "EventInfo"
    /\ report' = [status |-> status, reason |-> reason]
    /\ sent' = ProgressEvent(status, reason)
    /\ UNCHANGED <<binding, arg, lost, parcel, got, shown>>

\* The same when no callback is registered, and NotifyEvent: the event goes
\* to the update application as text.
Notice(m, r) ==
    /\ stage = "start"
    /\ stage' = "native" /\ flow' = "notice" /\ typ' = "EventInfo" /\ report' = r /\ sent' = m
    /\ UNCHANGED <<binding, arg, lost, parcel, got, shown>>

NotifyEvent(id, reason) ==
    \E components \in (IF id \in ResultEvents THEN BOOLEAN ELSE {FALSE}) :
        Notice(NotifiedEvent(id, "status", reason, components), NoReport)

NoticeProgress(status, reason) == Notice(ProgressEvent(status, reason), [status |-> status, reason |-> reason])

\* ConnectToAppService parses the text again: what is no JSON is sent as null.
NotifyToHap ==
    /\ stage = "native" /\ flow = "notice"
    /\ stage' = "shown"
    /\ shown' = EventJson(sent)
    /\ UNCHANGED <<flow, typ, binding, arg, sent, report, lost, parcel, got>>

\* All writes succeed (k = 0), or the k-th fails: where it is checked the
\* message is not sent, else the writes after it go on.
Marshalling(k) ==
    /\ stage = "native" /\ flow # "notice"
    /\ LET tokens == Tokens(typ, sent)
       IN  /\ k \in 0..Len(tokens)
           /\ lost' = k
           /\ IF k # 0 /\ tokens[k].checked
              THEN stage' = "unsent" /\ UNCHANGED parcel
              ELSE stage' = "sent" /\ parcel' = IF k = 0 THEN tokens ELSE RemoveAt(tokens, k)
    /\ UNCHANGED <<flow, typ, binding, arg, sent, report, got, shown>>

\* The receiver's Unmarshalling: the message, or none.
Unmarshalling(guess) ==
    /\ stage = "sent"
    /\ LET r == ReadFromParcel(typ, [ok |-> TRUE, noise |-> FALSE, rest |-> parcel, guess |-> guess,
                                   v |-> Zero, n |-> 0])
       IN  IF r.st.ok THEN stage' = "received" /\ got' = r.m ELSE stage' = "unread" /\ UNCHANGED got
    /\ UNCHANGED <<flow, typ, binding, arg, sent, report, lost, parcel, shown>>

\* An answer or an event is built for the application.
Show ==
    /\ stage = "received" /\ flow # "request"
    /\ stage' = "shown"
    /\ shown' = IF binding = "napi" THEN NapiBuild(typ, got) ELSE AniBuild(typ, got)
    /\ UNCHANGED <<flow, typ, binding, arg, sent, report, lost, parcel, got>>

Over == /\ stage \in {"refused", "unsent", "unread", "shown"} \/ (stage = "received" /\ flow = "request")
        /\ UNCHANGED vars

Next ==
    \/ \E type \in Requests : \E a \in GoodArguments(type) : GiveArgument(type, a)
    \/ binding = "napi" /\ \E type \in Requests : \E a \in BadArguments(type) : GiveArgument(type, a)
    \/ \E type \in Answers : \E m \in AnswersOf(type) : GiveAnswer(type, m)
    \/ \E status \in Statuses, reason \in BOOLEAN : ReportProgress(status, reason)
    \/ \E status \in Statuses, reason \in BOOLEAN : NoticeProgress(status, reason)
    \/ \E id \in NotifiedEvents, reason \in BOOLEAN : NotifyEvent(id, reason)
    \/ NotifyToHap
    \/ stage = "native" /\ \E k \in 0..Len(Tokens(typ, sent)) : Marshalling(k)
    \/ \E guess \in {-1, 0, 1} : Unmarshalling(guess)
    \/ Show
    \/ Over

Spec == Init /\ [][Next]_vars
-----------------------------------------------------------------------------
TypeOK ==
    /\ stage \in {"start", "refused", "native", "unsent", "sent", "unread", "received", "shown"}
    /\ flow \in {None, "request", "answer", "event", "notice"}
    /\ stage \notin {"start", "refused"} => DOMAIN sent = Fields(typ)
    /\ (stage \in {"received", "shown"} /\ flow # "notice") => DOMAIN got = Fields(typ)
    /\ lost \in Nat

\* A message that is read is the message that was written, unless a write
\* nobody checked failed: no field changes its place, no list is cut short
\* and none longer than the bound comes through.
ReceivedIsSent ==
    stage = "received" => \/ got = sent
                          \/ lost # 0 /\ ~Tokens(typ, sent)[lost].checked

\* Only the periods of the policy and the parts of an answer are written
\* unchecked: any other request reaches the service as it was or not at all.
RequestsAreWhole ==
    (stage = "received" /\ flow = "request" /\ typ # "UpgradePolicy") => got = sent

\* What a good argument says is what the service receives, in either
\* binding, but for the fields the ANI binding does not know, and for the
\* periods and the type of the policy, which the NAPI binding does not read.
LostByNapi == {"autoUpgradePeriods", "customPolicyType"}
ArgumentsArrive ==
    (flow = "request" /\ stage \in {"refused", "received"} /\ lost = 0 /\ arg \in GoodArguments(typ))
        => /\ stage = "received"
           /\ \A f \in Properties(typ) :
                \/ f \in IF binding = "napi" THEN LostByNapi
                         ELSE IF typ \in DOMAIN AniUnknown THEN AniUnknown[typ] ELSE {}
                \/ f = "autoUpgradePeriods" /\ got[f] = Given
                \/ f # "autoUpgradePeriods" /\ got[f] = arg[f]

\* The service never receives a value outside an enum from an application.
OnlyEnumValuesArrive ==
    (stage = "received" /\ flow = "request")
        => \A f \in Fields(typ) :
             /\ f \in DOMAIN Accepted => got[f] \in Accepted[f]
             /\ f = "subType" => got[f] # Other

\* Both bindings show the same for what both show: they differ only on
\* elements that are zero, which only ANI shows, on a size that does not fit
\* an int32, and on the code of a reset that a policy forbids.
Comparable(m) ==
    /\ \A f \in {"versionComponents", "componentDescriptions"} \cap DOMAIN m :
         \A i \in DOMAIN m[f] : IsValidData(m[f][i]) /\ ("size" \in DOMAIN m[f][i] => m[f][i].size # Big)
    /\ "errorNum" \in DOMAIN m => m.errorNum # "MDM_DISABLE_RESET"
Agree(n, a, hidden) == \A f \in (DOMAIN n \cap DOMAIN a) \ hidden : n[f] = a[f]
BindingsAgree ==
    (stage = "shown" /\ typ \in Answers \ {"TaskInfo"} /\ Comparable(got))
        => Agree(NapiBuild(typ, got), AniBuild(typ, got), {"versionComponents", "componentDescriptions"})

\* Through the NAPI binding the application is told of every reported status
\* that has an event, by an event the module names (all but the pause of an
\* installation), with the reason of a failure where there is one and with
\* no error where there is none.
ReportsAreShown ==
    (stage = "shown" /\ flow = "event" /\ binding = "napi" /\ report # NoReport /\ lost = 0)
        => \/ report.status \notin DOMAIN StatusMap /\ shown = Nothing
           \/ /\ shown.eventId = StatusMap[report.status]
              /\ shown.eventId \in DefineEventId \cup {"UPGRADE_PAUSE"}
              /\ report.reason /\ report.status \in {"DOWNLOAD_PAUSE", "DOWNLOAD_FAIL", "VERIFY_FAIL", "INSTALL_FAIL",
                                                     "INSTALL_PAUSE", "UPDATE_FAIL"}
                    => "errorMessages" \in DOMAIN shown.taskBody
              /\ "errorMessages" \in DOMAIN shown.taskBody => report.reason

\* The update application can read every notice, but for that of a status
\* that has no event: no component and no body leaves a hole in the text.
NoticesAreReadable ==
    (stage = "shown" /\ flow = "notice" /\ shown = Malformed) => report.status \in Statuses \ DOMAIN StatusMap

\* A message that comes through a parcel is the one that went in.
ParcelInv == TypeOK /\ ReceivedIsSent /\ RequestsAreWhole

\* What an application may say arrives, and what it may not say does not.
ArgumentsAreKept == ArgumentsArrive /\ OnlyEnumValuesArrive

\* What the service tells is shown, alike in both bindings, and can be read.
AnswersAreShown == BindingsAgree /\ ReportsAreShown /\ NoticesAreReadable
=============================================================================
