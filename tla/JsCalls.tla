------------------------------ MODULE JsCalls ------------------------------
(***************************************************************************)
(* The asynchronous calls of the JavaScript bindings                       *)
(* (frameworks/js/napi and frameworks/js/ani).                             *)
(*                                                                         *)
(* A method of a native updater object runs in three parts: the JS thread  *)
(* parses the arguments into MEMBERS of the object and queues a session, a *)
(* worker thread makes the request with the members as they are THEN and   *)
(* stores the answer in another member, and the JS thread later builds the *)
(* answer for the application from that member.  There is one native       *)
(* object per UpgradeInfo (g_onlineUpdater), one restorer and one local    *)
(* updater, whatever number of JS objects the application holds, and no    *)
(* lock: overlapping calls share the members.  The ANI binding keeps       *)
(* arguments and answers in local variables.                               *)
(*                                                                         *)
(* Data: a value is named after the call that supplied or asked for it.    *)
(***************************************************************************)
EXTENDS Integers, FiniteSets, Sequences, Functions

CONSTANTS
    Calls,      \* the calls the application makes, numbered from 1
    Called      \* the methods it calls, a subset of Methods

ASSUME CallsAssumption == Calls \subseteq Nat \ {0}

None == "none"
Torn == -1                       \* what a racing read and write can give
Values == Calls \cup {0, Torn}       \* 0: the value the member starts with

(***************************************************************************)
(* The methods: the object, the position of the optional callback, the     *)
(* members the arguments are parsed into, in order, and the binding that   *)
(* the worker's closure uses for them.                                     *)
(***************************************************************************)
Method(name, object, position, parse) ==
    [name |-> name, object |-> object, position |-> position, parse |-> parse]

CheckNewVersion == Method("checkNewVersion", "client", 1, <<>>)
CancelUpgrade == Method("cancel", "client", 1, <<>>)
Download == Method("download", "client", 3, <<"versionDigestInfo", "downloadOptions">>)
PauseDownload == Method("pauseDownload", "client", 3, <<"versionDigestInfo", "pauseDownloadOptions">>)
ResumeDownload == Method("resumeDownload", "client", 3, <<"versionDigestInfo", "resumeDownloadOptions">>)
Upgrade == Method("upgrade", "client", 3, <<"versionDigestInfo", "upgradeOptions">>)
ClearError == Method("clearError", "client", 3, <<"versionDigestInfo", "clearOptions">>)
TerminateUpgrade == Method("terminateUpgrade", "client", 1, <<>>)
SetUpgradePolicy == Method("setUpgradePolicy", "client", 2, <<"upgradePolicy">>)
GetUpgradePolicy == Method("getUpgradePolicy", "client", 1, <<>>)
GetNewVersionInfo == Method("getNewVersionInfo", "client", 1, <<>>)
GetNewVersionDescription ==
    Method("getNewVersionDescription", "client", 3, <<"versionDigestInfo", "descriptionOptions">>)
GetCurrentVersionInfo == Method("getCurrentVersionInfo", "client", 1, <<>>)
GetCurrentVersionDescription == Method("getCurrentVersionDescription", "client", 2, <<"descriptionOptions">>)
GetTaskInfo == Method("getTaskInfo", "client", 1, <<>>)
FactoryReset == Method("factoryReset", "restorer", 1, <<>>)
ForceFactoryReset == Method("forceFactoryReset", "restorer", 1, <<>>)
DeepFactoryReset == Method("deepFactoryReset", "restorer", 2, <<"factoryResetStrategy">>)
GetDeepFactoryResetInfo == Method("getDeepFactoryResetInfo", "restorer", 2, <<"factoryResetStrategy">>)
\* The local updater's closures capture their arguments by value: no member.
VerifyUpgradePackage == Method("verifyPackage", "local", 3, <<>>)
ApplyNewVersion == Method("applyNewVersion", "local", 2, <<>>)

ClientMethods == {CheckNewVersion, CancelUpgrade, Download, PauseDownload, ResumeDownload, Upgrade, ClearError,
                  TerminateUpgrade, SetUpgradePolicy, GetUpgradePolicy, GetNewVersionInfo, GetNewVersionDescription,
                  GetCurrentVersionInfo, GetCurrentVersionDescription, GetTaskInfo}
RestorerMethods == {FactoryReset, ForceFactoryReset, DeepFactoryReset, GetDeepFactoryResetInfo}
LocalMethods == {VerifyUpgradePackage, ApplyNewVersion}
Methods == ClientMethods \cup RestorerMethods \cup LocalMethods
\* The ANI classes have the same methods but for cancel.
AniClientMethods == ClientMethods \ {CancelUpgrade}
AniRestorerMethods == RestorerMethods
AniLocalMethods == LocalMethods
AniMethods == AniClientMethods \cup AniRestorerMethods \cup AniLocalMethods

ASSUME CalledAssumption == Called \subseteq Methods

\* Where the worker stores the answer of the service.
StoredIn(m) ==
    CASE m = CheckNewVersion -> "checkResult"
      [] m = GetUpgradePolicy -> "upgradePolicy"
      [] m = GetNewVersionInfo -> "newVersionInfo"
      [] m = GetNewVersionDescription -> "newVersionDescriptionInfo"
      [] m = GetCurrentVersionInfo -> "currentVersionInfo"
      [] m = GetCurrentVersionDescription -> "currentVersionDescriptionInfo"
      [] m = GetTaskInfo -> "taskInfo"
      [] m = GetDeepFactoryResetInfo -> "factoryResetInfo"
      [] OTHER -> None

\* Mutant: the description of the current version is built from the other.
GetUpdateResult_mut(m) ==
    IF m \in {GetNewVersionDescription, GetCurrentVersionDescription} THEN "newVersionDescriptionInfo"
    ELSE StoredIn(m)

\* The member the answer to the application is built from; None: undefined.
GetUpdateResult(m) ==
    IF m.object = "client"
    THEN CASE m = CheckNewVersion -> "checkResult"
           [] m = GetNewVersionInfo -> "newVersionInfo"
           [] m = GetNewVersionDescription -> "newVersionDescriptionInfo"
           [] m = GetTaskInfo -> "taskInfo"
           [] m = GetCurrentVersionInfo -> "currentVersionInfo"
           [] m = GetCurrentVersionDescription -> "currentVersionDescriptionInfo"
           [] m = GetUpgradePolicy -> "upgradePolicy"
           [] OTHER -> None
    ELSE IF m = GetDeepFactoryResetInfo THEN "factoryResetInfo" ELSE None

Uses(m) == Range(m.parse) \cup ({StoredIn(m)} \ {None})
Members == UNION {Uses(m) : m \in Methods}

\* Options whose values are validated, and among them the one that is
\* written field by field, so that a bad second field leaves the first.
Validated == {"downloadOptions", "resumeDownloadOptions", "upgradeOptions", "clearOptions",
              "descriptionOptions", "factoryResetStrategy", "upgradePolicy"}
WrittenByField == {"downloadOptions"}
\* A property the JS object lacks leaves the member as it is (GetString,
\* GetBool of NapiCommonUtils); the validated enums start from a local 0.
Optional == {"versionDigestInfo", "pauseDownloadOptions", "descriptionOptions",
             "factoryResetStrategy", "upgradePolicy"}
-----------------------------------------------------------------------------
VARIABLES
    member,      \* the members of the native objects
    call,        \* per call: how far it is, what was sent, what was answered
    sessions,    \* SessionManager::sessions_
    works,       \* the napi async works that exist
    refs,        \* the references to callbacks that exist
    overlapped,  \* history: calls that shared a member with a live call
    unfinished   \* history: calls the release of whose resources was skipped

vars == <<member, call, sessions, works, refs, overlapped, unfinished>>

Idle == [phase |-> "idle", method |-> CheckNewVersion, style |-> None, omitted |-> {},
         sent |-> [p \in {} |-> 0], raced |-> FALSE, error |-> FALSE, answer |-> 0]

Refused == [Idle EXCEPT !.phase = "refused"]

Live(c) == call[c].phase \in {"queued", "reading", "running", "storing", "ran"} /\ call[c].style # "ani"
Share(c, m) == Uses(call[c].method) \cap Uses(m) # {}

Init ==
    /\ member = [p \in Members |-> 0]
    /\ call = [c \in Calls |-> Idle]
    /\ sessions = {} /\ works = {} /\ refs = {}
    /\ overlapped = {} /\ unfinished = {}

\* Calls are made in the order of their numbers.
NextCall(c) == call[c].phase = "idle" /\ \A d \in Calls : d < c => call[d].phase # "idle"

\* History: which calls the invocation of c overlaps with.
Overlap(c, m) ==
    LET others == {d \in Calls : Live(d) /\ Share(d, m)}
    IN  overlapped' = IF others = {} THEN overlapped ELSE overlapped \cup others \cup {c}

\* Mutant: the loop over the arguments stops one short.
WrittenBy_mut(m, omitted, bad) == {m.parse[i] : i \in {j \in DOMAIN m.parse : j < Len(m.parse)}} \ omitted

\* The parse of the arguments: members before the first bad one are already
\* written when the call is refused.  A worker that is copying a member
\* meanwhile reads it while it changes.
WrittenBy(m, omitted, bad) ==
    LET stop == IF bad = None THEN Len(m.parse) + 1 ELSE CHOOSE i \in DOMAIN m.parse : m.parse[i] = bad
    IN  {m.parse[i] : i \in {j \in DOMAIN m.parse : j < stop}} \ omitted

ParseUpgOptions(c, m, omitted, bad) ==
    \E partly \in (IF bad \in WrittenByField THEN BOOLEAN ELSE {FALSE}) :
        member' = [p \in Members |->
                     IF p \in WrittenBy(m, omitted, bad) \/ (partly /\ p = bad) THEN c ELSE member[p]]

\* The workers that read or write, without a lock, what another thread is
\* writing; what they read or leave is then one value or the other, or torn.
Racing(written, next) ==
    [d \in Calls |->
       IF \/ next[d].phase = "reading" /\ Range(next[d].method.parse) \cap written # {}
          \/ next[d].phase = "storing" /\ StoredIn(next[d].method) \in written
       THEN [next[d] EXCEPT !.raced = TRUE] ELSE next[d]]

callbackStartIndex(m) == m.position - 1
Style(m, argc) == IF argc > callbackStartIndex(m) THEN "callback" ELSE "promise"

(***************************************************************************)
(* JS thread.                                                              *)
(***************************************************************************)
StartWorkFails(c, created) ==
    /\ works' = IF created THEN works \cup {c} ELSE works
    /\ unfinished' = IF created THEN unfinished \cup {c} ELSE unfinished
    /\ UNCHANGED <<sessions, refs>>

\* StartWork of a session with a callback: the callback is checked and
\* referenced, the work created and queued.  When napi cannot create or
\* queue it the reference is given back, the work it created is not.
AsyncStartWork(c, callbackOk) ==
    \/ /\ callbackOk
       /\ works' = works \cup {c} /\ refs' = refs \cup {c}
       /\ sessions' = sessions \cup {c}
       /\ UNCHANGED unfinished
    \/ /\ ~callbackOk
       /\ UNCHANGED <<sessions, works, refs, unfinished>>
    \/ /\ callbackOk
       /\ \E created \in BOOLEAN : StartWorkFails(c, created)

PromiseStartWork(c) ==
    \/ /\ works' = works \cup {c}
       /\ sessions' = sessions \cup {c}
       /\ UNCHANGED <<refs, unfinished>>
    \/ \E created \in BOOLEAN : StartWorkFails(c, created)

\* AddSession comes first; a StartWork that fails takes the session out, so
\* that the session is there afterwards exactly if the work was queued.
StartSession(c, style, callbackOk) ==
    IF style = "callback" THEN AsyncStartWork(c, callbackOk) ELSE PromiseStartWork(c)

Queued(c) == c \in sessions'

Invoke(c, m) ==
    /\ NextCall(c)
    /\ \E argc \in {callbackStartIndex(m), m.position}, callbackOk \in BOOLEAN,
          omitted \in SUBSET (Range(m.parse) \cap Optional) :
         /\ ParseUpgOptions(c, m, omitted, None)
         /\ StartSession(c, Style(m, argc), callbackOk)
         /\ call' = Racing(WrittenBy(m, omitted, None), [call EXCEPT ![c] =
                      IF ~Queued(c) THEN Refused
                      ELSE [Idle EXCEPT !.phase = "queued", !.method = m,
                                        !.style = Style(m, argc), !.omitted = omitted]])
    /\ Overlap(c, m)

\* An argument is not valid: the members before it are written all the same.
\* The local updater queues a session that only answers INT_PARAM_ERR.
InvokeBadArgument(c, m) ==
    /\ NextCall(c)
    /\ \/ /\ \E bad \in Range(m.parse) \cap Validated, omitted \in SUBSET (Range(m.parse) \cap Optional) :
               /\ bad \notin omitted
               /\ ParseUpgOptions(c, m, omitted, bad)
               /\ call' = Racing(WrittenBy(m, omitted, bad), [call EXCEPT ![c] = Refused])
          /\ UNCHANGED <<sessions, works, refs, unfinished>>
       \/ /\ m \in LocalMethods
          /\ \E argc \in {callbackStartIndex(m), m.position}, callbackOk \in BOOLEAN :
               /\ StartSession(c, Style(m, argc), callbackOk)
               /\ call' = [call EXCEPT ![c] =
                             IF ~Queued(c) THEN Refused
                             ELSE [Idle EXCEPT !.phase = "queued", !.method = m,
                                               !.style = Style(m, argc), !.error = TRUE]]
          /\ UNCHANGED member
    /\ Overlap(c, m)

\* What the answer is built from: an error, or the member as it is now.
Built(c) ==
    LET p == GetUpdateResult(call[c].method)
        writers == {d \in Calls \ {c} : call[d].phase = "storing" /\ StoredIn(call[d].method) = p}
    IN  IF call[c].error \/ p = None THEN {0}
        ELSE {member[p]} \cup (IF writers = {} THEN {} ELSE writers \cup {Torn})

Release(c) == works' = works \ {c} /\ refs' = refs \ {c} /\ UNCHANGED unfinished

\* A callback that throws makes napi_call_function fail, and NotifyJS
\* returns before it releases the reference and the work.
AsyncNotifyJS(c) ==
    /\ call[c].style = "callback"
    /\ \/ Release(c)
       \/ unfinished' = unfinished \cup {c} /\ UNCHANGED <<works, refs>>

PromiseNotifyJS(c) == call[c].style = "promise" /\ Release(c)

\* Mutant: the session is not removed.
CompleteWork_mut(c) ==
    /\ call[c].phase = "ran" /\ call[c].style # "ani"
    /\ \E v \in Built(c) : call' = [call EXCEPT ![c].phase = "answered", ![c].answer = v]
    /\ AsyncNotifyJS(c) \/ PromiseNotifyJS(c)
    /\ UNCHANGED <<member, sessions, overlapped>>

CompleteWork(c) ==
    /\ call[c].phase = "ran" /\ call[c].style # "ani"
    /\ \E v \in Built(c) : call' = [call EXCEPT ![c].phase = "answered", ![c].answer = v]
    /\ AsyncNotifyJS(c) \/ PromiseNotifyJS(c)
    /\ sessions' = sessions \ {c}
    /\ UNCHANGED <<member, overlapped>>

(***************************************************************************)
(* Worker threads.                                                         *)
(***************************************************************************)
\* The closure runs and begins to read the members; a param-error session
\* returns at once.
ExecuteWork(c) ==
    /\ call[c].phase = "queued"
    /\ call' = [call EXCEPT ![c].phase = IF call[c].error THEN "ran" ELSE "reading"]
    /\ UNCHANGED <<member, sessions, works, refs, overlapped, unfinished>>

\* The members are in the parcel of the request.
SendRequest(c) ==
    /\ call[c].phase = "reading"
    /\ \E sent \in [Range(call[c].method.parse) -> Values] :
         /\ \A p \in DOMAIN sent : sent[p] \in {member[p]} \cup (IF call[c].raced THEN {Torn} ELSE {})
         /\ call' = [call EXCEPT ![c].phase = "running", ![c].sent = sent]
    /\ UNCHANGED <<member, sessions, works, refs, overlapped, unfinished>>

\* Mutant: a transport error is retried without a bound.
ReceiveAnswer_mut(c) ==
    /\ call[c].phase = "running" /\ call[c].style # "ani"
    /\ \E ret \in BOOLEAN :
         call' = [call EXCEPT ![c].phase = IF ~ret THEN "reading"
                                           ELSE IF StoredIn(call[c].method) # None THEN "storing" ELSE "ran"]
    /\ UNCHANGED <<member, sessions, works, refs, overlapped, unfinished>>

\* The kit returns: an error of the transport, or an answer that carries a
\* business error or not.  Any answer is stored; an error is not.
ReceiveAnswer(c) ==
    /\ call[c].phase = "running" /\ call[c].style # "ani"
    /\ \E ret, businessError \in BOOLEAN :
         call' = [call EXCEPT ![c].error = ~ret \/ businessError,
                              ![c].phase = IF ret /\ StoredIn(call[c].method) # None THEN "storing" ELSE "ran"]
    /\ UNCHANGED <<member, sessions, works, refs, overlapped, unfinished>>

StoreAnswer(c) ==
    /\ call[c].phase = "storing"
    /\ LET p == StoredIn(call[c].method)
       IN  /\ \E v \in {c} \cup (IF call[c].raced THEN {member[p], Torn} ELSE {}) :
                member' = [member EXCEPT ![p] = v]
           /\ call' = Racing({p}, [call EXCEPT ![c].phase = "ran"])
    /\ UNCHANGED <<sessions, works, refs, overlapped, unfinished>>

(***************************************************************************)
(* ANI: the call and its answer only use local variables; SetError throws, *)
(* otherwise the converted answer is returned.                             *)
(***************************************************************************)
AniInvoke(c, m) ==
    /\ NextCall(c)
    /\ call' = [call EXCEPT ![c] = [Idle EXCEPT !.phase = "running", !.method = m, !.style = "ani",
                                                !.sent = [p \in Range(m.parse) |-> c]]]
    /\ UNCHANGED <<member, sessions, works, refs, overlapped, unfinished>>

AniReturn(c) ==
    /\ call[c].phase = "running" /\ call[c].style = "ani"
    /\ \E ret, businessError \in BOOLEAN :
         call' = [call EXCEPT ![c].phase = "answered", ![c].error = ~ret \/ businessError,
                              ![c].answer = IF StoredIn(call[c].method) = None \/ ~ret \/ businessError THEN 0 ELSE c]
    /\ UNCHANGED <<member, sessions, works, refs, overlapped, unfinished>>
-----------------------------------------------------------------------------
\* The calls the application makes are all over.
Over == /\ \A c \in Calls : call[c].phase \in {"answered", "refused"}
        /\ UNCHANGED vars

Worker(c) == ExecuteWork(c) \/ SendRequest(c) \/ ReceiveAnswer(c) \/ StoreAnswer(c)

Next ==
    \/ \E c \in Calls : \E m \in Called : Invoke(c, m) \/ InvokeBadArgument(c, m)
    \/ \E c \in Calls : \E m \in AniMethods \cap Called : AniInvoke(c, m)
    \/ \E c \in Calls : Worker(c) \/ CompleteWork(c) \/ AniReturn(c)
    \/ Over

\* The napi thread pool runs every queued work, the request returns (the kit
\* and the service bound their waits), and the JS event loop runs every
\* completion.  The application need not make a call.
Fairness == \A c \in Calls : WF_vars(Worker(c)) /\ WF_vars(CompleteWork(c)) /\ WF_vars(AniReturn(c))

Spec == Init /\ [][Next]_vars /\ Fairness
-----------------------------------------------------------------------------
TypeOK ==
    /\ member \in [Members -> Values]
    /\ \A c \in Calls :
         /\ call[c].phase \in {"idle", "refused", "queued", "reading", "running", "storing", "ran", "answered"}
         /\ call[c].method \in Methods
         /\ call[c].style \in {None, "callback", "promise", "ani"}
         /\ call[c].sent \in [DOMAIN call[c].sent -> Values]
         /\ call[c].answer \in Values
    /\ \A s \in {sessions, works, refs, overlapped, unfinished} : s \subseteq Calls

\* A request carries the arguments its own call was given, unless the call
\* left a property out or another call shared a member with it while it was
\* live: the members are only safe for calls that do not overlap, a refused
\* one included.
OwnArguments ==
    \A c \in Calls : \A p \in DOMAIN call[c].sent :
        call[c].sent[p] = c \/ p \in call[c].omitted \/ c \in overlapped

\* What the application is told is the answer to its own call, under the
\* same condition: the member an answer is built from is the one its own
\* worker stored.
OwnAnswer ==
    \A c \in Calls :
        (call[c].phase = "answered" /\ ~call[c].error /\ StoredIn(call[c].method) # None)
            => call[c].answer = c \/ c \in overlapped

\* The sessions of the manager are the calls that still have to be answered,
\* and each holds its work: CompleteWork never meets a session that is gone.
\* A work or a reference outlives its session only when a callback threw or
\* the work could not be queued.
ResourcesFollowSessions ==
    /\ sessions = {c \in Calls : Live(c)}
    /\ sessions \subseteq works
    /\ (works \cup refs) \ sessions \subseteq unfinished

\* Every call that was accepted is answered: the callback is called or the
\* promise is settled.
EveryCallAnswered ==
    \A c \in Calls : (call[c].phase = "queued") ~> (call[c].phase = "answered")

\* The sessions, works and references are what the calls under way need, and
\* every member and call has its type.
SessionInv == TypeOK /\ ResourcesFollowSessions
=============================================================================
