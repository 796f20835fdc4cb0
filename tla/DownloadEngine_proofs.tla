------------------------ MODULE DownloadEngine_proofs ------------------------
(***************************************************************************)
(* Proofs about DownloadEngine, for any number of packages, threads,       *)
(* retries, requests and power losses: the types, that nothing follows a   *)
(* final callback, that a cancellation leaves no row, that a row that says *)
(* SUCCESS names a verified package, and, until the first cancellation,    *)
(* that a running package has a thread, that every end of the task is      *)
(* passed on, and that a success the firmware sees is one of every         *)
(* package.                                                                *)
(***************************************************************************)
EXTENDS DownloadEngine, TLAPS

-----------------------------------------------------------------------------
(* The types, variable by variable.  They are stronger than TypeOK where   *)
(* the proof needs it: what a TASK reports (its recorded status, the       *)
(* snapshot of a thread, the queue, the callback in hand) is never         *)
(* VERIFYING, which is a status of packages only and which UpgradeStatus   *)
(* has no translation for.                                                 *)
TaskStatuses == DownloadStatuses \ {"VERIFYING"}
FwStatuses   == {"NO_TASK", "CHECK_VERSION_SUCCESS", "DOWNLOADING", "DOWNLOAD_PAUSE",
                 "DOWNLOAD_SUCCESS", "DOWNLOAD_FAIL"}
ThreadPcs    == {"free", "submitted", "running", "verifying", "check", "leave", "update",
                 "snap", "record", "sync", "remove"}
ThreadRec    == [pc : ThreadPcs, pkg : Packages, status : DownloadStatuses,
                 cancel : BOOLEAN, autoPause : BOOLEAN, attached : BOOLEAN,
                 gone : BOOLEAN, report : DownloadStatuses \cup {"RETRY"},
                 snap : TaskStatuses]
ThreadPool   == [ThreadIds -> ThreadRec]
OpRec        == [kind : {"none", "start", "resume", "cancel", "net"},
                 todo : SUBSET Packages, pc : {"loop", "record", "sync"}]
InfoRec      == [status : DownloadStatuses, retryTimes : 0..maxRetryTimes]
WorkerRec    == [pc : {"idle", "call", "deal", "remove"}, status : TaskStatuses]

FwType       == fw \in FwStatuses
IdType       == downloadTaskId \in BOOLEAN
AliveType    == alive \in BOOLEAN
WantType     == want \in {"none", "start", "resume"}
RequestType  == /\ requests \in [DOMAIN Budget -> Nat]
                /\ \A r \in DOMAIN Budget : requests[r] <= Budget[r]
TidyType     == tidy \in BOOLEAN
OpType       == op \in OpRec
MapTaskType  == inMap \in BOOLEAN
HasCbType    == hasCallback \in BOOLEAN
StopFlagType == isStopDownloadingCallback \in BOOLEAN /\ isStopCallback \in BOOLEAN
PkgsType     == pkgs \subseteq Packages
InfoType     == info \in [Packages -> InfoRec]
StatusType   == status \in TaskStatuses
DbType       == db \in [Packages -> DownloadStatuses \cup {"none"}]
PoolType     == threads \in ThreadPool
ThreadMapType == threadMap \in [Packages -> ThreadIds \cup {0}]
QueueType    == queue \in Seq(TaskStatuses) /\ Len(queue) <= MaxQueue
TimedType    == timed \in BOOLEAN
WorkerType   == worker \in WorkerRec
NetType      == net \in BOOLEAN /\ notify \in BOOLEAN
VerifiedType == verified \subseteq Packages
HandedType   == handed \in TaskStatuses
LostType     == lost \in BOOLEAN
DoubledType  == doubled \subseteq Packages
OverlapType  == overlapped \in BOOLEAN

Types ==
    /\ FwType /\ IdType /\ AliveType /\ WantType /\ RequestType /\ TidyType /\ OpType
    /\ MapTaskType /\ HasCbType /\ StopFlagType /\ PkgsType /\ InfoType /\ StatusType
    /\ DbType /\ PoolType /\ ThreadMapType /\ QueueType /\ TimedType /\ WorkerType
    /\ NetType /\ VerifiedType /\ HandedType /\ LostType /\ DoubledType
    /\ OverlapType

(* A task status is a status.                                              *)
LEMMA TaskStatusIsStatus ==
    /\ TaskStatuses \subseteq DownloadStatuses
    /\ \A s \in {"INIT", "DOWNLOADING", "PAUSE", "CANCEL", "SUCCESS", "FAIL", "AUTO_PAUSE"} :
          s \in TaskStatuses
    /\ \A s \in TaskStatuses :
          s \in {"INIT", "DOWNLOADING", "PAUSE", "CANCEL", "SUCCESS", "FAIL", "AUTO_PAUSE"}
BY DEF TaskStatuses, DownloadStatuses

(* The refined types imply the types the runs check.                       *)
LEMMA TypesImplyTypeOK == Types => TypeOK
<1> SUFFICES ASSUME Types PROVE TypeOK
    OBVIOUS
<1>1. queue \in Seq(DownloadStatuses)
    BY TaskStatusIsStatus DEF Types, QueueType
<1>2. threads \in [ThreadIds -> [pc : ThreadPcs, pkg : Packages, status : DownloadStatuses,
                 cancel : BOOLEAN, autoPause : BOOLEAN, attached : BOOLEAN,
                 gone : BOOLEAN, report : DownloadStatuses \cup {"RETRY"},
                 snap : DownloadStatuses]]
    <2>1. \A t \in ThreadIds : threads[t] \in ThreadRec
        BY DEF Types, PoolType, ThreadPool
    <2>2. \A r \in ThreadRec : r \in [pc : ThreadPcs, pkg : Packages, status : DownloadStatuses,
                 cancel : BOOLEAN, autoPause : BOOLEAN, attached : BOOLEAN,
                 gone : BOOLEAN, report : DownloadStatuses \cup {"RETRY"},
                 snap : DownloadStatuses]
        BY TaskStatusIsStatus DEF ThreadRec
    <2> QED BY <2>1, <2>2 DEF Types, PoolType, ThreadPool
<1>3. worker \in [pc : {"idle", "call", "deal", "remove"}, status : DownloadStatuses]
    BY TaskStatusIsStatus DEF Types, WorkerType, WorkerRec
<1>4. {status, handed} \subseteq DownloadStatuses
    BY TaskStatusIsStatus DEF Types, StatusType, HandedType
<1>5. {downloadTaskId, alive, tidy, inMap, hasCallback, isStopDownloadingCallback,
       isStopCallback, timed, net, notify, lost, overlapped} \subseteq BOOLEAN
    <2> SUFFICES ASSUME NEW b \in {downloadTaskId, alive, tidy, inMap, hasCallback,
                      isStopDownloadingCallback, isStopCallback, timed, net, notify, lost,
                      overlapped}
                 PROVE  b \in BOOLEAN
        OBVIOUS
    <2> QED BY Zenon DEF Types, IdType, AliveType, TidyType, MapTaskType, HasCbType,
                   StopFlagType, TimedType, NetType, LostType, OverlapType
<1> QED BY <1>1, <1>2, <1>3, <1>4, <1>5
        DEF TypeOK, Types, FwType, FwStatuses, WantType, RequestType, OpType, OpRec, PkgsType,
            InfoType, InfoRec, DbType, ThreadPcs, ThreadMapType, QueueType, VerifiedType, DoubledType

-----------------------------------------------------------------------------
(* The building blocks                                                     *)

(* Whatever statuses the packages have, the task has a task status: the    *)
(* package status VERIFYING shows as DOWNLOADING.                          *)
LEMMA TaskStatusType == ASSUME NEW f PROVE TaskStatus(f) \in TaskStatuses
<1>1. TaskStatus(f) \in {"INIT", "DOWNLOADING", "PAUSE", "CANCEL", "SUCCESS", "FAIL", "AUTO_PAUSE"}
    BY Zenon DEF TaskStatus, CalcDownloadTaskStatus
<1> QED BY <1>1, TaskStatusIsStatus

(* Every task status has a firmware status it is translated to.            *)
LEMMA UpgradeStatusType == ASSUME NEW s \in TaskStatuses PROVE UpgradeStatus(s) \in FwStatuses
BY TaskStatusIsStatus DEF UpgradeStatus, FwStatuses

(* A thread that does not exist is a thread record.                        *)
LEMMA FreeThreadType == FreeThread \in ThreadRec
<1>1. (CHOOSE p \in Packages : TRUE) \in Packages
    BY EngineAssumption
<1>2. "INIT" \in TaskStatuses /\ "INIT" \in DownloadStatuses
    BY TaskStatusIsStatus
<1> QED BY <1>1, <1>2 DEF FreeThread, ThreadRec, ThreadPcs

(* StartDownloadThread keeps the pool and threadMap_ well formed.          *)
LEMMA StartThreadType ==
    ASSUME PoolType, ThreadMapType, NEW p \in Packages, NEW s \in DownloadStatuses,
           StartDownloadThread(p, s)
    PROVE  PoolType' /\ ThreadMapType'
<1>1. PICK t \in ThreadIds \ Live :
        /\ threads' = [threads EXCEPT ![t] = [FreeThread EXCEPT !.pc = "submitted", !.pkg = p,
                                !.status = s, !.attached = TRUE]]
        /\ threadMap' = [threadMap EXCEPT ![p] = t]
    BY DEF StartDownloadThread
<1>2. [FreeThread EXCEPT !.pc = "submitted", !.pkg = p, !.status = s, !.attached = TRUE]
        \in ThreadRec
    BY FreeThreadType DEF ThreadRec, ThreadPcs
<1> QED BY <1>1, <1>2 DEF PoolType, ThreadPool, ThreadMapType

(* RecordAndSubmit keeps the recorded status, the queue and the timer.     *)
LEMMA RecordType ==
    ASSUME StatusType, QueueType, TimedType, NEW s \in TaskStatuses, RecordAndSubmit(s)
    PROVE  StatusType' /\ QueueType' /\ TimedType'
<1>1. CASE UNCHANGED <<status, queue, timed>>
    BY <1>1 DEF StatusType, QueueType, TimedType
<1>2. CASE /\ Len(queue) < MaxQueue
           /\ queue' = Append(queue, s)
           /\ status' = s
           /\ timed' = IF IsTaskCompleted(s) THEN FALSE ELSE timed
    <2>1. Len(queue') = Len(queue) + 1 /\ Len(queue) \in Nat /\ queue' \in Seq(TaskStatuses)
        BY <1>2 DEF QueueType
    <2>2. QueueType'
        BY <2>1, <1>2, EngineAssumption DEF QueueType
    <2> QED BY <1>2, <2>2 DEF StatusType, TimedType
<1> QED BY <1>1, <1>2 DEF RecordAndSubmit

(* DealCallBack of a task status.                                          *)
LEMMA DealType ==
    ASSUME MapTaskType, HandedType, LostType, FwType, AliveType, NEW s \in TaskStatuses,
           DealCallBack(s)
    PROVE  MapTaskType' /\ HandedType' /\ LostType' /\ FwType' /\ AliveType'
<1>1. FwType'
    BY UpgradeStatusType DEF DealCallBack, FwType
<1>2. HandedType'
    BY DEF DealCallBack, HandedType
<1>3. MapTaskType' /\ LostType' /\ AliveType'
    BY Zenon DEF DealCallBack, MapTaskType, LostType, AliveType
<1> QED BY <1>1, <1>2, <1>3

(* RemoveTask.                                                             *)
LEMMA RemoveType ==
    ASSUME MapTaskType, HasCbType, PkgsType, RemoveTask
    PROVE  MapTaskType' /\ HasCbType' /\ PkgsType' /\ DbType'
<1>1. DbType'
    BY DEF RemoveTask, DbType
<1>2. CASE inMap' = FALSE /\ hasCallback' = FALSE /\ pkgs' = {}
    BY <1>1, <1>2 DEF MapTaskType, HasCbType, PkgsType
<1>3. CASE UNCHANGED <<inMap, hasCallback, pkgs>>
    BY <1>1, <1>3 DEF MapTaskType, HasCbType, PkgsType
<1> QED BY <1>2, <1>3 DEF RemoveTask

(* A thread whose report is out of its hands runs on, verifies or ends.    *)
LEMMA AfterReportType ==
    ASSUME PoolType, NEW t \in ThreadIds
    PROVE  AfterReport(t) \in ThreadPool
<1> DEFINE r == threads[t]
           n == CASE r.report = "DOWNLOADING" -> [r EXCEPT !.pc = "running", !.snap = "INIT"]
                  [] r.report = "VERIFYING"   -> [r EXCEPT !.pc = "verifying", !.snap = "INIT"]
                  [] OTHER                    -> FreeThread
<1>1. r \in ThreadRec
    BY DEF PoolType, ThreadPool
<1>2. "INIT" \in TaskStatuses
    BY TaskStatusIsStatus
<1>3. /\ [r EXCEPT !.pc = "running", !.snap = "INIT"] \in ThreadRec
      /\ [r EXCEPT !.pc = "verifying", !.snap = "INIT"] \in ThreadRec
    <2> HIDE DEF r
    <2> QED BY <1>1, <1>2 DEF ThreadRec, ThreadPcs
<1>4. n \in ThreadRec
    <2> HIDE DEF r
    <2> QED BY <1>3, FreeThreadType
<1>5. AfterReport(t) = [threads EXCEPT ![t] = n]
    BY DEF AfterReport
<1> HIDE DEF n
<1> QED BY <1>4, <1>5 DEF PoolType, ThreadPool

(* Deleting files under the threads changes no type.                       *)
LEMMA UnlinkedType ==
    ASSUME NEW ths \in ThreadPool, NEW P
    PROVE  Unlinked(ths, P) \in ThreadPool
<1> SUFFICES ASSUME NEW t \in ThreadIds
             PROVE  [ths[t] EXCEPT !.gone = ths[t].gone
                        \/ (ths[t].pc \notin {"free", "submitted"} /\ ths[t].pkg \in P)]
                    \in ThreadRec
    BY DEF Unlinked, ThreadPool
<1> DEFINE r == ths[t]
           b == r.gone \/ (r.pc \notin {"free", "submitted"} /\ r.pkg \in P)
<1>1. r \in ThreadRec
    BY DEF ThreadPool
<1>2. b \in BOOLEAN
    BY Zenon
<1> HIDE DEF r, b
<1>3. [r EXCEPT !.gone = b] \in ThreadRec
    BY <1>1, <1>2 DEF ThreadRec
<1> QED BY <1>3 DEF r, b

(* FinishRemove, given a well-formed pool.                                 *)
LEMMA FinishRemoveType ==
    ASSUME MapTaskType, HasCbType, PkgsType, VerifiedType, NEW s, NEW reached \in FwStatuses,
           NEW ths \in ThreadPool, FinishRemove(s, reached, ths)
    PROVE  /\ MapTaskType' /\ HasCbType' /\ PkgsType' /\ DbType' /\ VerifiedType'
           /\ PoolType' /\ FwType' /\ IdType'
<1>1. MapTaskType' /\ HasCbType' /\ PkgsType' /\ DbType'
    BY RemoveType DEF FinishRemove
<1>2. VerifiedType'
    BY DEF FinishRemove, VerifiedType
<1>3. PoolType'
    BY UnlinkedType DEF FinishRemove, PoolType
<1>4. FwType'
    BY DEF FinishRemove, FwType, FwStatuses
<1>5. IdType'
    BY Zenon DEF FinishRemove, IdType
<1> QED BY <1>1, <1>2, <1>3, <1>4, <1>5

(* A request counts.                                                       *)
LEMMA RequestTypes ==
    ASSUME RequestType, NEW r \in DOMAIN Budget, Request(r)
    PROVE  RequestType'
<1>1. Budget \in [DOMAIN Budget -> Nat]
    BY EngineAssumption DEF Budget
<1>2. requests'[r] = requests[r] + 1 /\ requests'[r] <= Budget[r] /\ requests[r] \in Nat
    BY <1>1 DEF Request, RequestType
<1>3. \A q \in DOMAIN Budget : q # r => requests'[q] = requests[q]
    BY DEF Request, RequestType
<1>4. requests' \in [DOMAIN Budget -> Nat]
    BY <1>2 DEF Request, RequestType
<1> QED BY <1>2, <1>3, <1>4 DEF RequestType

(* The sources a request may have.                                         *)
LEMMA BudgetKeys == DOMAIN Budget = {"download", "resume", "cancel", "net"}
BY DEF Budget

(* A variable that stays keeps its type.                                  *)
LEMMA SameTypes ==
    /\ FwType /\ UNCHANGED fw => FwType'
    /\ IdType /\ UNCHANGED downloadTaskId => IdType'
    /\ AliveType /\ UNCHANGED alive => AliveType'
    /\ WantType /\ UNCHANGED want => WantType'
    /\ RequestType /\ UNCHANGED requests => RequestType'
    /\ TidyType /\ UNCHANGED tidy => TidyType'
    /\ OpType /\ UNCHANGED op => OpType'
    /\ MapTaskType /\ UNCHANGED inMap => MapTaskType'
    /\ HasCbType /\ UNCHANGED hasCallback => HasCbType'
    /\ StopFlagType /\ UNCHANGED <<isStopDownloadingCallback, isStopCallback>> => StopFlagType'
    /\ PkgsType /\ UNCHANGED pkgs => PkgsType'
    /\ InfoType /\ UNCHANGED info => InfoType'
    /\ StatusType /\ UNCHANGED status => StatusType'
    /\ DbType /\ UNCHANGED db => DbType'
    /\ PoolType /\ UNCHANGED threads => PoolType'
    /\ ThreadMapType /\ UNCHANGED threadMap => ThreadMapType'
    /\ QueueType /\ UNCHANGED queue => QueueType'
    /\ TimedType /\ UNCHANGED timed => TimedType'
    /\ WorkerType /\ UNCHANGED worker => WorkerType'
    /\ NetType /\ UNCHANGED <<net, notify>> => NetType'
    /\ VerifiedType /\ UNCHANGED verified => VerifiedType'
    /\ HandedType /\ UNCHANGED handed => HandedType'
    /\ LostType /\ UNCHANGED lost => LostType'
    /\ DoubledType /\ UNCHANGED doubled => DoubledType'
    /\ OverlapType /\ UNCHANGED overlapped => OverlapType'
BY DEF FwType, IdType, AliveType, WantType, RequestType, TidyType, OpType, MapTaskType,
       HasCbType, StopFlagType, PkgsType, InfoType, StatusType, DbType, PoolType, ThreadMapType,
       QueueType, TimedType, WorkerType, NetType, VerifiedType, HandedType, LostType, DoubledType,
       OverlapType, Budget

-----------------------------------------------------------------------------
(* The types, action by action                                             *)

(* The values the operation under the map mutex takes.                     *)
LEMMA OpTypes ==
    /\ NoOp \in OpRec
    /\ \A T \in SUBSET Packages, k \in {"start", "resume", "cancel", "net"} :
          /\ [NoOp EXCEPT !.kind = k, !.todo = T] \in OpRec
          /\ [NoOp EXCEPT !.kind = k] \in OpRec
    /\ \A o \in OpRec, p \in Packages, c \in {"loop", "record", "sync"} :
          /\ [o EXCEPT !.todo = @ \ {p}] \in OpRec
          /\ [o EXCEPT !.todo = {}] \in OpRec
          /\ [o EXCEPT !.pc = c] \in OpRec
          /\ [o EXCEPT !.todo = @ \ {p}, !.pc = c] \in OpRec
BY DEF NoOp, OpRec

(* The values the serial queue's worker takes.                             *)
LEMMA WorkerTypes ==
    /\ IdleWorker \in WorkerRec
    /\ \A s \in TaskStatuses : [pc |-> "call", status |-> s] \in WorkerRec
    /\ \A w \in WorkerRec : /\ [w EXCEPT !.pc = "deal"] \in WorkerRec
                            /\ [w EXCEPT !.pc = "remove"] \in WorkerRec
                            /\ w.status \in TaskStatuses
BY TaskStatusIsStatus DEF IdleWorker, WorkerRec

(* Every variable starts with its type.                                    *)
LEMMA InitTypes == Init => Types
<1> SUFFICES ASSUME Init PROVE Types
    OBVIOUS
<1>1. RequestType
    BY EngineAssumption DEF Init, RequestType, Budget
<1>2. "INIT" \in TaskStatuses /\ "INIT" \in DownloadStatuses
    BY TaskStatusIsStatus
<1>3. InfoType
    BY <1>2, EngineAssumption DEF Init, InfoType, InfoRec
<1>4. PoolType
    BY FreeThreadType DEF Init, PoolType, ThreadPool
<1>5. QueueType
    BY EngineAssumption DEF Init, QueueType
<1> QED BY <1>1, <1>2, <1>3, <1>4, <1>5, OpTypes, WorkerTypes
        DEF Types, Init, FwType, FwStatuses, IdType, AliveType, WantType, TidyType, OpType,
            MapTaskType, HasCbType, StopFlagType, PkgsType, StatusType, DbType, ThreadMapType,
            TimedType, WorkerType, NetType, VerifiedType, HandedType, LostType, DoubledType, OverlapType

(* The actions of the firmware layer keep the types.                       *)
LEMMA FirmwareTypes == Types /\ FirmwareNext => Types'
<1> SUFFICES ASSUME Types, FirmwareNext PROVE Types'
    OBVIOUS
<1> USE DEF Types
<1>1. CASE NewVersionFound
    <2>1. FwType' /\ IdType'
        BY <1>1 DEF NewVersionFound, FwType, FwStatuses, IdType
    <2> QED BY <1>1, <2>1, SameTypes
            DEF NewVersionFound, task, pool, serial, network, ghosts
<1>2. CASE PerformDownload
    <2>1. FwType' /\ IdType' /\ WantType' /\ OverlapType'
        BY <1>2 DEF PerformDownload, FwType, FwStatuses, IdType, WantType, OverlapType
    <2>2. RequestType'
        BY <1>2, RequestTypes, BudgetKeys DEF PerformDownload
    <2> QED BY <1>2, <2>1, <2>2, SameTypes
            DEF PerformDownload, task, pool, serial, network, ghosts
<1>3. CASE PerformResumeDownload
    <2>1. FwType' /\ WantType'
        BY <1>3 DEF PerformResumeDownload, FwType, FwStatuses, WantType
    <2>2. RequestType'
        BY <1>3, RequestTypes, BudgetKeys DEF PerformResumeDownload
    <2> QED BY <1>3, <2>1, <2>2, SameTypes
            DEF PerformResumeDownload, task, pool, serial, network, ghosts
<1>4. CASE ReportFinishedDownload
    <2>1. RequestType'
        BY <1>4, RequestTypes, BudgetKeys DEF ReportFinishedDownload
    <2>2. UpgradeStatus(CurrentStatus) \in FwStatuses
        BY TaskStatusType, UpgradeStatusType DEF CurrentStatus
    <2>3. /\ MapTaskType' /\ HasCbType' /\ PkgsType' /\ DbType' /\ VerifiedType'
          /\ PoolType' /\ FwType' /\ IdType'
        BY <1>4, <2>2, FinishRemoveType DEF ReportFinishedDownload, PoolType
    <2> QED BY <1>4, <2>1, <2>3, SameTypes DEF ReportFinishedDownload, serial, network
<1>5. CASE ResumeRunningFails
    <2>1. RequestType'
        BY <1>5, RequestTypes, BudgetKeys DEF ResumeRunningFails
    <2>2. /\ MapTaskType' /\ HasCbType' /\ PkgsType' /\ DbType' /\ VerifiedType'
          /\ PoolType' /\ FwType' /\ IdType'
        BY <1>5, FinishRemoveType DEF ResumeRunningFails, PoolType, FwType
    <2> QED BY <1>5, <2>1, <2>2, SameTypes DEF ResumeRunningFails, serial, network
<1>6. CASE DoCancel
    <2>1. TidyType'
        BY <1>6 DEF DoCancel, TidyType
    <2>2. RequestType'
        BY <1>6, RequestTypes, BudgetKeys DEF DoCancel
    <2> QED BY <1>6, <2>1, <2>2, SameTypes DEF DoCancel, task, pool, serial, network, ghosts
<1>7. CASE DoCancelCleanUp
    <2>1. FwType' /\ TidyType'
        BY <1>7 DEF DoCancelCleanUp, FwType, FwStatuses, TidyType
    <2>2. MapTaskType' /\ HasCbType' /\ PkgsType' /\ DbType'
        BY <1>7, RemoveType DEF DoCancelCleanUp
    <2> QED BY <1>7, <2>1, <2>2, SameTypes DEF DoCancelCleanUp, pool, serial, network, ghosts
<1> QED BY <1>1, <1>2, <1>3, <1>4, <1>5, <1>6, <1>7 DEF FirmwareNext

(* A package's DownloadInfo may take any status.                           *)
LEMMA InfoTypes ==
    ASSUME InfoType, NEW p \in Packages, NEW s \in DownloadStatuses
    PROVE  /\ [info EXCEPT ![p].status = s] \in [Packages -> InfoRec]
           /\ [info EXCEPT ![p] = [status |-> s, retryTimes |-> 0]] \in [Packages -> InfoRec]
           /\ info[p].status \in DownloadStatuses
<1>1. \A q \in Packages : info[q] \in InfoRec
    BY DEF InfoType
<1>2. [info[p] EXCEPT !.status = s] \in InfoRec /\ info[p].status \in DownloadStatuses
    BY <1>1 DEF InfoRec
<1>3. [status |-> s, retryTimes |-> 0] \in InfoRec
    BY EngineAssumption DEF InfoRec
<1> QED BY <1>2, <1>3 DEF InfoType

(* What Start makes of the threads of the old object: they are detached    *)
(* and, if the task was in the map, cancelled.                             *)
LEMMA DetachedType ==
    ASSUME PoolType, NEW T,
           T = [t \in ThreadIds |-> [threads[t] EXCEPT !.attached = FALSE,
                    !.cancel = @ \/ (inMap /\ threadMap[threads[t].pkg] = t)]]
    PROVE  T \in ThreadPool
<1> SUFFICES ASSUME NEW t \in ThreadIds PROVE T[t] \in ThreadRec
    BY DEF ThreadPool
<1> DEFINE r == threads[t]
           c == r.cancel \/ (inMap /\ threadMap[r.pkg] = t)
<1>1. T[t] = [r EXCEPT !.attached = FALSE, !.cancel = c] /\ r \in ThreadRec
    BY DEF PoolType, ThreadPool
<1>2. c \in BOOLEAN
    BY Zenon
<1> HIDE DEF r, c
<1> QED BY <1>1, <1>2 DEF ThreadRec

(* Cancel tells every thread of threadMap_ to stop.                        *)
LEMMA CancelledType ==
    ASSUME PoolType, NEW T,
           T = [t \in ThreadIds |-> [threads[t] EXCEPT
                    !.cancel = @ \/ threadMap[threads[t].pkg] = t]]
    PROVE  T \in ThreadPool
<1> SUFFICES ASSUME NEW t \in ThreadIds PROVE T[t] \in ThreadRec
    BY DEF ThreadPool
<1> DEFINE r == threads[t]
           c == r.cancel \/ threadMap[r.pkg] = t
<1>1. T[t] = [r EXCEPT !.cancel = c] /\ r \in ThreadRec
    BY DEF PoolType, ThreadPool
<1>2. c \in BOOLEAN
    BY Zenon
<1> HIDE DEF r, c
<1> QED BY <1>1, <1>2 DEF ThreadRec

(* Start, package by package, keeps the types.                             *)
LEMMA StartTypes ==
    ASSUME Types, StartTask \/ (\E p \in Packages : StartPackage(p)) \/ EnsureInsert
    PROVE  Types'
<1> USE DEF Types
<1>0. "INIT" \in TaskStatuses /\ "INIT" \in DownloadStatuses
    BY TaskStatusIsStatus
<1>1. CASE StartTask
    <2>1. PoolType'
        BY <1>1, DetachedType, UnlinkedType DEF StartTask, PoolType
    <2>2. InfoType'
        <3>1. info' = [p \in Packages |-> [status |-> "INIT", retryTimes |-> 0]]
            BY <1>1 DEF StartTask
        <3>2. [status |-> "INIT", retryTimes |-> 0] \in InfoRec
            BY <1>0, EngineAssumption DEF InfoRec
        <3> QED BY <3>1, <3>2 DEF InfoType
    <2>3. WorkerType'
        BY <1>1, WorkerTypes DEF StartTask, WorkerType
    <2>4. QueueType'
        <3>1. queue' = <<>>
            BY <1>1 DEF StartTask
        <3> QED BY <3>1, EngineAssumption DEF QueueType
    <2>5. /\ WantType' /\ MapTaskType' /\ StopFlagType' /\ StatusType' /\ HandedType'
          /\ LostType' /\ TimedType' /\ ThreadMapType'
        BY <1>0, <1>1 DEF StartTask, WantType, MapTaskType, StopFlagType, StatusType,
            HandedType, LostType, TimedType, ThreadMapType
    <2>6. RequestType' /\ TidyType' /\ NetType' /\ DoubledType' /\ OverlapType'
        BY <1>1, SameTypes DEF StartTask, network
    <2>7. /\ OpType' /\ PkgsType' /\ HasCbType' /\ DbType' /\ VerifiedType' /\ FwType'
          /\ IdType' /\ AliveType'
        <3>1. CASE /\ op' = [NoOp EXCEPT !.kind = "start", !.todo = Packages]
                   /\ pkgs' = Packages /\ hasCallback' = TRUE /\ alive' = TRUE
                   /\ db' = IF inMap THEN [p \in Packages |-> "none"] ELSE db
                   /\ verified' = IF inMap THEN {} ELSE verified
                   /\ UNCHANGED <<fw, downloadTaskId>>
            BY <3>1, OpTypes, SameTypes
               DEF OpType, PkgsType, HasCbType, AliveType, DbType, VerifiedType
        <3>2. CASE /\ op' = op
                   /\ pkgs' = {} /\ hasCallback' = FALSE
                   /\ db' = [p \in Packages |-> "none"]
                   /\ verified' = {}
                   /\ fw' = "NO_TASK" /\ downloadTaskId' = FALSE /\ alive' = FALSE
            BY <3>2 DEF OpType, PkgsType, HasCbType, AliveType, DbType, VerifiedType,
               FwType, FwStatuses, IdType
        <3> QED BY <1>1, <3>1, <3>2 DEF StartTask
    <2> QED BY <2>1, <2>2, <2>3, <2>4, <2>5, <2>6, <2>7
<1>2. ASSUME NEW p \in Packages, StartPackage(p) PROVE Types'
    <2>1. PoolType' /\ ThreadMapType'
        BY <1>0, <1>2, StartThreadType DEF StartPackage
    <2>2. OpType'
        BY <1>2, OpTypes DEF StartPackage, OpType
    <2>3. DbType'
        BY <1>0, <1>2 DEF StartPackage, DbType
    <2> QED BY <1>2, <2>1, <2>2, <2>3, SameTypes
            DEF StartPackage, client, task, serial, network, ghosts
<1>3. CASE EnsureInsert
    <2>1. MapTaskType' /\ OpType' /\ StopFlagType' /\ TimedType'
        BY <1>3, OpTypes DEF EnsureInsert, EnableCallback, MapTaskType, OpType, StopFlagType,
            TimedType
    <2> QED BY <1>3, <2>1, SameTypes DEF EnsureInsert, client, pool, network, ghosts
<1> QED BY <1>1, <1>2, <1>3

(* Resume keeps the types.                                                 *)
LEMMA ResumeTypes ==
    ASSUME Types,
           \/ ResumeTask \/ ResumeMissingTask
           \/ (\E p \in Packages : ResumePackage(p)) \/ ResumeFinish
    PROVE  Types'
<1> USE DEF Types
<1>0. \A s \in {"INIT", "DOWNLOADING"} : s \in TaskStatuses /\ s \in DownloadStatuses
    BY TaskStatusIsStatus
<1>1. CASE ResumeTask
    <2>1. InfoType'
        <3>1. \A p \in Packages : info[p] \in InfoRec
            BY DEF InfoType
        <3>2. \A p \in Packages : [info[p] EXCEPT !.status = "INIT"] \in InfoRec
            BY <1>0, <3>1 DEF InfoRec
        <3> QED BY <1>1, <3>1, <3>2 DEF ResumeTask, InfoType
    <2>2. OpType'
        BY <1>1, OpTypes DEF ResumeTask, OpType, PkgsType
    <2>3. /\ WantType' /\ HasCbType' /\ StopFlagType' /\ TimedType' /\ HandedType' /\ FwType'
          /\ AliveType' /\ LostType'
        BY <1>0, <1>1 DEF ResumeTask, EnableCallback, WantType, HasCbType, StopFlagType,
            TimedType, HandedType, FwType, FwStatuses, AliveType, NetType, LostType
    <2> QED BY <1>1, <2>1, <2>2, <2>3, SameTypes DEF ResumeTask, pool, network
<1>2. CASE ResumeMissingTask
    <2>1. WantType' /\ AliveType'
        BY <1>2 DEF ResumeMissingTask, WantType, AliveType
    <2>2. /\ MapTaskType' /\ HasCbType' /\ PkgsType' /\ DbType' /\ VerifiedType'
          /\ PoolType' /\ FwType' /\ IdType'
        BY <1>2, FinishRemoveType DEF ResumeMissingTask, PoolType, FwType
    <2> QED BY <1>2, <2>1, <2>2, SameTypes DEF ResumeMissingTask, serial, network
<1>3. ASSUME NEW p \in Packages, ResumePackage(p) PROVE Types'
    <2>1. OpType'
        BY <1>3, OpTypes DEF ResumePackage, OpType
    <2>2. InfoType' /\ PoolType' /\ ThreadMapType'
        <3>1. CASE threadMap[p] # 0 \/ IsCompleted(info[p].status)
            BY <1>3, <3>1, SameTypes DEF ResumePackage, pool
        <3>2. CASE ~(threadMap[p] # 0 \/ IsCompleted(info[p].status))
            <4> DEFINE s == IF info[p].status \in {"PAUSE", "AUTO_PAUSE"}
                            THEN "DOWNLOADING" ELSE info[p].status
            <4>1. s \in DownloadStatuses
                BY <1>0, InfoTypes
            <4>2. /\ info' = [info EXCEPT ![p] = [status |-> s, retryTimes |-> 0]]
                  /\ StartDownloadThread(p, s)
                BY <1>3, <3>2 DEF ResumePackage
            <4> HIDE DEF s
            <4> QED BY <4>1, <4>2, InfoTypes, StartThreadType DEF InfoType
        <3> QED BY <3>1, <3>2
    <2>3. DoubledType'
        BY <1>3 DEF ResumePackage, DoubledType
    <2> QED BY <1>3, <2>1, <2>2, <2>3, SameTypes
            DEF ResumePackage, client, task, serial, network
<1>4. CASE ResumeFinish
    <2>1. StatusType' /\ OpType'
        BY <1>4, OpTypes, TaskStatusType DEF ResumeFinish, CurrentStatus, StatusType, OpType
    <2>2. LostType'
        BY <1>4 DEF ResumeFinish, LostType
    <2> QED BY <1>4, <2>1, <2>2, SameTypes DEF ResumeFinish, client, task, pool, serial, network
<1> QED BY <1>1, <1>2, <1>3, <1>4

(* Cancel keeps the types.                                                 *)
LEMMA CancelTypes ==
    ASSUME Types,
           \/ CancelTask \/ (\E p \in Packages : CancelPackage(p))
           \/ CancelRecord \/ CancelCallback \/ CancelFinish
    PROVE  Types'
<1> USE DEF Types
<1>0. "CANCEL" \in TaskStatuses /\ "CANCEL" \in DownloadStatuses
    BY TaskStatusIsStatus
<1>1. CASE CancelTask
    <2>1. RequestType'
        BY <1>1, RequestTypes, BudgetKeys DEF CancelTask
    <2>2. PoolType'
        BY <1>1, CancelledType, UnlinkedType DEF CancelTask, PoolType
    <2>3. OpType'
        BY <1>1, OpTypes DEF CancelTask, OpType, PkgsType
    <2>4. StopFlagType' /\ TimedType' /\ ThreadMapType' /\ VerifiedType'
        BY <1>1 DEF CancelTask, StopFlagType, TimedType, ThreadMapType, VerifiedType
    <2> QED BY <1>1, <2>1, <2>2, <2>3, <2>4, SameTypes DEF CancelTask, network
<1>2. ASSUME NEW p \in Packages, CancelPackage(p) PROVE Types'
    <2>1. InfoType'
        BY <1>0, <1>2, InfoTypes DEF CancelPackage, InfoType
    <2>2. OpType'
        BY <1>2, OpTypes DEF CancelPackage, OpType
    <2>3. ThreadMapType'
        BY <1>2 DEF CancelPackage, ThreadMapType
    <2> QED BY <1>2, <2>1, <2>2, <2>3, SameTypes
            DEF CancelPackage, client, task, serial, network, ghosts
<1>3. CASE CancelRecord
    <2>1. CurrentStatus \in TaskStatuses
        BY TaskStatusType DEF CurrentStatus
    <2>2. OpType'
        <3>1. op' \in {[op EXCEPT !.pc = "sync"], [op EXCEPT !.pc = "loop"]}
            BY <1>3 DEF CancelRecord
        <3>2. \A c \in {"sync", "loop"} : [op EXCEPT !.pc = c] \in OpRec
            BY DEF OpType, OpRec
        <3> QED BY <3>1, <3>2 DEF OpType
    <2>3. StatusType' /\ QueueType' /\ TimedType'
        <3>1. CASE status' = CurrentStatus /\ timed' = FALSE /\ UNCHANGED queue
            BY <2>1, <3>1, SameTypes DEF StatusType, TimedType
        <3>2. CASE RecordAndSubmit(CurrentStatus)
            BY <2>1, <3>2, RecordType
        <3> QED BY <1>3, <3>1, <3>2 DEF CancelRecord
    <2> QED BY <1>3, <2>2, <2>3, SameTypes
            DEF CancelRecord, client, task, pool, network, ghosts
<1>4. CASE CancelCallback
    <2>1. OpType'
        <3>1. op' = [op EXCEPT !.pc = "loop"]
            BY <1>4 DEF CancelCallback
        <3> QED BY <3>1 DEF OpType, OpRec
    <2>2. /\ MapTaskType' /\ HandedType' /\ LostType' /\ AliveType' /\ FwType' /\ IdType'
          /\ DbType' /\ VerifiedType' /\ PoolType'
        <3>1. CASE CallbackAllowed("CANCEL")
            <4>1. MapTaskType' /\ HandedType' /\ LostType' /\ AliveType' /\ FwType'
                BY <1>0, <1>4, <3>1, DealType DEF CancelCallback
            <4>2. DbType' /\ VerifiedType'
                BY <1>4, <3>1 DEF CancelCallback, DbType, VerifiedType
            <4>3. IdType'
                BY <1>4, <3>1, Zenon DEF CancelCallback, IdType
            <4>4. PoolType'
                BY <1>4, <3>1, UnlinkedType DEF CancelCallback, PoolType
            <4> QED BY <4>1, <4>2, <4>3, <4>4
        <3>2. CASE ~CallbackAllowed("CANCEL")
            BY <1>4, <3>2, SameTypes DEF CancelCallback
        <3> QED BY <3>1, <3>2
    <2> QED BY <1>4, <2>1, <2>2, SameTypes DEF CancelCallback, serial, network
<1>5. CASE CancelFinish
    <2>1. DbType' /\ HasCbType' /\ TidyType' /\ OpType'
        BY <1>5, OpTypes DEF CancelFinish, DbType, HasCbType, TidyType, OpType
    <2> QED BY <1>5, <2>1, SameTypes DEF CancelFinish, pool, serial, network, ghosts
<1> QED BY <1>1, <1>2, <1>3, <1>4, <1>5

(* A change of the network keeps the types.                                *)
LEMMA NetTypes ==
    ASSUME Types,
           \/ NetChanges \/ OnNetAvailable \/ OnNetIgnored \/ OnNetLost
           \/ (\E p \in Packages : NetPausePackage(p)) \/ NetLostFinish
    PROVE  Types'
<1> USE DEF Types
<1>0. "AUTO_PAUSE" \in TaskStatuses /\ "AUTO_PAUSE" \in DownloadStatuses
    BY TaskStatusIsStatus
<1>1. CASE NetChanges
    <2>1. RequestType'
        BY <1>1, RequestTypes, BudgetKeys DEF NetChanges
    <2>2. NetType'
        BY <1>1 DEF NetChanges, NetType
    <2> QED BY <1>1, <2>1, <2>2, SameTypes DEF NetChanges, task, pool, serial, ghosts
<1>2. CASE OnNetAvailable
    <2>1. NetType' /\ StopFlagType' /\ TimedType'
        BY <1>2 DEF OnNetAvailable, EnableCallback, NetType, StopFlagType, TimedType
    <2> QED BY <1>2, <2>1, SameTypes DEF OnNetAvailable, client, pool, ghosts
<1>3. CASE OnNetIgnored
    <2>1. NetType'
        BY <1>3 DEF OnNetIgnored, NetType
    <2> QED BY <1>3, <2>1, SameTypes DEF OnNetIgnored, client, task, pool, serial, ghosts
<1>4. CASE OnNetLost
    <2>1. OpType'
        BY <1>4, OpTypes DEF OnNetLost, OpType
    <2>2. NetType' /\ TimedType'
        BY <1>4 DEF OnNetLost, NetType, TimedType
    <2> QED BY <1>4, <2>1, <2>2, SameTypes DEF OnNetLost, client, task, pool, ghosts
<1>5. ASSUME NEW p \in Packages, NetPausePackage(p) PROVE Types'
    <2> DEFINE t == threadMap[p]
    <2>1. OpType'
        BY <1>5, OpTypes DEF NetPausePackage, OpType
    <2>2. /\ ThreadMapType' /\ InfoType' /\ DbType' /\ StatusType' /\ QueueType' /\ TimedType'
          /\ PoolType'
        <3>1. CASE threads[t].status = "INIT" /\ ~isStopCallback
            <4>1. PICK s \in TaskStatuses : RecordAndSubmit(s)
                BY <1>5, <3>1, TaskStatusType DEF NetPausePackage
            <4>2. StatusType' /\ QueueType' /\ TimedType'
                BY <4>1, RecordType
            <4>3. InfoType'
                <5>1. info' = [info EXCEPT ![p].status = "AUTO_PAUSE"]
                    BY <1>5, <3>1 DEF NetPausePackage
                <5> QED BY <1>0, <5>1, InfoTypes DEF InfoType
            <4>4. ThreadMapType' /\ DbType'
                BY <1>0, <1>5, <3>1 DEF NetPausePackage, ThreadMapType, DbType
            <4>5. PoolType'
                BY <1>5, <3>1, SameTypes DEF NetPausePackage
            <4> QED BY <4>2, <4>3, <4>4, <4>5
        <3>2. CASE ~(threads[t].status = "INIT" /\ ~isStopCallback)
            <4> DEFINE b == threads[t].autoPause \/ threads[t].status = "DOWNLOADING"
            <4>1. b \in BOOLEAN
                BY Zenon
            <4>2. threads' = [threads EXCEPT ![t].autoPause = b]
                BY <1>5, <3>2 DEF NetPausePackage
            <4> HIDE DEF b
            <4>3. PoolType'
                <5>1. CASE t \in ThreadIds
                    <6>1. [threads[t] EXCEPT !.autoPause = b] \in ThreadRec
                        BY <4>1, <5>1 DEF PoolType, ThreadPool, ThreadRec
                    <6> QED BY <4>2, <5>1, <6>1 DEF PoolType, ThreadPool
                <5>2. CASE t \notin ThreadIds
                    BY <4>2, <5>2 DEF PoolType, ThreadPool
                <5> QED BY <5>1, <5>2
            <4> QED BY <1>5, <3>2, <4>3, SameTypes DEF NetPausePackage
        <3> QED BY <3>1, <3>2
    <2> QED BY <1>5, <2>1, <2>2, SameTypes DEF NetPausePackage, client, task, network, ghosts
<1>6. CASE NetLostFinish
    <2>1. OpType'
        BY <1>6, OpTypes DEF NetLostFinish, OpType
    <2> QED BY <1>6, <2>1, SameTypes
            DEF NetLostFinish, client, task, pool, serial, network, ghosts
<1> QED BY <1>1, <1>2, <1>3, <1>4, <1>5, <1>6

(* The fields a step of thread t writes.                                   *)
LEMMA ThreadStepType ==
    ASSUME PoolType, NEW t \in ThreadIds, NEW c \in ThreadPcs,
           NEW r \in DownloadStatuses \cup {"RETRY"}, NEW s \in DownloadStatuses,
           NEW n \in TaskStatuses
    PROVE  /\ threads[t] \in ThreadRec
           /\ [threads EXCEPT ![t].pc = c] \in ThreadPool
           /\ [threads EXCEPT ![t].pc = c, ![t].report = r] \in ThreadPool
           /\ [threads EXCEPT ![t].pc = c, ![t].report = r, ![t].status = s] \in ThreadPool
           /\ [threads EXCEPT ![t].pc = c, ![t].snap = n] \in ThreadPool
           /\ [threads EXCEPT ![t] = FreeThread] \in ThreadPool
<1>1. threads[t] \in ThreadRec
    BY DEF PoolType, ThreadPool
<1>2. \A x \in ThreadRec : [threads EXCEPT ![t] = x] \in ThreadPool
    BY DEF PoolType, ThreadPool
<1>3. /\ [threads[t] EXCEPT !.pc = c] \in ThreadRec
      /\ [threads[t] EXCEPT !.pc = c, !.report = r] \in ThreadRec
      /\ [threads[t] EXCEPT !.pc = c, !.report = r, !.status = s] \in ThreadRec
      /\ [threads[t] EXCEPT !.pc = c, !.snap = n] \in ThreadRec
    BY <1>1 DEF ThreadRec
<1>4. /\ [threads EXCEPT ![t].pc = c] = [threads EXCEPT ![t] = [threads[t] EXCEPT !.pc = c]]
      /\ [threads EXCEPT ![t].pc = c, ![t].report = r]
            = [threads EXCEPT ![t] = [threads[t] EXCEPT !.pc = c, !.report = r]]
      /\ [threads EXCEPT ![t].pc = c, ![t].report = r, ![t].status = s]
            = [threads EXCEPT ![t] = [threads[t] EXCEPT !.pc = c, !.report = r, !.status = s]]
      /\ [threads EXCEPT ![t].pc = c, ![t].snap = n]
            = [threads EXCEPT ![t] = [threads[t] EXCEPT !.pc = c, !.snap = n]]
    BY DEF PoolType, ThreadPool
<1> QED BY <1>1, <1>2, <1>3, <1>4, FreeThreadType

(* The steps of a thread before its report reaches the task.               *)
LEMMA ThreadRunTypes ==
    ASSUME Types, NEW t \in ThreadIds,
           \/ DownloadVersion(t) \/ DoDownload(t) \/ DoVerify(t)
           \/ CheckStopFlag(t) \/ RemoveThread(t)
    PROVE  Types'
<1> USE DEF Types
<1>0. \A s \in {"INIT", "DOWNLOADING", "SUCCESS", "FAIL", "AUTO_PAUSE"} :
          s \in TaskStatuses /\ s \in DownloadStatuses
    BY TaskStatusIsStatus
<1>a. "VERIFYING" \in DownloadStatuses /\ threads[t] \in ThreadRec
    BY DEF DownloadStatuses, PoolType, ThreadPool
<1>b. threads[t].status \in DownloadStatuses /\ threads[t].pkg \in Packages
    BY <1>a DEF ThreadRec
<1>c. /\ {"check", "update", "leave"} \subseteq ThreadPcs
      /\ {"RETRY", "FAIL", "AUTO_PAUSE", "SUCCESS"} \subseteq DownloadStatuses \cup {"RETRY"}
      /\ "INIT" \in TaskStatuses
    BY <1>0 DEF ThreadPcs
<1>d. \A r \in DownloadStatuses \cup {"RETRY"} : Report(t, r) => PoolType'
    <2> SUFFICES ASSUME NEW r \in DownloadStatuses \cup {"RETRY"}, Report(t, r) PROVE PoolType'
        OBVIOUS
    <2>1. "check" \in ThreadPcs /\ "INIT" \in TaskStatuses /\ "INIT" \in DownloadStatuses
        BY <1>0, <1>c
    <2>2. [threads EXCEPT ![t].pc = "check", ![t].report = r] \in ThreadPool
        BY <2>1, ThreadStepType
    <2> QED BY <2>2 DEF Report, PoolType
<1>e. \A r \in DownloadStatuses :
        threads' = [threads EXCEPT ![t].pc = "check", ![t].report = r, ![t].status = r] => PoolType'
    <2> SUFFICES ASSUME NEW r \in DownloadStatuses
                 PROVE  [threads EXCEPT ![t].pc = "check", ![t].report = r, ![t].status = r]
                            \in ThreadPool
        BY DEF PoolType
    <2>1. "check" \in ThreadPcs /\ "INIT" \in TaskStatuses
          /\ r \in DownloadStatuses \cup {"RETRY"}
        BY <1>0, <1>c
    <2> QED BY <2>1, ThreadStepType
<1>f. threads' = [threads EXCEPT ![t] = FreeThread] => PoolType'
    BY <1>0, <1>c, ThreadStepType DEF PoolType
<1>1. CASE DownloadVersion(t)
    <2> DEFINE s == threads[t].status
               r == IF s = "VERIFYING" THEN s ELSE "DOWNLOADING"
    <2>1. r \in DownloadStatuses /\ (IF s = "FAIL" THEN "RETRY" ELSE s) \in DownloadStatuses \cup {"RETRY"}
        BY <1>0, <1>b
    <2>2. \/ Report(t, IF s = "FAIL" THEN "RETRY" ELSE s)
          \/ threads' = [threads EXCEPT ![t].pc = "check", ![t].report = r, ![t].status = r]
        BY <1>1 DEF DownloadVersion
    <2>3. PoolType'
        <3> HIDE DEF s, r
        <3> QED BY <2>1, <2>2, <1>d, <1>e
    <2> QED BY <1>1, <2>3, SameTypes
            DEF DownloadVersion, client, task, serial, network, ghosts
<1>2. CASE DoDownload(t)
    <2>1. PoolType'
        BY <1>2, <1>a, <1>c, <1>d, <1>e, <1>f DEF DoDownload
    <2> QED BY <1>2, <2>1, SameTypes DEF DoDownload, client, task, serial, network, ghosts
<1>3. CASE DoVerify(t)
    <2>1. PoolType'
        BY <1>3, <1>c, <1>d, <1>f DEF DoVerify
    <2>2. VerifiedType'
        BY <1>3, <1>b DEF DoVerify, VerifiedType
    <2> QED BY <1>3, <2>1, <2>2, SameTypes DEF DoVerify, client, task, serial, network
<1>4. CASE CheckStopFlag(t)
    <2>1. PICK c \in {"update", "leave"} :
              threads' = AfterReport(t) \/ threads' = [threads EXCEPT ![t].pc = c]
        BY <1>4 DEF CheckStopFlag
    <2>2. PoolType'
        <3>1. c \in ThreadPcs /\ "INIT" \in TaskStatuses /\ "INIT" \in DownloadStatuses
            BY <1>0, <1>c
        <3>2. [threads EXCEPT ![t].pc = c] \in ThreadPool /\ AfterReport(t) \in ThreadPool
            BY <3>1, AfterReportType, ThreadStepType
        <3> QED BY <2>1, <3>2 DEF PoolType
    <2> QED BY <1>4, <2>2, SameTypes DEF CheckStopFlag, client, task, serial, network, ghosts
<1>5. CASE RemoveThread(t)
    <2>1. PoolType'
        BY <1>5, <1>0, <1>c, ThreadStepType DEF RemoveThread, PoolType
    <2>2. ThreadMapType'
        BY <1>5 DEF RemoveThread, ThreadMapType
    <2> QED BY <1>5, <2>1, <2>2, SameTypes DEF RemoveThread, client, task, serial, network, ghosts
<1> QED BY <1>1, <1>2, <1>3, <1>4, <1>5

(* UpdateDownloadProgress keeps the types; retryTimes stays within the     *)
(* limit because the retry is refused at it.                               *)
LEMMA UpdateTypes ==
    ASSUME Types, NEW t \in ThreadIds, UpdateDownloadProgress(t)
    PROVE  Types'
<1> USE DEF Types
<1> DEFINE p == threads[t].pkg
           r == threads[t].report
<1>1. p \in Packages /\ r \in DownloadStatuses \cup {"RETRY"} /\ "FAIL" \in DownloadStatuses
    <2>1. threads[t] \in ThreadRec
        BY DEF PoolType, ThreadPool
    <2> QED BY <2>1 DEF ThreadRec, DownloadStatuses
<1>2. info[p] \in InfoRec
    BY <1>1 DEF InfoType
<1>3. CASE /\ threads' = AfterReport(t)
           /\ UNCHANGED <<threadMap, info, db, verified>>
    <2>1. PoolType'
        BY <1>3, AfterReportType DEF PoolType
    <2> QED BY <1>3, <2>1, SameTypes DEF UpdateDownloadProgress, client, task, serial, network
<1>4. CASE /\ IsRetryAble(p)
           /\ info' = [info EXCEPT ![p].retryTimes = @ + 1]
           /\ threads' = [threads EXCEPT ![t] = [FreeThread EXCEPT
                 !.pc = "submitted", !.pkg = p, !.status = info[p].status, !.attached = TRUE]]
           /\ threadMap' = [threadMap EXCEPT ![p] = t]
           /\ UNCHANGED <<db, verified>>
    <2>1. [info[p] EXCEPT !.retryTimes = @ + 1] \in InfoRec
        BY <1>2, <1>4, EngineAssumption DEF IsRetryAble, InfoRec
    <2>2. InfoType'
        BY <1>1, <1>4, <2>1 DEF InfoType
    <2>3. info[p].status \in DownloadStatuses
        BY <1>2 DEF InfoRec
    <2>4. [FreeThread EXCEPT !.pc = "submitted", !.pkg = p, !.status = info[p].status,
                             !.attached = TRUE] \in ThreadRec
        <3> HIDE DEF p
        <3> QED BY <1>1, <2>3, FreeThreadType DEF ThreadRec, ThreadPcs
    <2>5. PoolType' /\ ThreadMapType'
        BY <1>1, <1>4, <2>4 DEF PoolType, ThreadPool, ThreadMapType
    <2> QED BY <1>4, <2>2, <2>5, SameTypes
            DEF UpdateDownloadProgress, client, task, serial, network
<1>5. CASE /\ IF r = "DOWNLOADING" /\ isStopCallback
              THEN UNCHANGED <<info, db>>
              ELSE UpdateDownloadInfo(p, IF r = "RETRY" THEN "FAIL" ELSE r)
           /\ threads' = Unlinked([threads EXCEPT ![t].pc = "snap"],
                                  IF r = "FAIL" THEN {p} ELSE {})
           /\ verified' = IF r = "FAIL" THEN verified \ {p} ELSE verified
           /\ UNCHANGED threadMap
    <2>1. InfoType' /\ DbType'
        <3>1. CASE UNCHANGED <<info, db>>
            BY <3>1, SameTypes
        <3>2. CASE UpdateDownloadInfo(p, IF r = "RETRY" THEN "FAIL" ELSE r)
            <4> DEFINE s == IF r = "RETRY" THEN "FAIL" ELSE r
            <4>1. s \in DownloadStatuses
                BY <1>1
            <4>2. UpdateDownloadInfo(p, s)
                BY <3>2
            <4> HIDE DEF s, p, r
            <4>3. InfoType'
                BY <1>1, <4>1, <4>2, InfoTypes DEF UpdateDownloadInfo, InfoType
            <4>4. DbType'
                BY <1>1, <4>1, <4>2 DEF UpdateDownloadInfo, DbType
            <4> QED BY <4>3, <4>4
        <3> QED BY <1>5, <3>1, <3>2
    <2>2. PoolType'
        <3>1. [threads EXCEPT ![t].pc = "snap"] \in ThreadPool
            BY <1>1, TaskStatusIsStatus, ThreadStepType DEF ThreadPcs
        <3> QED BY <1>5, <3>1, UnlinkedType DEF PoolType
    <2>3. VerifiedType' /\ ThreadMapType'
        BY <1>5 DEF VerifiedType, ThreadMapType
    <2> QED BY <1>5, <2>1, <2>2, <2>3, SameTypes
            DEF UpdateDownloadProgress, client, task, serial, network
<1> QED BY <1>3, <1>4, <1>5 DEF UpdateDownloadProgress

(* The steps of a thread on the task keep the types.                       *)
LEMMA ThreadTaskTypes ==
    ASSUME Types, NEW t \in ThreadIds,
           \/ GetTaskProgress(t) \/ UpdateTaskProgress(t)
           \/ ThreadSyncCallback(t) \/ ThreadRemove(t)
    PROVE  Types'
<1> USE DEF Types
<1>0. /\ AfterReport(t) \in ThreadPool
      /\ threads[t] \in ThreadRec /\ threads[t].snap \in TaskStatuses
    <2>1. threads[t] \in ThreadRec
        BY DEF PoolType, ThreadPool
    <2> QED BY <2>1, AfterReportType DEF ThreadRec
<1>a. /\ "INIT" \in TaskStatuses /\ "INIT" \in DownloadStatuses
      /\ {"record", "sync", "remove"} \subseteq ThreadPcs
    BY TaskStatusIsStatus DEF ThreadPcs
<1>b. \A c \in {"record", "sync", "remove"} : [threads EXCEPT ![t].pc = c] \in ThreadPool
    BY <1>a, ThreadStepType
<1>1. CASE GetTaskProgress(t)
    <2>1. CurrentStatus \in TaskStatuses
        BY TaskStatusType DEF CurrentStatus
    <2>2. [threads EXCEPT ![t].pc = "record", ![t].snap = CurrentStatus] \in ThreadPool
        BY <1>a, <2>1, ThreadStepType
    <2>3. PoolType'
        BY <1>0, <1>1, <2>2 DEF GetTaskProgress, PoolType
    <2> QED BY <1>1, <2>3, SameTypes DEF GetTaskProgress, client, task, serial, network, ghosts
<1>2. CASE UpdateTaskProgress(t)
    <2>1. PoolType'
        BY <1>0, <1>2, <1>b DEF UpdateTaskProgress, PoolType
    <2>2. StatusType' /\ QueueType' /\ TimedType'
        <3>1. CASE UNCHANGED <<status, queue, timed>>
            BY <3>1, SameTypes
        <3>2. CASE status' = threads[t].snap /\ timed' = FALSE /\ UNCHANGED queue
            BY <1>0, <3>2, SameTypes DEF StatusType, TimedType
        <3>3. CASE RecordAndSubmit(threads[t].snap)
            BY <1>0, <3>3, RecordType
        <3> QED BY <1>2, <3>1, <3>2, <3>3 DEF UpdateTaskProgress
    <2> QED BY <1>2, <2>1, <2>2, SameTypes DEF UpdateTaskProgress, client, task, network, ghosts
<1>3. CASE ThreadSyncCallback(t)
    <2>1. PoolType'
        BY <1>0, <1>3, <1>b DEF ThreadSyncCallback, PoolType
    <2>2. MapTaskType' /\ HandedType' /\ LostType' /\ FwType' /\ AliveType'
        <3>1. CASE DealCallBack(threads[t].snap)
            BY <1>0, <3>1, DealType
        <3>2. CASE UNCHANGED <<inMap, handed, lost, fw, alive>>
            BY <3>2, SameTypes
        <3> QED BY <1>3, <3>1, <3>2 DEF ThreadSyncCallback
    <2> QED BY <1>3, <2>1, <2>2, SameTypes DEF ThreadSyncCallback, serial, network
<1>4. CASE ThreadRemove(t)
    <2>1. /\ MapTaskType' /\ HasCbType' /\ PkgsType' /\ DbType' /\ VerifiedType'
          /\ PoolType' /\ FwType' /\ IdType'
        BY <1>0, <1>4, FinishRemoveType DEF ThreadRemove, FwType
    <2> QED BY <1>4, <2>1, SameTypes DEF ThreadRemove, serial, network
<1> QED BY <1>1, <1>2, <1>3, <1>4

(* The serial queue keeps the types.                                       *)
LEMMA WorkerNextTypes == ASSUME Types, WorkerNext PROVE Types'
<1> USE DEF Types
<1>0. CurrentStatus \in TaskStatuses /\ worker.status \in TaskStatuses
    BY TaskStatusType DEF CurrentStatus, WorkerType, WorkerRec
<1>1. CASE TakeCallback
    <2>1. queue # <<>> /\ queue' = Tail(queue)
        BY <1>1 DEF TakeCallback
    <2>2. /\ Head(queue) \in TaskStatuses /\ Tail(queue) \in Seq(TaskStatuses)
          /\ Len(Tail(queue)) = Len(queue) - 1 /\ Len(queue) \in Nat
        BY <2>1 DEF QueueType
    <2>3. QueueType'
        BY <2>1, <2>2, EngineAssumption DEF QueueType
    <2>4. WorkerType'
        BY <1>1, <2>2, WorkerTypes DEF TakeCallback, WorkerType
    <2> QED BY <1>1, <2>3, <2>4, SameTypes DEF TakeCallback, client, task, pool, network, ghosts
<1>2. CASE TimedTask
    <2>1. WorkerType'
        BY <1>0, <1>2, WorkerTypes DEF TimedTask, WorkerType
    <2>2. TimedType'
        BY <1>2, Zenon DEF TimedTask, TimedType
    <2> QED BY <1>2, <2>1, <2>2, SameTypes DEF TimedTask, client, task, pool, network, ghosts
<1>3. CASE CallbackProgress
    <2>1. WorkerType'
        BY <1>3, WorkerTypes DEF CallbackProgress, WorkerType
    <2> QED BY <1>3, <2>1, SameTypes DEF CallbackProgress, client, task, pool, network, ghosts
<1>4. CASE WorkerDealCallBack
    <2>1. WorkerType'
        BY <1>4, WorkerTypes DEF WorkerDealCallBack, WorkerType
    <2>2. MapTaskType' /\ HandedType' /\ LostType' /\ FwType' /\ AliveType'
        BY <1>0, <1>4, DealType DEF WorkerDealCallBack
    <2> QED BY <1>4, <2>1, <2>2, SameTypes DEF WorkerDealCallBack, pool, network
<1>5. CASE WorkerRemove
    <2>1. WorkerType'
        BY <1>5, WorkerTypes DEF WorkerRemove, WorkerType
    <2>2. /\ MapTaskType' /\ HasCbType' /\ PkgsType' /\ DbType' /\ VerifiedType'
          /\ PoolType' /\ FwType' /\ IdType'
        BY <1>5, FinishRemoveType DEF WorkerRemove, FwType, PoolType
    <2> QED BY <1>5, <2>1, <2>2, SameTypes DEF WorkerRemove, network
<1> QED BY <1>1, <1>2, <1>3, <1>4, <1>5 DEF WorkerNext

(* A restart rebuilds well-typed state from the rows.                      *)
LEMMA RestartTypes == ASSUME Types, Restart PROVE Types'
<1> USE DEF Types
<1> DEFINE rows == {p \in Packages : db[p] # "none"}
           complete == IsFinal(TaskStatus([p \in rows |-> db[p]]))
           restored == [p \in Packages |->
                          IF p \notin rows THEN "INIT"
                          ELSE IF complete THEN db[p] ELSE RecoveredStatus(db[p])]
<1>0. "INIT" \in TaskStatuses /\ "INIT" \in DownloadStatuses /\ "AUTO_PAUSE" \in DownloadStatuses
    BY TaskStatusIsStatus
<1>1. restored \in [Packages -> DownloadStatuses]
    <2> SUFFICES ASSUME NEW p \in Packages PROVE restored[p] \in DownloadStatuses
        OBVIOUS
    <2>1. p \in rows => db[p] \in DownloadStatuses
        BY DEF DbType
    <2>2. RecoveredStatus(db[p]) \in {db[p], "AUTO_PAUSE"}
        BY DEF RecoveredStatus
    <2> QED BY <1>0, <2>1, <2>2
<1>2. /\ pkgs' = rows
      /\ info' = [p \in Packages |-> [status |-> restored[p], retryTimes |-> 0]]
      /\ db' = [p \in Packages |-> IF p \in rows THEN restored[p] ELSE "none"]
      /\ status' = TaskStatus([p \in rows |-> restored[p]])
      /\ queue' = <<>> \/ queue' = <<status'>>
    BY DEF Restart
<1>a. inMap' \in BOOLEAN
    BY Zenon DEF Restart
<1>b. timed' \in BOOLEAN
    BY Zenon DEF Restart
<1> HIDE DEF restored, complete
<1>3. PkgsType'
    BY <1>2 DEF PkgsType
<1>4. InfoType'
    <2>1. \A p \in Packages : [status |-> restored[p], retryTimes |-> 0] \in InfoRec
        BY <1>1, EngineAssumption DEF InfoRec
    <2> QED BY <1>2, <2>1 DEF InfoType
<1>5. DbType'
    BY <1>1, <1>2 DEF DbType
<1>6. StatusType'
    BY <1>2, TaskStatusType DEF StatusType
<1>7. QueueType'
    <2>1. <<status'>> \in Seq(TaskStatuses) /\ Len(<<status'>>) = 1
        BY <1>6 DEF StatusType
    <2>2. <<>> \in Seq(TaskStatuses) /\ Len(<<>>) = 0
        OBVIOUS
    <2>3. 1 <= MaxQueue /\ 0 <= MaxQueue
        BY EngineAssumption
    <2>4. queue' \in Seq(TaskStatuses) /\ Len(queue') <= MaxQueue
        <3>1. CASE queue' = <<>>
            BY <2>2, <2>3, <3>1
        <3>2. CASE queue' = <<status'>>
            BY <2>1, <2>3, <3>2
        <3> QED BY <1>2, <3>1, <3>2
    <2> QED BY <2>4 DEF QueueType
<1>8. PoolType'
    BY FreeThreadType DEF Restart, PoolType, ThreadPool
<1>9. FwType'
    BY DEF Restart, FwType, FwStatuses
<1>10. /\ AliveType' /\ WantType' /\ TidyType' /\ OpType' /\ HasCbType' /\ StopFlagType'
       /\ ThreadMapType' /\ WorkerType' /\ HandedType' /\ LostType'
    BY <1>0, OpTypes, WorkerTypes
       DEF Restart, AliveType, WantType, TidyType, OpType, HasCbType, StopFlagType,
           ThreadMapType, WorkerType, HandedType, LostType
<1>11. NetType'
    BY DEF Restart, NetType
<1>12. IdType' /\ VerifiedType' /\ RequestType' /\ DoubledType' /\ OverlapType'
    BY SameTypes DEF Restart
<1> QED BY <1>a, <1>b, <1>3, <1>4, <1>5, <1>6, <1>7, <1>8, <1>9, <1>10, <1>11, <1>12
        DEF MapTaskType, TimedType

(* Every step keeps the types.                                             *)
LEMMA NextTypes == Types /\ [Next]_vars => Types'
<1> SUFFICES ASSUME Types, [Next]_vars PROVE Types'
    OBVIOUS
<1>1. CASE FirmwareNext
    BY <1>1, FirmwareTypes
<1>2. CASE ManagerNext
    BY <1>2, StartTypes, ResumeTypes, CancelTypes, NetTypes DEF ManagerNext
<1>3. ASSUME NEW t \in ThreadIds, ThreadNext(t) PROVE Types'
    BY <1>3, ThreadRunTypes, UpdateTypes, ThreadTaskTypes DEF ThreadNext
<1>4. CASE WorkerNext
    BY <1>4, WorkerNextTypes
<1>5. CASE NetChanges
    BY <1>5, NetTypes
<1>6. CASE Restart
    BY <1>6, RestartTypes
<1>7. CASE UNCHANGED vars
    BY <1>7, SameTypes DEF vars, Types
<1> QED BY <1>1, <1>2, <1>3, <1>4, <1>5, <1>6, <1>7 DEF Next

(* The refined types are an invariant.                                     *)
LEMMA TypesHold == Spec => []Types
BY InitTypes, NextTypes, PTL DEF Spec

(* Every variable of the engine keeps its type, for any set of packages    *)
(* and any bounds: retryTimes never passes the limit of IsRetryAble, no    *)
(* callback is queued beyond the bound, and no status that only a package  *)
(* can have (VERIFYING) reaches the recorded status, the queue or the      *)
(* callback, where UpgradeStatus could not translate it.                   *)
THEOREM EngineTypes == Spec => []TypeOK
<1>1. Types => TypeOK
    BY TypesImplyTypeOK
<1> QED BY <1>1, TypesHold, PTL

-----------------------------------------------------------------------------
(* The kind of operation under the map mutex                               *)

(* A step leaves the kind of the operation, begins one with the mutex free *)
(* or ends it.                                                             *)
LEMMA OpKinds ==
    ASSUME OpType
    PROVE  /\ NoOp.kind = "none"
           /\ \A T, k : /\ [NoOp EXCEPT !.kind = k, !.todo = T].kind = k
                        /\ [NoOp EXCEPT !.kind = k, !.todo = T].todo = T
                        /\ [NoOp EXCEPT !.kind = k].kind = k
           /\ \A T, c : /\ [op EXCEPT !.todo = T].kind = op.kind
                        /\ [op EXCEPT !.todo = T].todo = T
                        /\ [op EXCEPT !.pc = c].kind = op.kind
                        /\ [op EXCEPT !.pc = c].todo = op.todo
                        /\ [op EXCEPT !.todo = T, !.pc = c].kind = op.kind
BY DEF NoOp, OpType, OpRec

(* The kinds of the operation after the steps of the loops, and after the  *)
(* steps that begin a Resume.                                              *)
LEMMA LoopKinds ==
    ASSUME Types, NEW p \in Packages
    PROVE  /\ StartPackage(p) \/ ResumePackage(p) \/ CancelPackage(p) \/ NetPausePackage(p)
              \/ CancelRecord \/ CancelCallback
                 => op'.kind = op.kind
           /\ ResumeTask => op'.kind = "resume"
<1>0. OpType
    BY DEF Types
<1>1. ASSUME StartPackage(p) \/ ResumePackage(p) \/ CancelPackage(p) PROVE op'.kind = op.kind
    <2>1. \/ \E T : op' = [op EXCEPT !.todo = T]
          \/ \E T, c : op' = [op EXCEPT !.todo = T, !.pc = c]
        BY <1>1 DEF StartPackage, ResumePackage, CancelPackage
    <2>2. CASE \E T : op' = [op EXCEPT !.todo = T]
        BY <1>0, <2>2, OpKinds
    <2>3. CASE \E T, c : op' = [op EXCEPT !.todo = T, !.pc = c]
        BY <1>0, <2>3, OpKinds
    <2> QED BY <2>1, <2>2, <2>3
<1>2. ASSUME NetPausePackage(p) PROVE op'.kind = op.kind
    <2>1. \E T : op' = [op EXCEPT !.todo = T]
        BY <1>2 DEF NetPausePackage
    <2> QED BY <1>0, <2>1, OpKinds
<1>3. ASSUME CancelRecord \/ CancelCallback PROVE op'.kind = op.kind
    <2>1. \E c : op' = [op EXCEPT !.pc = c]
        BY <1>3 DEF CancelRecord, CancelCallback
    <2> QED BY <1>0, <2>1, OpKinds
<1>4. ASSUME ResumeTask PROVE op'.kind = "resume"
    <2>1. \/ \E T : op' = [NoOp EXCEPT !.kind = "resume", !.todo = T]
          \/ op' = [NoOp EXCEPT !.kind = "resume"]
        BY <1>4 DEF ResumeTask
    <2>2. CASE \E T : op' = [NoOp EXCEPT !.kind = "resume", !.todo = T]
        BY <2>2 DEF NoOp
    <2>3. CASE op' = [NoOp EXCEPT !.kind = "resume"]
        BY <2>3 DEF NoOp
    <2> QED BY <2>1, <2>2, <2>3
<1> QED BY <1>1, <1>2, <1>3, <1>4

-----------------------------------------------------------------------------
(* Nothing follows a final callback                                        *)

(* What the task manager's map says of what was handed out: a task whose   *)
(* final status was handed to the business callback is not in the map, and *)
(* a task that is being started is neither in the map nor has it reported. *)
FinalIsOut ==
    /\ IsFinal(handed) => ~inMap
    /\ op.kind = "start" => ~inMap /\ handed = "INIT"

(* What FinalIsFinal forbids, of one step.                                 *)
StaysFinal == IsFinal(handed) => handed' \in {handed, "INIT"}

(* The callback of a task hands out one more status only while the task is *)
(* in the map, and takes it out with a final one.                          *)
LEMMA DealIsOut ==
    ASSUME Types, FinalIsOut, NEW s \in TaskStatuses, DealCallBack(s), op'.kind = op.kind
    PROVE  FinalIsOut' /\ StaysFinal
<1>1. CASE inMap
    <2>1. op.kind # "start" /\ ~IsFinal(handed)
        BY <1>1 DEF FinalIsOut
    <2>2. handed' = s /\ (IsFinal(s) => ~inMap')
        BY <1>1 DEF DealCallBack
    <2> QED BY <2>1, <2>2 DEF FinalIsOut, StaysFinal
<1>2. CASE ~inMap
    <2>1. handed' = handed /\ ~inMap'
        BY <1>2 DEF DealCallBack
    <2> QED BY <1>2, <2>1 DEF FinalIsOut, StaysFinal
<1> QED BY <1>1, <1>2

(* A step that neither hands out a status nor puts the task into the map.  *)
LEMMA QuietIsOut ==
    ASSUME FinalIsOut, handed' = handed, inMap' => inMap,
           op'.kind = "start" => op.kind = "start"
    PROVE  FinalIsOut' /\ StaysFinal
BY DEF FinalIsOut, StaysFinal

(* RemoveTask puts no task into the map.                                   *)
LEMMA RemoveIsOut == ASSUME RemoveTask PROVE inMap' => inMap
BY DEF RemoveTask

(* Every step keeps FinalIsOut and hands out nothing after a final status. *)
LEMMA NextIsOut ==
    ASSUME Types, FinalIsOut, [Next]_vars
    PROVE  FinalIsOut' /\ StaysFinal
<1>0. OpType /\ worker.status \in TaskStatuses /\ "CANCEL" \in TaskStatuses
    BY WorkerTypes, TaskStatusIsStatus DEF Types, WorkerType
<1>1. CASE FirmwareNext
    <2>1. CASE NewVersionFound \/ PerformDownload \/ PerformResumeDownload \/ DoCancel
        BY <2>1, QuietIsOut
           DEF NewVersionFound, PerformDownload, PerformResumeDownload, DoCancel, task, ghosts
    <2>2. CASE ReportFinishedDownload \/ ResumeRunningFails
        BY <2>2, QuietIsOut, RemoveIsOut
           DEF ReportFinishedDownload, ResumeRunningFails, FinishRemove
    <2>3. CASE DoCancelCleanUp
        BY <2>3, QuietIsOut, RemoveIsOut DEF DoCancelCleanUp, ghosts
    <2> QED BY <1>1, <2>1, <2>2, <2>3 DEF FirmwareNext
<1>2. CASE ManagerNext
    <2>1. CASE StartTask
        BY <2>1 DEF StartTask, FinalIsOut, StaysFinal, IsFinal
    <2>2. ASSUME NEW p \in Packages, StartPackage(p) PROVE FinalIsOut' /\ StaysFinal
        BY <1>0, <2>2, OpKinds, QuietIsOut DEF StartPackage, task, ghosts
    <2>3. CASE EnsureInsert
        <3>1. handed = "INIT" /\ handed' = handed /\ op'.kind = "none"
            BY <1>0, <2>3, OpKinds DEF EnsureInsert, FinalIsOut, ghosts
        <3> QED BY <3>1 DEF FinalIsOut, StaysFinal, IsFinal
    <2>4. CASE ResumeTask
        <3>1. handed' = "INIT"
            BY <2>4 DEF ResumeTask
        <3>2. op'.kind = "resume"
            BY <2>4, LoopKinds, EngineAssumption
        <3> QED BY <3>1, <3>2 DEF FinalIsOut, StaysFinal, IsFinal
    <2>5. CASE ResumeMissingTask
        BY <2>5, QuietIsOut, RemoveIsOut DEF ResumeMissingTask, FinishRemove
    <2>6. ASSUME NEW p \in Packages, ResumePackage(p) PROVE FinalIsOut' /\ StaysFinal
        BY <1>0, <2>6, OpKinds, QuietIsOut DEF ResumePackage, task
    <2>7. CASE ResumeFinish
        BY <1>0, <2>7, OpKinds, QuietIsOut DEF ResumeFinish, task, ghosts
    <2>8. CASE CancelTask
        BY <1>0, <2>8, OpKinds, QuietIsOut DEF CancelTask
    <2>9. ASSUME NEW p \in Packages, CancelPackage(p) PROVE FinalIsOut' /\ StaysFinal
        <3>1. op.kind = "cancel" /\ op'.kind = op.kind
            BY <1>0, <2>9, OpKinds DEF CancelPackage
        <3> QED BY <2>9, <3>1, QuietIsOut DEF CancelPackage, task, ghosts
    <2>10. CASE CancelRecord
        <3>1. op'.kind = op.kind
            BY <2>10, LoopKinds, EngineAssumption
        <3> QED BY <2>10, <3>1, QuietIsOut DEF CancelRecord, task, ghosts
    <2>11. CASE CancelCallback
        <3>1. op'.kind = op.kind
            BY <2>11, LoopKinds, EngineAssumption
        <3>2. CASE DealCallBack("CANCEL")
            BY <1>0, <3>1, <3>2, DealIsOut
        <3>3. CASE UNCHANGED <<inMap, handed>>
            BY <3>1, <3>3, QuietIsOut
        <3> QED BY <2>11, <3>2, <3>3 DEF CancelCallback
    <2>12. CASE CancelFinish
        BY <1>0, <2>12, OpKinds, QuietIsOut DEF CancelFinish, ghosts
    <2>13. CASE OnNetAvailable \/ OnNetIgnored
        BY <2>13, QuietIsOut DEF OnNetAvailable, OnNetIgnored, task, ghosts
    <2>14. CASE OnNetLost
        BY <1>0, <2>14, OpKinds, QuietIsOut DEF OnNetLost, task, ghosts
    <2>15. ASSUME NEW p \in Packages, NetPausePackage(p) PROVE FinalIsOut' /\ StaysFinal
        <3>1. op'.kind = op.kind
            BY <2>15, LoopKinds
        <3> QED BY <2>15, <3>1, QuietIsOut DEF NetPausePackage, task, ghosts
    <2>16. CASE NetLostFinish
        BY <1>0, <2>16, OpKinds, QuietIsOut DEF NetLostFinish, task, ghosts
    <2> QED BY <1>2, <2>1, <2>2, <2>3, <2>4, <2>5, <2>6, <2>7, <2>8, <2>9, <2>10, <2>11, <2>12,
               <2>13, <2>14, <2>15, <2>16 DEF ManagerNext
<1>3. ASSUME NEW t \in ThreadIds, ThreadNext(t) PROVE FinalIsOut' /\ StaysFinal
    <2>1. CASE DownloadVersion(t) \/ DoDownload(t) \/ DoVerify(t) \/ CheckStopFlag(t)
        BY <2>1, QuietIsOut
           DEF DownloadVersion, DoDownload, DoVerify, CheckStopFlag, task, ghosts
    <2>2. CASE RemoveThread(t) \/ UpdateDownloadProgress(t) \/ GetTaskProgress(t)
               \/ UpdateTaskProgress(t)
        BY <2>2, QuietIsOut
           DEF RemoveThread, UpdateDownloadProgress, GetTaskProgress, UpdateTaskProgress, task,
               ghosts
    <2>3. CASE ThreadSyncCallback(t)
        <3>1. threads[t].snap \in TaskStatuses
            BY DEF Types, PoolType, ThreadPool, ThreadRec
        <3>2. op' = op
            BY <2>3 DEF ThreadSyncCallback
        <3>3. CASE DealCallBack(threads[t].snap)
            BY <3>1, <3>2, <3>3, DealIsOut
        <3>4. CASE UNCHANGED <<inMap, handed>>
            BY <3>2, <3>4, QuietIsOut
        <3> QED BY <2>3, <3>3, <3>4 DEF ThreadSyncCallback
    <2>4. CASE ThreadRemove(t)
        BY <2>4, QuietIsOut, RemoveIsOut DEF ThreadRemove, FinishRemove
    <2> QED BY <1>3, <2>1, <2>2, <2>3, <2>4 DEF ThreadNext
<1>4. CASE WorkerNext
    <2>1. CASE TakeCallback \/ TimedTask \/ CallbackProgress
        BY <2>1, QuietIsOut DEF TakeCallback, TimedTask, CallbackProgress, task, ghosts
    <2>2. CASE WorkerDealCallBack
        BY <1>0, <2>2, DealIsOut DEF WorkerDealCallBack
    <2>3. CASE WorkerRemove
        BY <2>3, QuietIsOut, RemoveIsOut DEF WorkerRemove, FinishRemove
    <2> QED BY <1>4, <2>1, <2>2, <2>3 DEF WorkerNext
<1>5. CASE NetChanges
    BY <1>5, QuietIsOut DEF NetChanges, task, ghosts
<1>6. CASE Restart
    <2>1. handed' = "INIT" /\ op'.kind = "none"
        BY <1>0, <1>6, OpKinds DEF Restart
    <2> QED BY <2>1 DEF FinalIsOut, StaysFinal, IsFinal
<1>7. CASE UNCHANGED vars
    BY <1>7, QuietIsOut DEF vars
<1> QED BY <1>1, <1>2, <1>3, <1>4, <1>5, <1>6, <1>7 DEF Next

(* After SUCCESS, FAIL or CANCEL was handed to the business callback,      *)
(* nothing else is until the task is started, resumed or restored: a       *)
(* thread that took its snapshot before the end may queue it after the     *)
(* end, and DealCallBack no longer finds the task.  This holds for any     *)
(* number of packages, threads and queued callbacks.                       *)
THEOREM NothingAfterTheEnd == Spec => FinalIsFinal
<1>1. Init => FinalIsOut
    BY DEF Init, FinalIsOut, NoOp, IsFinal
<1>2. Types /\ FinalIsOut /\ [Next]_vars => FinalIsOut' /\ [StaysFinal]_vars
    BY NextIsOut
<1>3. Spec => [][StaysFinal]_vars
    BY <1>1, <1>2, TypesHold, PTL DEF Spec
<1> QED BY <1>3, PTL DEF FinalIsFinal, StaysFinal

-----------------------------------------------------------------------------
(* A cancellation leaves no row                                            *)

(* Start and Resume take the stop flag back before they do anything else,  *)
(* and while it stands, outside Cancel itself, there is no row.            *)
StoppedHasNoRow ==
    /\ op.kind \in {"start", "resume"} => ~isStopCallback
    /\ isStopCallback /\ op.kind # "cancel" => \A p \in Packages : db[p] = "none"

(* Steps that neither set the stop flag nor bring a row into being.        *)
LEMMA QuietHasNoRow ==
    ASSUME StoppedHasNoRow, isStopCallback' => isStopCallback,
           op'.kind \in {op.kind, "none", "net"}, op.kind = "cancel" => op'.kind = "cancel",
           isStopCallback => \A p \in Packages : db[p] = "none" => db'[p] = "none"
    PROVE  StoppedHasNoRow'
BY DEF StoppedHasNoRow

(* RemoveTask leaves no row.                                               *)
LEMMA RemoveHasNoRow ==
    ASSUME StoppedHasNoRow, RemoveTask, UNCHANGED <<op, isStopCallback>>
    PROVE  StoppedHasNoRow'
BY DEF StoppedHasNoRow, RemoveTask

(* Every step keeps StoppedHasNoRow: a late report of a thread updates the *)
(* row only if there is one, and no operation but Start inserts one.       *)
LEMMA NextHasNoRow ==
    ASSUME Types, StoppedHasNoRow, [Next]_vars
    PROVE  StoppedHasNoRow'
<1>0. OpType /\ DbType
    BY DEF Types
<1>1. CASE FirmwareNext
    <2>1. CASE NewVersionFound \/ PerformDownload \/ PerformResumeDownload \/ DoCancel
        BY <2>1, QuietHasNoRow
           DEF NewVersionFound, PerformDownload, PerformResumeDownload, DoCancel, task
    <2>2. CASE ReportFinishedDownload \/ ResumeRunningFails \/ DoCancelCleanUp
        BY <2>2, RemoveHasNoRow
           DEF ReportFinishedDownload, ResumeRunningFails, DoCancelCleanUp, FinishRemove
    <2> QED BY <1>1, <2>1, <2>2 DEF FirmwareNext
<1>2. CASE ManagerNext
    <2>1. CASE StartTask
        BY <2>1 DEF StartTask, StoppedHasNoRow
    <2>2. ASSUME NEW p \in Packages, StartPackage(p) PROVE StoppedHasNoRow'
        <3>1. op.kind = "start" /\ op'.kind = op.kind /\ ~isStopCallback'
            BY <2>2, LoopKinds DEF StartPackage, StoppedHasNoRow, task
        <3> QED BY <3>1 DEF StoppedHasNoRow
    <2>3. CASE EnsureInsert
        <3>1. ~isStopCallback'
            BY <2>3 DEF EnsureInsert, StoppedHasNoRow
        <3> QED BY <3>1 DEF StoppedHasNoRow
    <2>4. CASE ResumeTask
        BY <2>4 DEF ResumeTask, StoppedHasNoRow
    <2>5. CASE ResumeMissingTask
        BY <2>5, RemoveHasNoRow DEF ResumeMissingTask, FinishRemove
    <2>6. ASSUME NEW p \in Packages, ResumePackage(p) PROVE StoppedHasNoRow'
        <3>1. op'.kind = op.kind
            BY <2>6, LoopKinds
        <3> QED BY <2>6, <3>1, QuietHasNoRow DEF ResumePackage, task
    <2>7. CASE ResumeFinish
        BY <1>0, <2>7, OpKinds, QuietHasNoRow DEF ResumeFinish, task
    <2>8. CASE CancelTask
        <3>1. op'.kind = "cancel"
            BY <1>0, <2>8, OpKinds DEF CancelTask
        <3> QED BY <3>1 DEF StoppedHasNoRow
    <2>9. ASSUME NEW p \in Packages, CancelPackage(p) PROVE StoppedHasNoRow'
        <3>1. op'.kind = op.kind
            BY <2>9, LoopKinds
        <3> QED BY <2>9, <3>1, QuietHasNoRow DEF CancelPackage, task
    <2>10. CASE CancelRecord \/ CancelCallback
        <3>1. op'.kind = op.kind /\ op.kind = "cancel"
            BY <2>10, LoopKinds, EngineAssumption DEF CancelRecord, CancelCallback
        <3> QED BY <3>1 DEF StoppedHasNoRow
    <2>11. CASE CancelFinish
        BY <1>0, <2>11, OpKinds DEF CancelFinish, StoppedHasNoRow
    <2>12. CASE OnNetAvailable \/ OnNetIgnored
        BY <2>12, QuietHasNoRow DEF OnNetAvailable, OnNetIgnored, task
    <2>13. CASE OnNetLost
        <3>1. op'.kind = "net" /\ op.kind = "none"
            BY <1>0, <2>13, OpKinds DEF OnNetLost, MapMutexFree
        <3> QED BY <2>13, <3>1, QuietHasNoRow DEF OnNetLost, task
    <2>14. ASSUME NEW p \in Packages, NetPausePackage(p) PROVE StoppedHasNoRow'
        <3>1. op'.kind = op.kind
            BY <2>14, LoopKinds
        <3>2. isStopCallback => db' = db
            BY <2>14 DEF NetPausePackage
        <3>3. isStopCallback' = isStopCallback
            BY <2>14 DEF NetPausePackage, task
        <3> QED BY <3>1, <3>2, <3>3, QuietHasNoRow
    <2>15. CASE NetLostFinish
        BY <1>0, <2>15, OpKinds, QuietHasNoRow DEF NetLostFinish, task
    <2> QED BY <1>2, <2>1, <2>2, <2>3, <2>4, <2>5, <2>6, <2>7, <2>8, <2>9, <2>10, <2>11, <2>12,
               <2>13, <2>14, <2>15 DEF ManagerNext
<1>3. ASSUME NEW t \in ThreadIds, ThreadNext(t) PROVE StoppedHasNoRow'
    <2>1. CASE DownloadVersion(t) \/ DoDownload(t) \/ DoVerify(t) \/ CheckStopFlag(t)
        BY <2>1, QuietHasNoRow DEF DownloadVersion, DoDownload, DoVerify, CheckStopFlag, task
    <2>2. CASE RemoveThread(t) \/ GetTaskProgress(t) \/ UpdateTaskProgress(t)
               \/ ThreadSyncCallback(t)
        BY <2>2, QuietHasNoRow
           DEF RemoveThread, GetTaskProgress, UpdateTaskProgress, ThreadSyncCallback, task
    <2>3. CASE UpdateDownloadProgress(t)
        <3>1. \A p \in Packages : db[p] = "none" => db'[p] = "none"
            BY <1>0, <2>3 DEF UpdateDownloadProgress, UpdateDownloadInfo, DbType
        <3> QED BY <2>3, <3>1, QuietHasNoRow DEF UpdateDownloadProgress, task
    <2>4. CASE ThreadRemove(t)
        BY <2>4, RemoveHasNoRow DEF ThreadRemove, FinishRemove
    <2> QED BY <1>3, <2>1, <2>2, <2>3, <2>4 DEF ThreadNext
<1>4. CASE WorkerNext
    <2>1. CASE TakeCallback \/ TimedTask \/ CallbackProgress \/ WorkerDealCallBack
        BY <2>1, QuietHasNoRow
           DEF TakeCallback, TimedTask, CallbackProgress, WorkerDealCallBack, task
    <2>2. CASE WorkerRemove
        BY <2>2, RemoveHasNoRow DEF WorkerRemove, FinishRemove
    <2> QED BY <1>4, <2>1, <2>2 DEF WorkerNext
<1>5. CASE NetChanges
    BY <1>5, QuietHasNoRow DEF NetChanges, task
<1>6. CASE Restart
    BY <1>6 DEF Restart, StoppedHasNoRow
<1>7. CASE UNCHANGED vars
    BY <1>7, QuietHasNoRow DEF vars
<1> QED BY <1>1, <1>2, <1>3, <1>4, <1>5, <1>6, <1>7 DEF Next

(* Once a cancellation returned, no row of the task is in the database and *)
(* none comes back before the next Start or Resume, however many threads   *)
(* Stop did not wait for and wherever they are in their reports.           *)
THEOREM CancelledStaysCancelled == Spec => []CancelLeavesNoRow
<1>1. Init => StoppedHasNoRow
    BY DEF Init, StoppedHasNoRow
<1>2. Types /\ StoppedHasNoRow /\ [Next]_vars => StoppedHasNoRow'
    BY NextHasNoRow
<1>3. StoppedHasNoRow => CancelLeavesNoRow
    BY DEF StoppedHasNoRow, CancelLeavesNoRow, MapMutexFree
<1> QED BY <1>1, <1>2, <1>3, TypesHold, PTL DEF Spec

-----------------------------------------------------------------------------
(* A row that says SUCCESS names a verified package                        *)

(* The thread is about to record that its package passed sha256.           *)
Succeeding(t) ==
    /\ threads[t].attached /\ threads[t].report = "SUCCESS"
    /\ threads[t].pc \in {"check", "leave", "update"}

(* A success on its way to a row that exists is the success of a file on   *)
(* disk: nobody deleted it after this thread verified it.                  *)
ReportsAreVerified ==
    op.kind # "cancel" => \A t \in ThreadIds :
        Succeeding(t) /\ db[threads[t].pkg] # "none" => threads[t].pkg \in verified \cup doubled

(* One thread works on a package, unless Resume started another.           *)
OneWorksOnIt ==
    \A t, u \in ThreadIds :
        Busy(t) /\ Busy(u) /\ threads[t].pkg = threads[u].pkg => t = u \/ threads[t].pkg \in doubled

(* A package somebody works on has not succeeded, so that a retry, which   *)
(* starts from the DownloadInfo, never reports an old SUCCESS again.       *)
BusyIsUnfinished ==
    \A t \in ThreadIds :
        Busy(t) => info[threads[t].pkg].status # "SUCCESS" \/ threads[t].pkg \in doubled
SubmittedIsUnfinished ==
    \A t \in ThreadIds : threads[t].pc = "submitted" =>
        threads[t].status # "SUCCESS" \/ threads[t].pkg \in doubled

(* While Start inserts rows, no thread of the new object works on a        *)
(* package whose turn has not come, and none has succeeded.                *)
StartIsFresh ==
    op.kind = "start" =>
        /\ \A t \in ThreadIds : threads[t].attached => threads[t].pkg \notin op.todo
        /\ op.todo # {} => \A p \in Packages : info[p].status # "SUCCESS"

VerifiedInv ==
    /\ PersistedSuccessIsVerified /\ ReportsAreVerified /\ OneWorksOnIt
    /\ BusyIsUnfinished /\ SubmittedIsUnfinished /\ StartIsFresh

(* What most steps do to the threads: none is attached anew, none takes up *)
(* work, a success is that of a package on disk, and what is submitted has *)
(* not succeeded.                                                          *)
TameThread(u) ==
    /\ threads'[u].attached => threads[u].attached /\ threads'[u].pkg = threads[u].pkg
    /\ Succeeding(u)' => Succeeding(u) \/ threads'[u].pkg \in verified' \cup doubled
    /\ Busy(u)' => Busy(u)
    /\ threads'[u].pc = "submitted" =>
          \/ /\ threads[u].pc = "submitted"
             /\ threads'[u].status = threads[u].status /\ threads'[u].pkg = threads[u].pkg
          \/ threads'[u].status # "SUCCESS" \/ threads'[u].pkg \in doubled
Tame == \A u \in ThreadIds : TameThread(u)

(* What most steps do to the rows ...                                      *)
RowsTame ==
    \/ op'.kind = "cancel"
    \/ \A p \in Packages : db'[p] = "none"
    \/ /\ op.kind # "cancel"
       /\ verified \subseteq verified'
       /\ \A p \in Packages : /\ db'[p] = "SUCCESS" => db[p] = "SUCCESS"
                              /\ db'[p] # "none" => db[p] # "none"

(* ... to the DownloadInfos and to a Start under way.                      *)
NobodyWorks == \A u \in ThreadIds : ~threads'[u].attached
InfoTame == \A p \in Packages : info'[p].status = "SUCCESS" => info[p].status = "SUCCESS"
StartTame ==
    op'.kind = "start" =>
       \/ op.kind = "start" /\ op'.todo \subseteq op.todo /\ InfoTame
       \/ NobodyWorks /\ \A p \in Packages : info'[p].status # "SUCCESS"

(* A step that is tame in all of this keeps the invariant.                 *)
LEMMA TameKeeps ==
    ASSUME Types, Types', VerifiedInv, Tame, RowsTame, NobodyWorks \/ InfoTame, StartTame,
           doubled' = doubled
    PROVE  VerifiedInv'
<1>0. \A u \in ThreadIds : threads'[u].pkg \in Packages /\ threads[u].pkg \in Packages
    BY DEF Types, PoolType, ThreadPool, ThreadRec
<1>1. PersistedSuccessIsVerified'
    BY DEF VerifiedInv, PersistedSuccessIsVerified, RowsTame
<1>2. ReportsAreVerified'
    <2> SUFFICES ASSUME op'.kind # "cancel", NEW t \in ThreadIds, Succeeding(t)',
                        db'[threads'[t].pkg] # "none"
                 PROVE  threads'[t].pkg \in verified' \cup doubled
        BY DEF ReportsAreVerified
    <2>1. op.kind # "cancel" /\ verified \subseteq verified' /\ db[threads'[t].pkg] # "none"
        BY <1>0 DEF RowsTame
    <2>2. CASE Succeeding(t)
        <3>1. threads'[t].pkg = threads[t].pkg
            BY DEF Tame, TameThread, Succeeding
        <3> QED BY <2>1, <2>2, <3>1 DEF VerifiedInv, ReportsAreVerified
    <2>3. CASE ~Succeeding(t)
        BY <2>3 DEF Tame, TameThread
    <2> QED BY <2>2, <2>3
<1>3. \A u \in ThreadIds : Busy(u)' => Busy(u) /\ threads'[u].pkg = threads[u].pkg
    BY DEF Tame, TameThread, Busy
<1>4. OneWorksOnIt'
    BY <1>3 DEF VerifiedInv, OneWorksOnIt
<1>5. BusyIsUnfinished'
    <2>1. CASE NobodyWorks
        BY <2>1 DEF NobodyWorks, BusyIsUnfinished, Busy
    <2>2. CASE InfoTame
        BY <1>0, <1>3, <2>2 DEF InfoTame, VerifiedInv, BusyIsUnfinished
    <2> QED BY <2>1, <2>2
<1>6. SubmittedIsUnfinished'
    BY DEF VerifiedInv, SubmittedIsUnfinished, Tame, TameThread
<1>7. StartIsFresh'
    <2> SUFFICES ASSUME op'.kind = "start" PROVE StartIsFresh'
        BY DEF StartIsFresh
    <2>1. CASE op.kind = "start" /\ op'.todo \subseteq op.todo /\ InfoTame
        BY <2>1 DEF VerifiedInv, StartIsFresh, Tame, TameThread, InfoTame
    <2>2. CASE NobodyWorks /\ \A p \in Packages : info'[p].status # "SUCCESS"
        BY <2>2 DEF StartIsFresh, NobodyWorks
    <2> QED BY <2>1, <2>2 DEF StartTame
<1> QED BY <1>1, <1>2, <1>4, <1>5, <1>6, <1>7 DEF VerifiedInv

(* Threads that differ in nothing but cancel, autoPause and gone.          *)
Alike(r, x) ==
    /\ r.pc = x.pc /\ r.pkg = x.pkg /\ r.status = x.status /\ r.report = x.report
    /\ r.attached => x.attached

(* They are tame.                                                          *)
LEMMA AlikeIsTame ==
    ASSUME \A u \in ThreadIds : Alike(threads'[u], threads[u])
    PROVE  Tame
<1> SUFFICES ASSUME NEW u \in ThreadIds PROVE TameThread(u)
    BY DEF Tame
<1>1. Alike(threads'[u], threads[u])
    OBVIOUS
<1> QED BY <1>1 DEF Alike, TameThread, Succeeding, Busy

(* Deleting files changes nothing but gone.                                *)
LEMMA UnlinkedAlike ==
    ASSUME NEW ths \in ThreadPool, NEW P
    PROVE  \A u \in ThreadIds : Alike(Unlinked(ths, P)[u], ths[u])
<1> SUFFICES ASSUME NEW u \in ThreadIds PROVE Alike(Unlinked(ths, P)[u], ths[u])
    OBVIOUS
<1>1. ths[u] \in ThreadRec
    BY DEF ThreadPool
<1>2. \E b : Unlinked(ths, P)[u] = [ths[u] EXCEPT !.gone = b]
    BY DEF Unlinked
<1> QED BY <1>1, <1>2 DEF Alike, ThreadRec

(* A step that leaves all this alone.                                      *)
LEMMA SameKeeps ==
    ASSUME Types, Types', VerifiedInv, Tame,
           (op'.kind = op.kind /\ op'.todo = op.todo) \/ op'.kind \in {"none", "net", "resume"},
           op.kind = "cancel" => op'.kind = "cancel",
           UNCHANGED <<info, db, doubled>>, verified \subseteq verified'
    PROVE  VerifiedInv'
<1>1. RowsTame
    BY DEF RowsTame
<1>2. InfoTame
    BY DEF InfoTame
<1>3. StartTame
    BY <1>2 DEF StartTame
<1> QED BY <1>1, <1>2, <1>3, TameKeeps

(* A step that empties the database.                                       *)
LEMMA RemoveKeeps ==
    ASSUME Types, Types', VerifiedInv, Tame, \A p \in Packages : db'[p] = "none",
           UNCHANGED <<op, info, doubled>>
    PROVE  VerifiedInv'
<1>1. RowsTame
    BY DEF RowsTame
<1>2. InfoTame
    BY DEF InfoTame
<1>3. StartTame
    BY <1>2 DEF StartTame
<1> QED BY <1>1, <1>2, <1>3, TameKeeps

(* A thread after its report works on only if it did before.               *)
LEMMA AfterReportFields ==
    ASSUME PoolType, NEW t \in ThreadIds, NEW T, T = AfterReport(t)
    PROVE  /\ \A u \in ThreadIds \ {t} : T[u] = threads[u]
           /\ T[t].attached => /\ T[t].pkg = threads[t].pkg /\ threads[t].attached
                               /\ threads[t].report \in {"DOWNLOADING", "VERIFYING"}
           /\ T[t].pc \in {"running", "verifying", "free"}
<1> DEFINE r == threads[t]
           n == CASE r.report = "DOWNLOADING" -> [r EXCEPT !.pc = "running", !.snap = "INIT"]
                  [] r.report = "VERIFYING"   -> [r EXCEPT !.pc = "verifying", !.snap = "INIT"]
                  [] OTHER                    -> FreeThread
<1>1. r \in ThreadRec
    BY DEF PoolType, ThreadPool
<1>2. T = [threads EXCEPT ![t] = n]
    BY DEF AfterReport
<1>3. \/ n = [r EXCEPT !.pc = "running", !.snap = "INIT"] /\ r.report = "DOWNLOADING"
      \/ n = [r EXCEPT !.pc = "verifying", !.snap = "INIT"] /\ r.report = "VERIFYING"
      \/ n = FreeThread
    <2>1. r.report = "DOWNLOADING" => n = [r EXCEPT !.pc = "running", !.snap = "INIT"]
        <3> HIDE DEF r
        <3> QED OBVIOUS
    <2>2. r.report = "VERIFYING" => n = [r EXCEPT !.pc = "verifying", !.snap = "INIT"]
        <3> HIDE DEF r
        <3> QED OBVIOUS
    <2>3. r.report # "DOWNLOADING" /\ r.report # "VERIFYING" => n = FreeThread
        <3> HIDE DEF r
        <3> QED OBVIOUS
    <2> HIDE DEF n, r
    <2> QED BY <2>1, <2>2, <2>3
<1>4. T[t] = n /\ \A u \in ThreadIds \ {t} : T[u] = threads[u]
    <2> HIDE DEF n
    <2> QED BY <1>2 DEF PoolType, ThreadPool
<1>5. /\ n.attached => n.pkg = r.pkg /\ r.attached /\ r.report \in {"DOWNLOADING", "VERIFYING"}
      /\ n.pc \in {"running", "verifying", "free"}
    <2> HIDE DEF n, r
    <2>1. FreeThread.pc = "free" /\ ~FreeThread.attached
        BY DEF FreeThread
    <2> QED BY <1>1, <1>3, <2>1 DEF ThreadRec
<1> QED BY <1>4, <1>5

(* Hence it is tame.                                                       *)
LEMMA AfterReportIsTame ==
    ASSUME PoolType, NEW t \in ThreadIds, threads' = AfterReport(t)
    PROVE  Tame
<1> SUFFICES ASSUME NEW u \in ThreadIds PROVE TameThread(u)
    BY DEF Tame
<1>1. CASE u # t
    <2>1. threads'[u] = threads[u]
        BY <1>1, AfterReportFields
    <2> QED BY <2>1 DEF TameThread, Succeeding, Busy
<1>2. CASE u = t
    <2>1. /\ threads'[t].attached => /\ threads'[t].pkg = threads[t].pkg /\ threads[t].attached
                               /\ threads[t].report \in {"DOWNLOADING", "VERIFYING"}
          /\ threads'[t].pc \in {"running", "verifying", "free"}
        BY AfterReportFields
    <2> QED BY <1>2, <2>1 DEF TameThread, Succeeding, Busy
<1> QED BY <1>1, <1>2

(* FinishRemove empties the database and at most deletes files.            *)
LEMMA FinishRemoveKeeps ==
    ASSUME Types, Types', VerifiedInv, NEW s, NEW reached, FinishRemove(s, reached, threads),
           UNCHANGED <<op, info, doubled>>
    PROVE  VerifiedInv'
<1>1. threads \in ThreadPool
    BY DEF Types, PoolType
<1>2. \A u \in ThreadIds : Alike(threads'[u], threads[u])
    <2>1. CASE threads' = threads
        BY <2>1 DEF Alike
    <2>2. CASE threads' = Unlinked(threads, Packages)
        BY <1>1, <2>2, UnlinkedAlike
    <2> QED BY <2>1, <2>2 DEF FinishRemove
<1>3. \A p \in Packages : db'[p] = "none"
    BY DEF FinishRemove, RemoveTask
<1> QED BY <1>2, <1>3, AlikeIsTame, RemoveKeeps

(* The firmware layer's steps.                                             *)
LEMMA FirmwareKeeps == ASSUME Types, Types', VerifiedInv, FirmwareNext PROVE VerifiedInv'
<1>0. threads' = threads => Tame
    BY AlikeIsTame DEF Alike
<1>1. CASE NewVersionFound \/ PerformDownload \/ PerformResumeDownload \/ DoCancel
    BY <1>0, <1>1, SameKeeps
       DEF NewVersionFound, PerformDownload, PerformResumeDownload, DoCancel, pool, ghosts
<1>2. CASE ReportFinishedDownload \/ ResumeRunningFails
    BY <1>2, FinishRemoveKeeps DEF ReportFinishedDownload, ResumeRunningFails
<1>3. CASE DoCancelCleanUp
    <2>1. \A p \in Packages : db'[p] = "none"
        BY <1>3 DEF DoCancelCleanUp, RemoveTask
    <2> QED BY <1>0, <1>3, <2>1, RemoveKeeps DEF DoCancelCleanUp, pool, ghosts
<1> QED BY <1>1, <1>2, <1>3 DEF FirmwareNext

(* The thread that StartDownloadThread constructs.                         *)
LEMMA NewThread ==
    ASSUME Types, NEW p \in Packages, NEW s, StartDownloadThread(p, s)
    PROVE  \E t \in ThreadIds :
              /\ threads'[t].pc = "submitted" /\ threads'[t].pkg = p
              /\ threads'[t].status = s /\ threads'[t].report = "INIT"
              /\ \A u \in ThreadIds \ {t} : threads'[u] = threads[u]
<1>1. PICK t \in ThreadIds \ Live :
        threads' = [threads EXCEPT ![t] = [FreeThread EXCEPT !.pc = "submitted", !.pkg = p,
                                !.status = s, !.attached = TRUE]]
    BY DEF StartDownloadThread
<1>2. threads'[t] = [FreeThread EXCEPT !.pc = "submitted", !.pkg = p,
                                !.status = s, !.attached = TRUE]
      /\ \A u \in ThreadIds \ {t} : threads'[u] = threads[u]
    BY <1>1 DEF Types, PoolType, ThreadPool
<1>3. /\ threads'[t].pc = "submitted" /\ threads'[t].pkg = p
      /\ threads'[t].status = s /\ threads'[t].report = "INIT"
    BY <1>2 DEF FreeThread
<1> QED BY <1>2, <1>3

(* Start detaches every thread of the old object.                          *)
LEMMA StartTaskKeeps == ASSUME Types, Types', VerifiedInv, StartTask PROVE VerifiedInv'
<1> DEFINE D == [t \in ThreadIds |-> [threads[t] EXCEPT !.attached = FALSE,
                    !.cancel = @ \/ (inMap /\ threadMap[threads[t].pkg] = t)]]
           P == IF inMap THEN Packages ELSE {}
<1>1. PoolType
    BY DEF Types
<1>2. D \in ThreadPool
    BY <1>1, DetachedType
<1>3. threads' = Unlinked(D, P)
    BY DEF StartTask
<1>4. \A u \in ThreadIds : Alike(D[u], threads[u]) /\ ~D[u].attached
    <2> SUFFICES ASSUME NEW u \in ThreadIds PROVE Alike(D[u], threads[u]) /\ ~D[u].attached
        OBVIOUS
    <2>1. PICK c : D[u] = [threads[u] EXCEPT !.attached = FALSE, !.cancel = c]
        OBVIOUS
    <2>2. threads[u] \in ThreadRec
        BY <1>1 DEF PoolType, ThreadPool
    <2> HIDE DEF D
    <2> QED BY <2>1, <2>2 DEF Alike, ThreadRec
<1> HIDE DEF D, P
<1>5. \A u \in ThreadIds : Alike(threads'[u], D[u])
    BY <1>2, <1>3, UnlinkedAlike
<1>6. \A u \in ThreadIds : Alike(threads'[u], threads[u]) /\ ~threads'[u].attached
    BY <1>4, <1>5 DEF Alike
<1>7. Tame /\ NobodyWorks
    BY <1>6, AlikeIsTame DEF NobodyWorks
<1>8. \A p \in Packages : info'[p].status = "INIT"
    BY DEF StartTask
<1>9. StartTame
    BY <1>7, <1>8 DEF StartTame
<1>10. RowsTame
    <2>1. op.kind = "none"
        BY DEF StartTask, MapMutexFree
    <2>2. db' = [p \in Packages |-> "none"] \/ (db' = db /\ verified' = verified)
        BY DEF StartTask
    <2> QED BY <2>1, <2>2 DEF RowsTame
<1> QED BY <1>7, <1>9, <1>10, TameKeeps DEF StartTask

(* One turn of Start's loop.                                               *)
LEMMA StartPackageKeeps ==
    ASSUME Types, Types', VerifiedInv, NEW p \in Packages, StartPackage(p)
    PROVE  VerifiedInv'
<1>1. PICK t \in ThreadIds :
              /\ threads'[t].pc = "submitted" /\ threads'[t].pkg = p
              /\ threads'[t].status = "INIT" /\ threads'[t].report = "INIT"
              /\ \A u \in ThreadIds \ {t} : threads'[u] = threads[u]
    BY NewThread DEF StartPackage
<1>2. op.kind = "start" /\ p \in op.todo /\ op'.kind = "start" /\ op'.todo = op.todo \ {p}
    BY OpKinds, LoopKinds DEF StartPackage, Types
<1>3. /\ \A q \in Packages : q # p => db'[q] = db[q]
      /\ db'[p] = IF db[p] = "none" THEN "INIT" ELSE db[p]
    BY DEF StartPackage, Types, DbType
<1>4. UNCHANGED <<info, verified, doubled>>
    BY DEF StartPackage, ghosts
<1>6. \A u \in ThreadIds : threads[u].attached => threads[u].pkg # p
    BY <1>2 DEF VerifiedInv, StartIsFresh
<1>8. \A q \in Packages : info[q].status # "SUCCESS"
    BY <1>2 DEF VerifiedInv, StartIsFresh
<1>9. \A u \in ThreadIds : threads[u].pkg \in Packages
    BY DEF Types, PoolType, ThreadPool, ThreadRec
<1>10. PersistedSuccessIsVerified'
    BY <1>2, <1>3, <1>4 DEF VerifiedInv, PersistedSuccessIsVerified
<1>11. ReportsAreVerified'
    <2> SUFFICES ASSUME NEW u \in ThreadIds, Succeeding(u)', db'[threads'[u].pkg] # "none"
                 PROVE  threads'[u].pkg \in verified \cup doubled
        BY <1>4 DEF ReportsAreVerified
    <2>1. u # t /\ Succeeding(u) /\ threads'[u] = threads[u]
        BY <1>1 DEF Succeeding
    <2>2. threads[u].pkg # p
        BY <1>6, <2>1 DEF Succeeding
    <2> QED BY <1>2, <1>3, <1>9, <2>1, <2>2 DEF VerifiedInv, ReportsAreVerified
<1>12. OneWorksOnIt'
    <2>1. \A u \in ThreadIds : Busy(u)' /\ threads'[u].pkg = p => u = t
        BY <1>1, <1>6 DEF Busy
    <2> QED BY <1>1, <1>4, <2>1 DEF VerifiedInv, OneWorksOnIt, Busy
<1>13. BusyIsUnfinished'
    BY <1>1, <1>4, <1>8, <1>9 DEF BusyIsUnfinished
<1>14. SubmittedIsUnfinished'
    BY <1>1, <1>4 DEF VerifiedInv, SubmittedIsUnfinished
<1>15. StartIsFresh'
    BY <1>1, <1>2, <1>4, <1>8 DEF VerifiedInv, StartIsFresh
<1> QED BY <1>10, <1>11, <1>12, <1>13, <1>14, <1>15 DEF VerifiedInv

(* One turn of Resume's loop: the one place that may start a second thread *)
(* on a package.                                                           *)
LEMMA ResumePackageKeeps ==
    ASSUME Types, Types', VerifiedInv, NEW p \in Packages, ResumePackage(p)
    PROVE  VerifiedInv'
<1>0. op.kind = "resume" /\ op'.kind = "resume" /\ UNCHANGED <<db, verified>>
    BY LoopKinds DEF ResumePackage
<1>1. CASE UNCHANGED <<info, pool, doubled>>
    <2>1. Tame
        BY <1>1, AlikeIsTame DEF Alike, pool
    <2> QED BY <1>0, <1>1, <2>1, SameKeeps
<1>2. CASE ~(threadMap[p] # 0 \/ IsCompleted(info[p].status))
    <2> DEFINE s == IF info[p].status \in {"PAUSE", "AUTO_PAUSE"}
                    THEN "DOWNLOADING" ELSE info[p].status
    <2>1. s # "SUCCESS"
        BY <1>2 DEF IsCompleted
    <2>2. /\ info' = [info EXCEPT ![p] = [status |-> s, retryTimes |-> 0]]
          /\ StartDownloadThread(p, s)
          /\ doubled' = IF \E t \in ThreadIds : Busy(t) /\ threads[t].pkg = p
                        THEN doubled \cup {p} ELSE doubled
        BY <1>2 DEF ResumePackage
    <2> HIDE DEF s
    <2>3. PICK t \in ThreadIds :
              /\ threads'[t].pc = "submitted" /\ threads'[t].pkg = p
              /\ threads'[t].status = s /\ threads'[t].report = "INIT"
              /\ \A u \in ThreadIds \ {t} : threads'[u] = threads[u]
        BY <2>2, NewThread
    <2>4. /\ info'[p].status = s
          /\ \A q \in Packages : q # p => info'[q] = info[q]
        BY <2>2 DEF Types, InfoType
    <2>5. doubled \subseteq doubled'
          /\ \A u \in ThreadIds : Busy(u) /\ threads[u].pkg = p => p \in doubled'
        BY <2>2
    <2>8. \A u \in ThreadIds : threads[u].pkg \in Packages
        BY DEF Types, PoolType, ThreadPool, ThreadRec
    <2>9. PersistedSuccessIsVerified'
        BY <1>0, <2>5 DEF VerifiedInv, PersistedSuccessIsVerified
    <2>10. ReportsAreVerified'
        BY <1>0, <2>3, <2>5 DEF VerifiedInv, ReportsAreVerified, Succeeding
    <2>11. OneWorksOnIt'
        <3> SUFFICES ASSUME NEW u \in ThreadIds, NEW w \in ThreadIds, Busy(u)', Busy(w)',
                            threads'[u].pkg = threads'[w].pkg, u # w
                     PROVE  threads'[u].pkg \in doubled'
            BY DEF OneWorksOnIt
        <3>1. CASE u # t /\ w # t
            BY <2>3, <2>5, <3>1 DEF VerifiedInv, OneWorksOnIt, Busy
        <3>2. CASE u = t \/ w = t
            BY <2>3, <2>5, <3>2 DEF Busy
        <3> QED BY <3>1, <3>2
    <2>12. BusyIsUnfinished'
        BY <2>1, <2>3, <2>4, <2>5, <2>8 DEF VerifiedInv, BusyIsUnfinished, Busy
    <2>13. SubmittedIsUnfinished'
        BY <2>1, <2>3, <2>5 DEF VerifiedInv, SubmittedIsUnfinished
    <2>14. StartIsFresh'
        BY <1>0 DEF StartIsFresh
    <2> QED BY <2>9, <2>10, <2>11, <2>12, <2>13, <2>14 DEF VerifiedInv
<1> QED BY <1>1, <1>2 DEF ResumePackage

(* The other steps of the operations.                                      *)
LEMMA ManagerKeeps ==
    ASSUME Types, Types', VerifiedInv,
           \/ EnsureInsert \/ ResumeTask \/ ResumeMissingTask \/ ResumeFinish
           \/ OnNetAvailable \/ OnNetIgnored \/ OnNetLost
           \/ (\E p \in Packages : NetPausePackage(p)) \/ NetLostFinish
    PROVE  VerifiedInv'
<1>0. threads' = threads => Tame
    BY AlikeIsTame DEF Alike
<1>a. OpType
    BY DEF Types
<1>1. CASE EnsureInsert \/ ResumeFinish \/ NetLostFinish
    <2>1. op'.kind = "none" /\ op.kind # "cancel"
        BY <1>1, <1>a, OpKinds DEF EnsureInsert, ResumeFinish, NetLostFinish
    <2> QED BY <1>0, <1>1, <2>1, SameKeeps
            DEF EnsureInsert, ResumeFinish, NetLostFinish, pool, ghosts
<1>2. CASE ResumeTask
    <2>1. op'.kind = "resume" /\ op.kind = "none"
        BY <1>2, LoopKinds, EngineAssumption DEF ResumeTask, MapMutexFree
    <2>2. RowsTame
        BY <1>2, <2>1 DEF ResumeTask, RowsTame
    <2>3. InfoTame
        <3> SUFFICES ASSUME NEW p \in Packages, info'[p].status = "SUCCESS"
                     PROVE  info[p].status = "SUCCESS"
            BY DEF InfoTame
        <3>1. info[p] \in InfoRec
            BY DEF Types, InfoType
        <3>2. info'[p] = info[p] \/ info'[p] = [info[p] EXCEPT !.status = "INIT"]
            BY <1>2 DEF ResumeTask
        <3> QED BY <3>1, <3>2 DEF InfoRec
    <2>4. StartTame
        BY <2>1 DEF StartTame
    <2> QED BY <1>0, <1>2, <2>2, <2>3, <2>4, TameKeeps DEF ResumeTask, pool
<1>3. CASE ResumeMissingTask
    BY <1>3, FinishRemoveKeeps DEF ResumeMissingTask
<1>4. CASE OnNetAvailable \/ OnNetIgnored
    BY <1>0, <1>4, SameKeeps DEF OnNetAvailable, OnNetIgnored, pool, ghosts
<1>5. CASE OnNetLost
    <2>1. op'.kind = "net" /\ op.kind = "none"
        BY <1>5, <1>a, OpKinds DEF OnNetLost, MapMutexFree
    <2> QED BY <1>0, <1>5, <2>1, SameKeeps DEF OnNetLost, pool, ghosts
<1>6. ASSUME NEW p \in Packages, NetPausePackage(p) PROVE VerifiedInv'
    <2>1. op'.kind = "net" /\ op.kind = "net"
        BY <1>6, LoopKinds DEF NetPausePackage
    <2>2. Tame
        <3>1. CASE threads' = threads
            BY <1>0, <3>1
        <3>2. CASE \E t, b : threads' = [threads EXCEPT ![t].autoPause = b]
            <4>1. PICK t, b : threads' = [threads EXCEPT ![t].autoPause = b]
                BY <3>2
            <4>2. \A u \in ThreadIds : threads[u] \in ThreadRec
                BY DEF Types, PoolType, ThreadPool
            <4>3. \A u \in ThreadIds : \/ threads'[u] = threads[u]
                                       \/ threads'[u] = [threads[u] EXCEPT !.autoPause = b]
                BY <4>1 DEF Types, PoolType, ThreadPool
            <4>4. \A u \in ThreadIds : Alike(threads'[u], threads[u])
                BY <4>2, <4>3 DEF Alike, ThreadRec
            <4> QED BY <4>4, AlikeIsTame
        <3> QED BY <1>6, <3>1, <3>2 DEF NetPausePackage
    <2>3. InfoTame
        <3>1. CASE info' = info
            BY <3>1 DEF InfoTame
        <3>2. CASE info' = [info EXCEPT ![p].status = "AUTO_PAUSE"]
            <4>1. \A q \in Packages : info[q] \in InfoRec
                BY DEF Types, InfoType
            <4>2. /\ info'[p] = [info[p] EXCEPT !.status = "AUTO_PAUSE"]
                  /\ \A q \in Packages : q # p => info'[q] = info[q]
                BY <3>2 DEF Types, InfoType
            <4> QED BY <4>1, <4>2 DEF InfoTame, InfoRec
        <3> QED BY <1>6, <3>1, <3>2 DEF NetPausePackage
    <2>4. RowsTame
        <3>1. /\ \A q \in Packages : q # p => db'[q] = db[q]
              /\ db'[p] = db[p] \/ (db[p] # "none" /\ db'[p] = "AUTO_PAUSE")
            BY <1>6 DEF NetPausePackage, Types, DbType
        <3> QED BY <1>6, <2>1, <3>1 DEF RowsTame, NetPausePackage, ghosts
    <2>5. StartTame
        BY <2>1 DEF StartTame
    <2> QED BY <1>6, <2>2, <2>3, <2>4, <2>5, TameKeeps DEF NetPausePackage, ghosts
<1> QED BY <1>1, <1>2, <1>3, <1>4, <1>5, <1>6

(* Cancel: the files go before the rows, and the rows go before it ends.   *)
LEMMA CancelKeeps ==
    ASSUME Types, Types', VerifiedInv,
           \/ CancelTask \/ (\E p \in Packages : CancelPackage(p))
           \/ CancelRecord \/ CancelCallback \/ CancelFinish
    PROVE  VerifiedInv'
<1>0. threads' = threads => Tame
    BY AlikeIsTame DEF Alike
<1>a. OpType /\ PoolType
    BY DEF Types
<1>b. threads \in ThreadPool
    BY <1>a DEF PoolType
<1>1. CASE CancelTask
    <2> DEFINE D == [t \in ThreadIds |-> [threads[t] EXCEPT
                        !.cancel = @ \/ threadMap[threads[t].pkg] = t]]
    <2>1. D \in ThreadPool
        BY <1>a, CancelledType
    <2>2. threads' = Unlinked(D, pkgs)
        BY <1>1 DEF CancelTask
    <2>3. \A u \in ThreadIds : Alike(D[u], threads[u])
        <3> SUFFICES ASSUME NEW u \in ThreadIds PROVE Alike(D[u], threads[u])
            OBVIOUS
        <3>1. PICK c : D[u] = [threads[u] EXCEPT !.cancel = c]
            OBVIOUS
        <3>2. threads[u] \in ThreadRec
            BY <1>b DEF ThreadPool
        <3> HIDE DEF D
        <3> QED BY <3>1, <3>2 DEF Alike, ThreadRec
    <2> HIDE DEF D
    <2>4. \A u \in ThreadIds : Alike(threads'[u], D[u])
        BY <2>1, <2>2, UnlinkedAlike
    <2>5. Tame
        BY <2>3, <2>4, AlikeIsTame DEF Alike
    <2>6. op'.kind = "cancel"
        BY <1>1, <1>a, OpKinds DEF CancelTask
    <2>7. RowsTame /\ InfoTame /\ StartTame
        BY <1>1, <2>6 DEF CancelTask, RowsTame, InfoTame, StartTame
    <2> QED BY <1>1, <2>5, <2>7, TameKeeps DEF CancelTask
<1>2. ASSUME NEW p \in Packages, CancelPackage(p) PROVE VerifiedInv'
    <2>1. op'.kind = "cancel"
        BY <1>2, LoopKinds DEF CancelPackage
    <2>2. InfoTame
        <3>1. \A q \in Packages : info[q] \in InfoRec
            BY DEF Types, InfoType
        <3>2. /\ info'[p] = [info[p] EXCEPT !.status = "CANCEL"]
              /\ \A q \in Packages : q # p => info'[q] = info[q]
            BY <1>2 DEF Types, InfoType, CancelPackage
        <3> QED BY <3>1, <3>2 DEF InfoTame, InfoRec
    <2>3. RowsTame /\ StartTame
        BY <2>1 DEF RowsTame, StartTame
    <2> QED BY <1>0, <1>2, <2>2, <2>3, TameKeeps DEF CancelPackage, ghosts
<1>3. CASE CancelRecord \/ CancelCallback
    <2>1. op'.kind = "cancel"
        BY <1>3, LoopKinds, EngineAssumption DEF CancelRecord, CancelCallback
    <2>2. RowsTame /\ StartTame /\ InfoTame
        BY <1>3, <2>1 DEF RowsTame, StartTame, InfoTame, CancelRecord, CancelCallback
    <2>3. Tame
        <3>1. threads' = threads \/ \E P : threads' = Unlinked(threads, P)
            BY <1>3 DEF CancelRecord, CancelCallback, pool
        <3>2. CASE \E P : threads' = Unlinked(threads, P)
            BY <1>b, <3>2, UnlinkedAlike, AlikeIsTame
        <3> QED BY <1>0, <3>1, <3>2
    <2> QED BY <1>3, <2>2, <2>3, TameKeeps DEF CancelRecord, CancelCallback, ghosts
<1>4. CASE CancelFinish
    <2>1. op'.kind = "none"
        BY <1>4, <1>a, OpKinds DEF CancelFinish
    <2>2. RowsTame /\ StartTame /\ InfoTame
        BY <1>4, <2>1 DEF RowsTame, StartTame, InfoTame, CancelFinish
    <2> QED BY <1>0, <1>4, <2>2, TameKeeps DEF CancelFinish, pool, ghosts
<1> QED BY <1>1, <1>2, <1>3, <1>4

(* The serial queue, the network and the threads' last steps.              *)
LEMMA CallbackKeeps ==
    ASSUME Types, Types', VerifiedInv,
           \/ WorkerNext \/ NetChanges
           \/ \E t \in ThreadIds : ThreadSyncCallback(t) \/ ThreadRemove(t)
    PROVE  VerifiedInv'
<1>0. threads' = threads => Tame
    BY AlikeIsTame DEF Alike
<1>1. CASE TakeCallback \/ TimedTask \/ CallbackProgress \/ WorkerDealCallBack
    BY <1>0, <1>1, SameKeeps
       DEF TakeCallback, TimedTask, CallbackProgress, WorkerDealCallBack, pool, ghosts
<1>2. CASE WorkerRemove
    BY <1>2, FinishRemoveKeeps DEF WorkerRemove
<1>3. CASE NetChanges
    BY <1>0, <1>3, SameKeeps DEF NetChanges, pool, ghosts
<1>4. ASSUME NEW t \in ThreadIds, ThreadSyncCallback(t) PROVE VerifiedInv'
    <2>1. Tame
        <3>1. CASE threads' = AfterReport(t)
            BY <3>1, AfterReportIsTame DEF Types
        <3>2. CASE threads' = [threads EXCEPT ![t].pc = "remove"]
            <4>1. threads[t] \in ThreadRec /\ threads[t].pc = "sync"
                BY <1>4 DEF Types, PoolType, ThreadPool, ThreadSyncCallback
            <4>2. /\ threads'[t] = [threads[t] EXCEPT !.pc = "remove"]
                  /\ \A u \in ThreadIds : u # t => threads'[u] = threads[u]
                BY <3>2 DEF Types, PoolType, ThreadPool
            <4> QED BY <4>1, <4>2 DEF Tame, TameThread, Busy, Succeeding, ThreadRec
        <3> QED BY <1>4, <3>1, <3>2 DEF ThreadSyncCallback
    <2> QED BY <1>4, <2>1, SameKeeps DEF ThreadSyncCallback
<1>5. ASSUME NEW t \in ThreadIds, ThreadRemove(t) PROVE VerifiedInv'
    <2> DEFINE T == AfterReport(t)
    <2>1. T \in ThreadPool
        BY AfterReportType DEF Types
    <2>2. /\ \A u \in ThreadIds \ {t} : T[u] = threads[u]
          /\ T[t].attached => /\ T[t].pkg = threads[t].pkg /\ threads[t].attached
                              /\ threads[t].report \in {"DOWNLOADING", "VERIFYING"}
          /\ T[t].pc \in {"running", "verifying", "free"}
        BY AfterReportFields DEF Types
    <2>3. threads' = T \/ threads' = Unlinked(T, Packages)
        BY <1>5 DEF ThreadRemove, FinishRemove
    <2> HIDE DEF T
    <2>4. \A u \in ThreadIds : Alike(threads'[u], T[u])
        BY <2>1, <2>3, UnlinkedAlike DEF Alike
    <2>5. Tame
        <3> SUFFICES ASSUME NEW u \in ThreadIds PROVE TameThread(u)
            BY DEF Tame
        <3>1. Alike(threads'[u], T[u])
            BY <2>4
        <3>2. CASE u = t
            BY <2>2, <3>1, <3>2 DEF Alike, TameThread, Busy, Succeeding
        <3>3. CASE u # t
            BY <2>2, <3>1, <3>3 DEF Alike, TameThread, Busy, Succeeding
        <3> QED BY <3>2, <3>3
    <2>6. \A p \in Packages : db'[p] = "none"
        BY <1>5 DEF ThreadRemove, FinishRemove, RemoveTask
    <2> QED BY <1>5, <2>5, <2>6, RemoveKeeps DEF ThreadRemove
<1> QED BY <1>1, <1>2, <1>3, <1>4, <1>5 DEF WorkerNext

(* What a report of thread t writes.                                       *)
LEMMA ReportFields ==
    ASSUME Types, NEW t \in ThreadIds, NEW r,
           \/ Report(t, r)
           \/ \E s : threads' = [threads EXCEPT ![t].pc = "check", ![t].report = r, ![t].status = s]
    PROVE  /\ \A u \in ThreadIds : u # t => threads'[u] = threads[u]
           /\ threads'[t].pc = "check" /\ threads'[t].report = r
           /\ threads'[t].pkg = threads[t].pkg
           /\ threads'[t].attached => threads[t].attached
<1>1. threads[t] \in ThreadRec
    BY DEF Types, PoolType, ThreadPool
<1>2. CASE Report(t, r)
    <2>1. /\ threads'[t] = [threads[t] EXCEPT !.pc = "check", !.report = r]
          /\ \A u \in ThreadIds : u # t => threads'[u] = threads[u]
        BY <1>2 DEF Report, Types, PoolType, ThreadPool
    <2> QED BY <1>1, <2>1 DEF ThreadRec
<1>3. ASSUME NEW s,
             threads' = [threads EXCEPT ![t].pc = "check", ![t].report = r, ![t].status = s]
      PROVE  /\ \A u \in ThreadIds : u # t => threads'[u] = threads[u]
             /\ threads'[t].pc = "check" /\ threads'[t].report = r
             /\ threads'[t].pkg = threads[t].pkg
             /\ threads'[t].attached => threads[t].attached
    <2>1. /\ threads'[t] = [threads[t] EXCEPT !.pc = "check", !.report = r, !.status = s]
          /\ \A u \in ThreadIds : u # t => threads'[u] = threads[u]
        BY <1>3 DEF Types, PoolType, ThreadPool
    <2> QED BY <1>1, <2>1 DEF ThreadRec
<1> QED BY <1>2, <1>3

(* A report is tame, if a report of SUCCESS is one of a verified package.  *)
LEMMA ReportIsTame ==
    ASSUME Types, NEW t \in ThreadIds, NEW r,
           \/ Report(t, r)
           \/ \E s : threads' = [threads EXCEPT ![t].pc = "check", ![t].report = r, ![t].status = s],
           threads[t].pc \in {"submitted", "running", "verifying"},
           r = "SUCCESS" => threads[t].pkg \in verified' \cup doubled
    PROVE  Tame
<1>1. /\ \A u \in ThreadIds : u # t => threads'[u] = threads[u]
      /\ threads'[t].pc = "check" /\ threads'[t].report = r
      /\ threads'[t].pkg = threads[t].pkg
      /\ threads'[t].attached => threads[t].attached
    BY ReportFields
<1>2. TameThread(t)
    BY <1>1 DEF TameThread, Busy, Succeeding
<1> QED BY <1>1, <1>2 DEF Tame, TameThread, Busy, Succeeding

(* The steps of a thread that reach neither the row nor the task.          *)
LEMMA ThreadRunKeeps ==
    ASSUME Types, Types', VerifiedInv, NEW t \in ThreadIds,
           \/ DownloadVersion(t) \/ DoDownload(t) \/ DoVerify(t)
           \/ CheckStopFlag(t) \/ RemoveThread(t)
    PROVE  VerifiedInv'
<1>0. threads[t] \in ThreadRec
    BY DEF Types, PoolType, ThreadPool
<1>b. threads' = [threads EXCEPT ![t] = FreeThread] => Tame
    <2> SUFFICES ASSUME threads' = [threads EXCEPT ![t] = FreeThread] PROVE Tame
        OBVIOUS
    <2>1. threads'[t] = FreeThread /\ \A u \in ThreadIds : u # t => threads'[u] = threads[u]
        BY DEF Types, PoolType, ThreadPool
    <2>2. threads'[t].pc = "free" /\ ~threads'[t].attached
        BY <2>1 DEF FreeThread
    <2> QED BY <2>1, <2>2 DEF Tame, TameThread, Busy, Succeeding
<1>1. CASE DownloadVersion(t)
    <2> DEFINE s == threads[t].status
               r == IF s = "VERIFYING" THEN s ELSE "DOWNLOADING"
               q == IF s = "FAIL" THEN "RETRY" ELSE s
    <2>1. threads[t].pc = "submitted"
        BY <1>1 DEF DownloadVersion
    <2>2. s # "SUCCESS" \/ threads[t].pkg \in doubled
        BY <2>1 DEF VerifiedInv, SubmittedIsUnfinished
    <2>3. CASE Report(t, q)
        <3>1. q = "SUCCESS" => threads[t].pkg \in verified' \cup doubled
            BY <2>2
        <3> HIDE DEF q
        <3>2. Tame
            BY <2>1, <2>3, <3>1, ReportIsTame
        <3> QED BY <1>1, <3>2, SameKeeps DEF DownloadVersion, ghosts
    <2>4. CASE threads' = [threads EXCEPT ![t].pc = "check", ![t].report = r, ![t].status = r]
        <3>1. r # "SUCCESS"
            OBVIOUS
        <3> HIDE DEF r
        <3>2. Tame
            BY <2>1, <2>4, <3>1, ReportIsTame
        <3> QED BY <1>1, <3>2, SameKeeps DEF DownloadVersion, ghosts
    <2> QED BY <1>1, <2>3, <2>4 DEF DownloadVersion
<1>2. CASE DoDownload(t)
    <2>1. threads[t].pc = "running"
        BY <1>2 DEF DoDownload
    <2>2. \A r \in {"RETRY", "FAIL", "AUTO_PAUSE"} : Report(t, r) => Tame
        BY <2>1, ReportIsTame
    <2>3. threads' = [threads EXCEPT ![t].pc = "check", ![t].report = "VERIFYING",
                                     ![t].status = "VERIFYING"] => Tame
        <3> DEFINE r == "VERIFYING"
        <3>1. r # "SUCCESS"
            OBVIOUS
        <3> HIDE DEF r
        <3>2. (\E s : threads' = [threads EXCEPT ![t].pc = "check", ![t].report = r,
                                                ![t].status = s]) => Tame
            BY <2>1, <3>1, ReportIsTame
        <3> QED BY <3>2 DEF r
    <2>4. Tame
        BY <1>2, <1>b, <2>2, <2>3 DEF DoDownload
    <2> QED BY <1>2, <2>4, SameKeeps DEF DoDownload, ghosts
<1>3. CASE DoVerify(t)
    <2>1. threads[t].pc = "verifying" /\ verified \subseteq verified'
        BY <1>3 DEF DoVerify
    <2>2. \A r \in {"FAIL"} : Report(t, r) => Tame
        BY <2>1, ReportIsTame
    <2>3. Report(t, "SUCCESS") /\ threads[t].pkg \in verified' => Tame
        BY <2>1, ReportIsTame
    <2>4. Tame
        BY <1>3, <1>b, <2>2, <2>3 DEF DoVerify
    <2> QED BY <1>3, <2>1, <2>4, SameKeeps DEF DoVerify
<1>4. CASE CheckStopFlag(t)
    <2>1. CASE threads' = AfterReport(t)
        BY <1>4, <2>1, AfterReportIsTame, SameKeeps DEF CheckStopFlag, ghosts, Types
    <2>2. CASE \E c \in {"update", "leave"} : threads' = [threads EXCEPT ![t].pc = c]
        <3>1. PICK c \in {"update", "leave"} : threads' = [threads EXCEPT ![t].pc = c]
            BY <2>2
        <3>2. threads[t].pc = "check"
            BY <1>4 DEF CheckStopFlag
        <3>3. threads'[t] = [threads[t] EXCEPT !.pc = c]
              /\ \A u \in ThreadIds : u # t => threads'[u] = threads[u]
            BY <3>1 DEF Types, PoolType, ThreadPool
        <3>4. TameThread(t)
            BY <1>0, <3>2, <3>3 DEF TameThread, Busy, Succeeding, ThreadRec
        <3>5. Tame
            BY <3>3, <3>4 DEF Tame, TameThread, Busy, Succeeding
        <3> QED BY <1>4, <3>5, SameKeeps DEF CheckStopFlag, ghosts
    <2> QED BY <1>4, <2>1, <2>2 DEF CheckStopFlag
<1>5. CASE RemoveThread(t)
    <2>1. threads[t].pc = "leave" /\ threads' = [threads EXCEPT ![t].pc = "update"]
        BY <1>5 DEF RemoveThread
    <2>2. threads'[t] = [threads[t] EXCEPT !.pc = "update"]
          /\ \A u \in ThreadIds : u # t => threads'[u] = threads[u]
        BY <2>1 DEF Types, PoolType, ThreadPool
    <2>3. TameThread(t)
        BY <1>0, <2>1, <2>2 DEF TameThread, Busy, Succeeding, ThreadRec
    <2>4. Tame
        BY <2>2, <2>3 DEF Tame, TameThread, Busy, Succeeding
    <2> QED BY <1>5, <2>4, SameKeeps DEF RemoveThread, ghosts
<1> QED BY <1>1, <1>2, <1>3, <1>4, <1>5

(* The steps of a thread on the task.                                      *)
LEMMA ThreadTaskKeeps ==
    ASSUME Types, Types', VerifiedInv, NEW t \in ThreadIds,
           GetTaskProgress(t) \/ UpdateTaskProgress(t)
    PROVE  VerifiedInv'
<1>0. threads[t] \in ThreadRec /\ threads[t].pc \in {"snap", "record"}
    BY DEF Types, PoolType, ThreadPool, GetTaskProgress, UpdateTaskProgress
<1>1. \/ threads' = AfterReport(t)
      \/ threads' = [threads EXCEPT ![t].pc = "sync"]
      \/ \E n : threads' = [threads EXCEPT ![t].pc = "record", ![t].snap = n]
    BY DEF GetTaskProgress, UpdateTaskProgress
<1>2. CASE threads' = AfterReport(t)
    <2>1. Tame
        BY <1>2, AfterReportIsTame DEF Types
    <2> QED BY <2>1, SameKeeps DEF GetTaskProgress, UpdateTaskProgress, ghosts
<1>3. CASE threads' # AfterReport(t)
    <2>1. /\ \A u \in ThreadIds : u # t => threads'[u] = threads[u]
          /\ \/ threads'[t] = [threads[t] EXCEPT !.pc = "sync"]
             \/ \E n : threads'[t] = [threads[t] EXCEPT !.pc = "record", !.snap = n]
        BY <1>1, <1>3 DEF Types, PoolType, ThreadPool
    <2>2. TameThread(t)
        BY <1>0, <2>1 DEF TameThread, Busy, Succeeding, ThreadRec
    <2>3. Tame
        BY <2>1, <2>2 DEF Tame, TameThread, Busy, Succeeding
    <2> QED BY <2>3, SameKeeps DEF GetTaskProgress, UpdateTaskProgress, ghosts
<1> QED BY <1>2, <1>3

(* The report reaches DownloadInfo and row.  A failure deletes the file,   *)
(* which takes a success from no other thread: it works alone.             *)
LEMMA UpdateKeeps ==
    ASSUME Types, Types', VerifiedInv, NEW t \in ThreadIds, UpdateDownloadProgress(t)
    PROVE  VerifiedInv'
<1> DEFINE p == threads[t].pkg
           r == threads[t].report
<1>0. /\ threads[t] \in ThreadRec /\ threads \in ThreadPool /\ p \in Packages
      /\ \A u \in ThreadIds : threads[u] \in ThreadRec /\ threads[u].pkg \in Packages
    BY DEF Types, PoolType, ThreadPool, ThreadRec
<1>1. threads[t].pc = "update" /\ op' = op /\ doubled' = doubled
    BY DEF UpdateDownloadProgress
<1>2. CASE /\ threads' = AfterReport(t)
           /\ UNCHANGED <<threadMap, info, db, verified>>
    <2>1. Tame
        BY <1>2, AfterReportIsTame DEF Types
    <2> QED BY <1>1, <1>2, <2>1, SameKeeps
<1>3. CASE /\ threads[t].attached
           /\ info' = [info EXCEPT ![p].retryTimes = @ + 1]
           /\ threads' = [threads EXCEPT ![t] = [FreeThread EXCEPT
                 !.pc = "submitted", !.pkg = p, !.status = info[p].status, !.attached = TRUE]]
           /\ UNCHANGED <<db, verified>>
    <2>1. Busy(t)
        BY <1>1, <1>3 DEF Busy
    <2>2. info[p].status # "SUCCESS" \/ p \in doubled
        BY <2>1 DEF VerifiedInv, BusyIsUnfinished
    <2>3. /\ threads'[t] = [FreeThread EXCEPT
                 !.pc = "submitted", !.pkg = p, !.status = info[p].status, !.attached = TRUE]
          /\ \A u \in ThreadIds : u # t => threads'[u] = threads[u]
        BY <1>0, <1>3 DEF ThreadPool
    <2>4. /\ threads'[t].pc = "submitted" /\ threads'[t].pkg = p
          /\ threads'[t].status = info[p].status /\ threads'[t].report = "INIT"
        BY <2>3 DEF FreeThread
    <2>5. TameThread(t)
        BY <1>3, <2>1, <2>2, <2>4 DEF TameThread, Succeeding, Busy
    <2>6. Tame
        BY <2>3, <2>5 DEF Tame, TameThread, Busy, Succeeding
    <2>7. InfoTame
        <3>1. \A q \in Packages : info[q] \in InfoRec
            BY DEF Types, InfoType
        <3>2. /\ info'[p] = [info[p] EXCEPT !.retryTimes = @ + 1]
              /\ \A q \in Packages : q # p => info'[q] = info[q]
            BY <1>0, <1>3 DEF Types, InfoType
        <3> QED BY <1>0, <3>1, <3>2 DEF InfoTame, InfoRec
    <2>8. RowsTame
        BY <1>1, <1>3 DEF RowsTame
    <2>9. StartTame
        BY <1>1, <2>7 DEF StartTame
    <2> QED BY <1>1, <2>6, <2>7, <2>8, <2>9, TameKeeps
<1>4. CASE /\ threads[t].attached
           /\ IF r = "DOWNLOADING" /\ isStopCallback
              THEN UNCHANGED <<info, db>>
              ELSE UpdateDownloadInfo(p, IF r = "RETRY" THEN "FAIL" ELSE r)
           /\ threads' = Unlinked([threads EXCEPT ![t].pc = "snap"],
                                  IF r = "FAIL" THEN {p} ELSE {})
           /\ verified' = IF r = "FAIL" THEN verified \ {p} ELSE verified
    <2>1. /\ \A u \in ThreadIds : u # t => Alike(threads'[u], threads[u])
          /\ threads'[t].pc = "snap" /\ threads'[t].report = r /\ threads'[t].pkg = p
          /\ threads'[t].attached => threads[t].attached
        <3> DEFINE T == [threads EXCEPT ![t].pc = "snap"]
        <3>1. T[t] = [threads[t] EXCEPT !.pc = "snap"] /\ \A u \in ThreadIds : u # t => T[u] = threads[u]
            BY <1>0 DEF ThreadPool
        <3>2. T \in ThreadPool
            <4>1. "snap" \in ThreadPcs /\ "INIT" \in TaskStatuses /\ "INIT" \in DownloadStatuses
                BY TaskStatusIsStatus DEF ThreadPcs
            <4> QED BY <4>1, ThreadStepType DEF Types
        <3> HIDE DEF T
        <3>3. threads' = Unlinked(T, IF r = "FAIL" THEN {p} ELSE {})
            BY <1>4 DEF T
        <3>4. \A u \in ThreadIds : Alike(threads'[u], T[u])
            BY <3>2, <3>3, UnlinkedAlike
        <3>5. T[t].pc = "snap" /\ T[t].report = r /\ T[t].pkg = p /\ T[t].attached = threads[t].attached
            BY <1>0, <3>1 DEF ThreadRec
        <3> QED BY <3>1, <3>4, <3>5 DEF Alike
    <2>2. /\ info'[p].status = "SUCCESS" => info[p].status = "SUCCESS" \/ r = "SUCCESS"
          /\ \A q \in Packages : q # p => info'[q] = info[q]
        <3>1. info[p] \in InfoRec
            BY <1>0 DEF Types, InfoType
        <3>2. CASE UNCHANGED <<info, db>>
            BY <3>2
        <3>3. CASE UpdateDownloadInfo(p, IF r = "RETRY" THEN "FAIL" ELSE r)
            <4>1. /\ info'[p] = [info[p] EXCEPT !.status = IF r = "RETRY" THEN "FAIL" ELSE r]
                  /\ \A q \in Packages : q # p => info'[q] = info[q]
                BY <1>0, <3>3 DEF UpdateDownloadInfo, Types, InfoType
            <4> QED BY <3>1, <4>1 DEF InfoRec
        <3> QED BY <1>4, <3>2, <3>3
    <2>3. /\ db[p] = "none" => db'[p] = "none"
          /\ db'[p] = "SUCCESS" => r = "SUCCESS" \/ (r # "FAIL" /\ db[p] = "SUCCESS")
          /\ \A q \in Packages : q # p => db'[q] = db[q]
        <3>1. CASE r = "DOWNLOADING" /\ UNCHANGED <<info, db>>
            BY <3>1
        <3>2. CASE UpdateDownloadInfo(p, IF r = "RETRY" THEN "FAIL" ELSE r)
            BY <1>0, <3>2 DEF UpdateDownloadInfo, Types, DbType
        <3> QED BY <1>4, <3>1, <3>2
    <2>4. Busy(t) /\ (r = "SUCCESS" => Succeeding(t))
        BY <1>1, <1>4 DEF Busy, Succeeding
    <2>5. \A u \in ThreadIds : u # t /\ Busy(u) /\ threads[u].pkg = p => p \in doubled
        BY <2>4 DEF VerifiedInv, OneWorksOnIt
    <2> HIDE DEF p, r
    <2>6. PersistedSuccessIsVerified'
        <3> SUFFICES ASSUME op.kind # "cancel", NEW q \in Packages, db'[q] = "SUCCESS"
                     PROVE  q \in verified' \cup doubled
            BY <1>1 DEF PersistedSuccessIsVerified
        <3>1. CASE q # p
            BY <1>4, <2>3, <3>1 DEF VerifiedInv, PersistedSuccessIsVerified
        <3>2. CASE q = p /\ r = "SUCCESS"
            <4>1. db[p] # "none"
                BY <2>3, <3>2
            <4>2. p \in verified \cup doubled
                BY <2>4, <3>2, <4>1 DEF VerifiedInv, ReportsAreVerified, p
            <4> QED BY <1>4, <3>2, <4>2
        <3>3. CASE q = p /\ r # "SUCCESS"
            BY <1>4, <2>3, <3>3 DEF VerifiedInv, PersistedSuccessIsVerified
        <3> QED BY <3>1, <3>2, <3>3
    <2>8. ReportsAreVerified'
        <3> SUFFICES ASSUME op.kind # "cancel", NEW u \in ThreadIds, Succeeding(u)',
                            db'[threads'[u].pkg] # "none"
                     PROVE  threads'[u].pkg \in verified' \cup doubled
            BY <1>1 DEF ReportsAreVerified
        <3>1. u # t /\ Succeeding(u) /\ Busy(u) /\ threads'[u].pkg = threads[u].pkg
            BY <2>1 DEF Succeeding, Busy, Alike
        <3>2. db[threads[u].pkg] # "none"
            BY <1>0, <2>3, <3>1
        <3>3. threads[u].pkg \in verified \cup doubled
            BY <3>1, <3>2 DEF VerifiedInv, ReportsAreVerified
        <3> QED BY <1>4, <2>5, <3>1, <3>3
    <2>9. OneWorksOnIt'
        <3>1. \A u \in ThreadIds : (threads'[u].attached => threads[u].attached)
                                   /\ threads'[u].pkg = threads[u].pkg
                                   /\ threads'[u].report = threads[u].report
                                   /\ (threads'[u].pc = threads[u].pc \/ u = t)
            BY <2>1 DEF Alike, p, r
        <3> QED BY <1>1, <2>4, <3>1 DEF VerifiedInv, OneWorksOnIt, Busy
    <2>10. BusyIsUnfinished'
        <3> SUFFICES ASSUME NEW u \in ThreadIds, Busy(u)', info'[threads'[u].pkg].status = "SUCCESS"
                     PROVE  threads'[u].pkg \in doubled
            BY <1>1 DEF BusyIsUnfinished
        <3>1. CASE u = t
            <4>1. r # "SUCCESS" /\ threads'[u].pkg = p
                BY <2>1, <3>1 DEF Busy
            <4> QED BY <2>2, <2>4, <3>1, <4>1 DEF VerifiedInv, BusyIsUnfinished, p
        <3>2. CASE u # t
            <4>1. Busy(u) /\ threads'[u].pkg = threads[u].pkg
                BY <2>1, <3>2 DEF Busy, Alike
            <4>2. CASE threads[u].pkg = p
                BY <2>5, <3>2, <4>1, <4>2
            <4>3. CASE threads[u].pkg # p
                BY <1>0, <2>2, <4>1, <4>3 DEF VerifiedInv, BusyIsUnfinished
            <4> QED BY <4>2, <4>3
        <3> QED BY <3>1, <3>2
    <2>11. SubmittedIsUnfinished'
        BY <1>1, <2>1 DEF VerifiedInv, SubmittedIsUnfinished, Alike
    <2>12. StartIsFresh'
        <3>1. op.kind = "start" => op.todo = {}
            BY DEF UpdateDownloadProgress, ServiceMutexFree
        <3> QED BY <1>1, <3>1 DEF StartIsFresh
    <2> QED BY <2>6, <2>8, <2>9, <2>10, <2>11, <2>12 DEF VerifiedInv
<1> QED BY <1>2, <1>3, <1>4 DEF UpdateDownloadProgress

(* A restart takes the rows as they are; it happens in no Cancel.          *)
LEMMA RestartKeeps ==
    ASSUME "cancel" \notin CrashPoints, Types, Types', VerifiedInv, Restart
    PROVE  VerifiedInv'
<1>1. threads' = [t \in ThreadIds |-> FreeThread] /\ op.kind # "cancel" /\ op' = NoOp
      /\ UNCHANGED <<verified, doubled>>
    BY DEF Restart
<1>2. \A u \in ThreadIds : threads'[u].pc = "free" /\ ~threads'[u].attached
    BY <1>1 DEF FreeThread
<1>3. Tame /\ NobodyWorks
    BY <1>2 DEF Tame, TameThread, NobodyWorks, Busy, Succeeding
<1>4. \A p \in Packages : /\ db'[p] = "SUCCESS" => db[p] = "SUCCESS"
                          /\ db'[p] # "none" => db[p] # "none"
    BY DEF Restart, RecoveredStatus
<1>5. RowsTame
    BY <1>1, <1>4 DEF RowsTame
<1>6. StartTame
    BY <1>1 DEF StartTame, NoOp
<1> QED BY <1>1, <1>3, <1>5, <1>6, TameKeeps

(* In the beginning nobody works and there is no row.                      *)
LEMMA InitVerified == Init => VerifiedInv
<1> SUFFICES ASSUME Init PROVE VerifiedInv
    OBVIOUS
<1>1. \A t \in ThreadIds : threads[t].pc = "free" /\ ~threads[t].attached
    BY DEF Init, FreeThread
<1>2. op.kind = "none" /\ \A p \in Packages : db[p] = "none"
    BY DEF Init, NoOp
<1> QED BY <1>1, <1>2 DEF VerifiedInv, PersistedSuccessIsVerified, ReportsAreVerified,
        OneWorksOnIt, BusyIsUnfinished, SubmittedIsUnfinished, StartIsFresh, Busy, Succeeding

(* Every step keeps the invariant.                                         *)
LEMMA NextVerified ==
    ASSUME "cancel" \notin CrashPoints, Types, Types', VerifiedInv, [Next]_vars
    PROVE  VerifiedInv'
<1>1. CASE ManagerNext
    BY <1>1, StartTaskKeeps, StartPackageKeeps, ResumePackageKeeps, ManagerKeeps, CancelKeeps
       DEF ManagerNext
<1>2. ASSUME NEW t \in ThreadIds, ThreadNext(t) PROVE VerifiedInv'
    BY <1>2, ThreadRunKeeps, UpdateKeeps, ThreadTaskKeeps, CallbackKeeps DEF ThreadNext
<1>3. CASE UNCHANGED vars
    <2>1. Tame
        BY <1>3, AlikeIsTame DEF Alike, vars
    <2> QED BY <1>3, <2>1, SameKeeps DEF vars
<1> QED BY <1>1, <1>2, <1>3, FirmwareKeeps, CallbackKeeps, RestartKeeps DEF Next

(* A row that says SUCCESS names a package that is on disk and passed      *)
(* sha256, for any number of packages, threads, retries, requests, network *)
(* changes and power losses: RestoreDownloadTask may trust it.  The two    *)
(* ways out are the ones the property and the hypothesis name: Resume      *)
(* starting a second thread on a package at work, and a power loss inside  *)
(* Cancel, which deletes the files before the rows.                        *)
THEOREM SuccessRowsAreVerified ==
    ASSUME "cancel" \notin CrashPoints
    PROVE  Spec => []PersistedSuccessIsVerified
<1>1. Types /\ Types' /\ VerifiedInv /\ [Next]_vars => VerifiedInv'
    BY NextVerified
<1>2. VerifiedInv => PersistedSuccessIsVerified
    BY DEF VerifiedInv
<1> QED BY <1>1, <1>2, InitVerified, TypesHold, PTL DEF Spec

-----------------------------------------------------------------------------
(* Up to the first cancellation                                            *)

(* Nobody has asked for a cancellation.  The theorems below are about the  *)
(* engine until somebody does: Cancel does not wait for the threads it     *)
(* stops, and what they report after it is filtered in part.               *)
Uncancelled == requests["cancel"] = 0

Running == {"DOWNLOADING", "VERIFYING"}

(* No operation is a cancellation, and CANCEL and PAUSE, which nothing but *)
(* Cancel and Pause brings, are nowhere.  A thread was told to cancel only *)
(* if its task object was replaced.                                        *)
CalmThread(t) ==
    /\ threads[t].attached => ~threads[t].cancel /\ threads[t].pc # "free"
    /\ threads[t].pc \notin {"sync", "remove"}
    /\ ~IsSyncCallback(threads[t].report) /\ ~IsSyncCallback(threads[t].snap)
    /\ threads[t].pc \notin {"free", "submitted"} => threads[t].report # "INIT"
CalmOps ==
    /\ ~tidy /\ op.kind # "cancel"
    /\ ~isStopCallback /\ ~isStopDownloadingCallback
CalmStatuses ==
    \A p \in Packages : ~IsSyncCallback(info[p].status) /\ ~IsSyncCallback(db[p])
CalmInv == CalmOps /\ CalmStatuses /\ \A t \in ThreadIds : CalmThread(t)

(* The thread threadMap_ has for a package is at work on it, and it keeps  *)
(* its place while OnNetChange walks through the map.                      *)
MappedIsBusy ==
    /\ \A p \in Packages : threadMap[p] # 0 =>
          /\ threads[threadMap[p]].attached /\ threads[threadMap[p]].pkg = p
          /\ threads[threadMap[p]].pc \in {"update", "snap", "record"} =>
                threads[threadMap[p]].report \in Running
    /\ op.kind = "net" => \A p \in op.todo : threadMap[p] # 0

(* A package that counts as running has a thread at work.                  *)
BusyOn(p) == \E t \in ThreadIds : Busy(t) /\ threads[t].pkg = p
RunningIsBusy == \A p \in pkgs : info[p].status \in Running => BusyOn(p)

(* A task in the map, or on its way there, has packages, and its threads   *)
(* are theirs.                                                             *)
TaskHasPackages ==
    /\ inMap => pkgs # {}
    /\ op.kind = "start" => pkgs = Packages
    /\ op.kind = "resume" => op.todo \subseteq pkgs
    /\ \A t \in ThreadIds : threads[t].attached => threads[t].pkg \in pkgs \/ pkgs = {}

PoolInv == MappedIsBusy /\ RunningIsBusy /\ TaskHasPackages

(* What the firmware believes and what the engine has: the flow behind the *)
(* callback is alive exactly while the firmware task is DOWNLOADING and    *)
(* the engine was called, and a clean-up finds the firmware task as the    *)
(* final status left it.                                                   *)
ClientInv ==
    /\ alive => /\ fw = "DOWNLOADING" /\ want = "none" /\ downloadTaskId
                /\ hasCallback /\ (inMap \/ op.kind = "start")
    /\ want # "none" => fw = "DOWNLOADING" /\ worker.pc # "remove" /\ downloadTaskId
    /\ fw = "DOWNLOADING" /\ want = "none" => alive
    /\ op.kind = "start" => alive
    /\ worker.pc = "remove" =>
          /\ IsFinal(worker.status) /\ fw = UpgradeStatus(worker.status)
          /\ ~inMap /\ op.kind # "start"

(* The end of the task is in the serial queue or in the worker's hands ... *)
EndInFlight ==
    \/ \E i \in 1..Len(queue) : IsTaskCompleted(queue[i])
    \/ worker.pc \in {"call", "deal"} /\ IsTaskCompleted(worker.status)

(* ... or a thread will look at the task's status when its work has ended, *)
(* or has looked and found the end.                                        *)
WillReport(t) ==
    \/ Busy(t)
    \/ threads[t].attached /\ threads[t].pc = "snap"
    \/ threads[t].attached /\ threads[t].pc = "record" /\ IsTaskCompleted(threads[t].snap)

(* The loop of Start or Resume still comes to the package.                 *)
HasTurn(p) == op.kind \in {"start", "resume"} /\ p \in op.todo

(* No end is forgotten: a package that has not begun has a thread or its   *)
(* turn is coming; somebody brings the end of the task; and an end that is *)
(* recorded, which IsProgressChanged will not report again, is on its way. *)
InitHasTurn ==
    alive => \A p \in pkgs : info[p].status = "INIT" => BusyOn(p) \/ HasTurn(p)
EndIsComing ==
    alive /\ ~lost =>
        \/ op.kind = "resume" \/ (op.kind = "start" /\ op.todo # {})
        \/ EndInFlight \/ \E t \in ThreadIds : WillReport(t)
RecordedIsOut ==
    alive /\ ~lost /\ IsTaskCompleted(status) => op.kind = "resume" \/ EndInFlight
EndInv == InitHasTurn /\ EndIsComing /\ RecordedIsOut

(* Outside Start the database has a row for every package or for none, and *)
(* the task in the map has every package.                                  *)
RowsInv ==
    /\ op.kind # "start" => \/ \A p \in Packages : db[p] = "none"
                            \/ \A p \in Packages : db[p] # "none"
    /\ op.kind = "start" => \A p \in Packages : db[p] # "none" \/ p \in op.todo
    /\ inMap => pkgs = Packages

(* The task of the engine is the firmware's download, which nobody is      *)
(* about to start again.                                                   *)
Current == (inMap \/ op.kind = "start") /\ downloadTaskId /\ want # "start"

Passed(p) == info[p].status = "SUCCESS" \/ p \in doubled
SuccessInFlight ==
    \/ \E i \in 1..Len(queue) : queue[i] = "SUCCESS"
    \/ worker.pc \in {"call", "deal"} /\ worker.status = "SUCCESS"
    \/ \E t \in ThreadIds :
          threads[t].attached /\ threads[t].pc = "record" /\ threads[t].snap = "SUCCESS"

(* A package of the current download that counts as a success was          *)
(* verified, a row waits for every report, and a SUCCESS on its way to the *)
(* firmware is that of every package.                                      *)
CurrentInv ==
    Current =>
        /\ \A p \in Packages : info[p].status = "SUCCESS" => p \in verified \cup doubled
        /\ \A p \in Packages : db[p] # "none" \/ (op.kind = "start" /\ p \in op.todo)
        /\ SuccessInFlight => \A p \in Packages : Passed(p)

(* Once the firmware has it no thread is left that could fail and delete a *)
(* file, and Resume has nothing to start.                                  *)
SucceededInv ==
    fw = "DOWNLOAD_SUCCESS" =>
        /\ Packages \subseteq verified \cup doubled
        /\ \A t \in ThreadIds : Busy(t) => threads[t].pkg \in doubled
        /\ op.kind = "resume" => \A p \in Packages : Passed(p)

-----------------------------------------------------------------------------
(* The status of a task whose packages have the statuses f[p]              *)

(* SUCCESS means SUCCESS of every package, and conversely.                 *)
LEMMA SuccessIsOfAll ==
    ASSUME NEW f
    PROVE  /\ TaskStatus(f) = "SUCCESS" => \A p \in DOMAIN f : f[p] = "SUCCESS"
           /\ DOMAIN f # {} /\ (\A p \in DOMAIN f : f[p] = "SUCCESS") => TaskStatus(f) = "SUCCESS"
BY DEF TaskStatus, CalcDownloadTaskStatus

(* A task whose packages have all ended has ended.                         *)
LEMMA EndedIsCompleted ==
    ASSUME NEW f, DOMAIN f # {}, \A p \in DOMAIN f : f[p] \in DownloadStatuses,
           \A p \in DOMAIN f : f[p] \notin {"INIT", "DOWNLOADING", "VERIFYING"}
    PROVE  IsTaskCompleted(TaskStatus(f))
BY DEF TaskStatus, CalcDownloadTaskStatus, IsTaskCompleted, DownloadStatuses

(* Without a CANCEL or a PAUSE among the packages the task is neither.     *)
LEMMA CalmTaskStatus ==
    ASSUME NEW f, \A p \in DOMAIN f : ~IsSyncCallback(f[p])
    PROVE  ~IsSyncCallback(TaskStatus(f))
BY DEF TaskStatus, CalcDownloadTaskStatus, IsSyncCallback

(* A final task has no package at work.                                    *)
LEMMA FinalHasNoRunning ==
    ASSUME NEW f, IsFinal(TaskStatus(f))
    PROVE  \A p \in DOMAIN f : f[p] \notin Running
BY DEF TaskStatus, CalcDownloadTaskStatus, IsFinal, Running

-----------------------------------------------------------------------------
(* The steps of an engine nobody has cancelled                             *)

(* A clean-up by the firmware, whoever it is that asks for it.             *)
CleanUpStep ==
    ReportFinishedDownload \/ ResumeRunningFails \/ ResumeMissingTask \/ WorkerRemove

(* A step of a thread by itself.                                           *)
RunStep(t) ==
    \/ DownloadVersion(t) \/ DoDownload(t) \/ DoVerify(t)
    \/ CheckStopFlag(t) \/ RemoveThread(t)

(* Next without the cancellations, with the thread's own steps together.   *)
CalmNext ==
    \/ NewVersionFound \/ PerformDownload \/ PerformResumeDownload
    \/ CleanUpStep
    \/ StartTask \/ (\E p \in Packages : StartPackage(p)) \/ EnsureInsert
    \/ ResumeTask \/ (\E p \in Packages : ResumePackage(p)) \/ ResumeFinish
    \/ OnNetAvailable \/ OnNetIgnored \/ OnNetLost
    \/ (\E p \in Packages : NetPausePackage(p)) \/ NetLostFinish
    \/ (\E t \in ThreadIds : RunStep(t))
    \/ (\E t \in ThreadIds : UpdateDownloadProgress(t))
    \/ (\E t \in ThreadIds : GetTaskProgress(t))
    \/ (\E t \in ThreadIds : UpdateTaskProgress(t))
    \/ TakeCallback \/ TimedTask \/ CallbackProgress \/ WorkerDealCallBack
    \/ NetChanges \/ Restart

(* Requests are counted and never forgotten.                               *)
LEMMA RequestsGrow ==
    ASSUME Types, [Next]_vars
    PROVE  \/ UNCHANGED requests \/ Request("download") \/ Request("resume")
           \/ Request("cancel") \/ Request("net")
<1>1. CASE FirmwareNext
    BY <1>1 DEF FirmwareNext, NewVersionFound, PerformDownload, PerformResumeDownload,
          ReportFinishedDownload, ResumeRunningFails, DoCancel, DoCancelCleanUp
<1>2. CASE ManagerNext
    BY <1>2 DEF ManagerNext, StartTask, StartPackage, EnsureInsert, ResumeTask, ResumeMissingTask,
          ResumePackage, ResumeFinish, CancelTask, CancelPackage, CancelRecord, CancelCallback,
          CancelFinish, OnNetAvailable, OnNetIgnored, OnNetLost, NetPausePackage, NetLostFinish,
          client
<1>3. ASSUME NEW t \in ThreadIds, ThreadNext(t) PROVE UNCHANGED requests
    BY <1>3 DEF ThreadNext, DownloadVersion, DoDownload, DoVerify, CheckStopFlag, RemoveThread,
          UpdateDownloadProgress, GetTaskProgress, UpdateTaskProgress, ThreadSyncCallback,
          ThreadRemove, client
<1>4. CASE WorkerNext
    BY <1>4 DEF WorkerNext, TakeCallback, TimedTask, CallbackProgress, WorkerDealCallBack,
          WorkerRemove, client
<1>5. CASE NetChanges \/ Restart \/ UNCHANGED vars
    BY <1>5 DEF NetChanges, Restart, vars
<1> QED BY <1>1, <1>2, <1>3, <1>4, <1>5 DEF Next

(* A step that is no cancellation was not preceded by one.                 *)
LEMMA StaysUncancelled ==
    ASSUME Types, [Next]_vars, Uncancelled'
    PROVE  Uncancelled /\ ~Request("cancel")
<1>1. requests \in [{"download", "resume", "cancel", "net"} -> Nat]
    BY BudgetKeys DEF Types, RequestType
<1>2. ~Request("cancel")
    BY <1>1 DEF Request, Uncancelled
<1>3. \A r \in {"download", "resume", "net"} : Request(r) => requests'["cancel"] = requests["cancel"]
    BY <1>1 DEF Request
<1> QED BY <1>2, <1>3, RequestsGrow DEF Uncancelled

(* Nothing of a cancellation is enabled.                                   *)
LEMMA CalmSteps ==
    ASSUME Types, [Next]_vars, Uncancelled', CalmInv
    PROVE  [CalmNext]_vars
<1>1. ~Request("cancel") /\ ~tidy /\ op.kind # "cancel"
      /\ \A t \in ThreadIds : threads[t].pc \notin {"sync", "remove"}
    BY StaysUncancelled DEF CalmInv, CalmOps, CalmThread
<1>2. CASE FirmwareNext
    BY <1>1, <1>2 DEF FirmwareNext, DoCancel, DoCancelCleanUp, CalmNext, CleanUpStep
<1>3. CASE ManagerNext
    BY <1>1, <1>3 DEF ManagerNext, CancelTask, CancelPackage, CancelRecord, CancelCallback,
          CancelFinish, CalmNext, CleanUpStep
<1>4. ASSUME NEW t \in ThreadIds, ThreadNext(t) PROVE CalmNext
    BY <1>1, <1>4 DEF ThreadNext, ThreadSyncCallback, ThreadRemove, CalmNext, RunStep
<1>5. CASE WorkerNext
    BY <1>5 DEF WorkerNext, CalmNext, CleanUpStep
<1> QED BY <1>2, <1>3, <1>4, <1>5 DEF Next, CalmNext

-----------------------------------------------------------------------------
(* What the steps do to the threads                                        *)

(* Threads that differ in nothing but autoPause and gone.                  *)
Same(r, x) ==
    /\ r.pc = x.pc /\ r.pkg = x.pkg /\ r.status = x.status /\ r.report = x.report
    /\ r.snap = x.snap /\ r.attached = x.attached /\ r.cancel = x.cancel
SamePool == \A u \in ThreadIds : Same(threads'[u], threads[u])
OthersSame(t) == \A u \in ThreadIds \ {t} : Same(threads'[u], threads[u])

(* A thread the pool has room for again.                                   *)
Freed(r) == r.pc = "free" /\ ~r.attached /\ ~r.cancel /\ r.report = "INIT" /\ r.snap = "INIT"

(* A thread that was just submitted for the package p.                     *)
Fresh(r, p) ==
    /\ r.pc = "submitted" /\ r.pkg = p /\ r.attached /\ ~r.cancel
    /\ r.report = "INIT" /\ r.snap = "INIT"

(* A thread is itself.                                                     *)
LEMMA SameItself ==
    /\ \A r : Same(r, r)
    /\ threads' = threads => SamePool
BY DEF Same, SamePool

(* A thread that did not change does and will do what it did.              *)
LEMMA SameWork ==
    ASSUME NEW u, Same(threads'[u], threads[u])
    PROVE  /\ Busy(u)' <=> Busy(u)
           /\ WillReport(u)' <=> WillReport(u)
           /\ CalmThread(u) => CalmThread(u)'
BY DEF Same, Busy, WillReport, CalmThread

(* Deleting files changes nothing but gone.                                *)
LEMMA UnlinkedSame ==
    ASSUME NEW ths \in ThreadPool, NEW P
    PROVE  \A u \in ThreadIds : Same(Unlinked(ths, P)[u], ths[u])
<1> SUFFICES ASSUME NEW u \in ThreadIds PROVE Same(Unlinked(ths, P)[u], ths[u])
    OBVIOUS
<1>1. ths[u] \in ThreadRec
    BY DEF ThreadPool
<1>2. \E b : Unlinked(ths, P)[u] = [ths[u] EXCEPT !.gone = b]
    BY DEF Unlinked
<1> QED BY <1>1, <1>2 DEF Same, ThreadRec

(* The thread that StartDownloadThread constructs, and where it puts it.   *)
LEMMA FreshThread ==
    ASSUME Types, NEW p \in Packages, NEW s, StartDownloadThread(p, s)
    PROVE  \E t \in ThreadIds :
              /\ threads[t].pc = "free" /\ Fresh(threads'[t], p) /\ OthersSame(t)
              /\ threadMap' = [threadMap EXCEPT ![p] = t]
<1>1. PICK t \in ThreadIds \ Live :
        /\ threads' = [threads EXCEPT ![t] = [FreeThread EXCEPT !.pc = "submitted", !.pkg = p,
                                !.status = s, !.attached = TRUE]]
        /\ threadMap' = [threadMap EXCEPT ![p] = t]
    BY DEF StartDownloadThread
<1>2. threads'[t] = [FreeThread EXCEPT !.pc = "submitted", !.pkg = p,
                                !.status = s, !.attached = TRUE]
      /\ \A u \in ThreadIds \ {t} : threads'[u] = threads[u]
    BY <1>1 DEF Types, PoolType, ThreadPool
<1>3. Fresh(threads'[t], p)
    BY <1>2 DEF FreeThread, Fresh
<1>4. threads[t].pc = "free"
    BY <1>1 DEF Live
<1> QED BY <1>1, <1>2, <1>3, <1>4, SameItself DEF OthersSame

(* A thread whose report is out of its hands works on or is gone.          *)
LEMMA AfterReportWork ==
    ASSUME PoolType, NEW t \in ThreadIds, threads' = AfterReport(t)
    PROVE  /\ OthersSame(t)
           /\ \/ /\ threads[t].report \in Running
                 /\ threads'[t].pc \in {"running", "verifying"} /\ threads'[t].snap = "INIT"
                 /\ threads'[t].attached = threads[t].attached
                 /\ threads'[t].pkg = threads[t].pkg /\ threads'[t].cancel = threads[t].cancel
                 /\ threads'[t].report = threads[t].report
              \/ threads[t].report \notin Running /\ Freed(threads'[t])
<1> DEFINE r == threads[t]
           n == CASE r.report = "DOWNLOADING" -> [r EXCEPT !.pc = "running", !.snap = "INIT"]
                  [] r.report = "VERIFYING"   -> [r EXCEPT !.pc = "verifying", !.snap = "INIT"]
                  [] OTHER                    -> FreeThread
<1>1. r \in ThreadRec
    BY DEF PoolType, ThreadPool
<1>2. threads' = [threads EXCEPT ![t] = n]
    BY DEF AfterReport
<1>3. \/ n = [r EXCEPT !.pc = "running", !.snap = "INIT"] /\ r.report = "DOWNLOADING"
      \/ n = [r EXCEPT !.pc = "verifying", !.snap = "INIT"] /\ r.report = "VERIFYING"
      \/ n = FreeThread /\ r.report \notin {"DOWNLOADING", "VERIFYING"}
    <2>1. r.report = "DOWNLOADING" => n = [r EXCEPT !.pc = "running", !.snap = "INIT"]
        <3> HIDE DEF r
        <3> QED OBVIOUS
    <2>2. r.report = "VERIFYING" => n = [r EXCEPT !.pc = "verifying", !.snap = "INIT"]
        <3> HIDE DEF r
        <3> QED OBVIOUS
    <2>3. r.report # "DOWNLOADING" /\ r.report # "VERIFYING" => n = FreeThread
        <3> HIDE DEF r
        <3> QED OBVIOUS
    <2> HIDE DEF n, r
    <2> QED BY <2>1, <2>2, <2>3
<1>4. threads'[t] = n /\ \A u \in ThreadIds \ {t} : threads'[u] = threads[u]
    <2> HIDE DEF n
    <2> QED BY <1>2 DEF PoolType, ThreadPool
<1>5. Freed(FreeThread)
    BY DEF Freed, FreeThread
<1>6. OthersSame(t)
    BY <1>4, SameItself DEF OthersSame
<1> HIDE DEF n
<1>7. \/ /\ r.report \in Running
         /\ n.pc \in {"running", "verifying"} /\ n.snap = "INIT"
         /\ n.attached = r.attached
         /\ n.pkg = r.pkg /\ n.cancel = r.cancel /\ n.report = r.report
      \/ r.report \notin Running /\ Freed(n)
    <2> HIDE DEF r
    <2> QED BY <1>1, <1>3, <1>5 DEF ThreadRec, Running
<1> QED BY <1>4, <1>6, <1>7

(* The threads at work are still at work ...                               *)
KeepsBusy == \A u \in ThreadIds : Busy(u) => Busy(u)' /\ threads'[u].pkg = threads[u].pkg
(* ... or still to report, and no thread takes up work or looks at a       *)
(* SUCCESS of the task anew.                                               *)
KeepsReport == \A u \in ThreadIds : WillReport(u) => WillReport(u)'
GainsNone ==
    \A u \in ThreadIds :
        /\ threads'[u].attached => threads[u].attached /\ threads'[u].pkg = threads[u].pkg
        /\ Busy(u)' => Busy(u)
SnapsSuccess(u) ==
    threads[u].attached /\ threads[u].pc = "record" /\ threads[u].snap = "SUCCESS"
GainsNoSuccess == \A u \in ThreadIds : SnapsSuccess(u)' => SnapsSuccess(u)

(* Threads that stay as they are keep all this.                            *)
LEMMA SameKeepsWork ==
    ASSUME SamePool
    PROVE  /\ KeepsBusy /\ KeepsReport /\ GainsNone /\ GainsNoSuccess
           /\ (\A u \in ThreadIds : CalmThread(u)) => \A u \in ThreadIds : CalmThread(u)'
<1>1. \A u \in ThreadIds : Same(threads'[u], threads[u])
    BY DEF SamePool
<1> QED BY <1>1, SameWork
        DEF Same, KeepsBusy, KeepsReport, GainsNone, GainsNoSuccess, SnapsSuccess

(* So does a new thread, but that it works.                                *)
LEMMA FreshKeepsWork ==
    ASSUME NEW t \in ThreadIds, NEW p, threads[t].pc = "free", CalmThread(t),
           Fresh(threads'[t], p), OthersSame(t)
    PROVE  KeepsBusy /\ KeepsReport /\ GainsNoSuccess /\ Busy(t)' /\ CalmThread(t)'
<1>1. ~Busy(t) /\ ~WillReport(t) /\ ~SnapsSuccess(t)'
    BY DEF CalmThread, Busy, WillReport, SnapsSuccess, Fresh
<1>2. Busy(t)' /\ CalmThread(t)'
    BY DEF Fresh, Busy, CalmThread, IsSyncCallback
<1> QED BY <1>1, <1>2, SameWork
        DEF OthersSame, Same, KeepsBusy, KeepsReport, GainsNoSuccess, SnapsSuccess

(* A thread that has reported goes on with its work, if it was a report in *)
(* between.                                                                *)
LEMMA AfterReportKeepsWork ==
    ASSUME Types, NEW t \in ThreadIds, threads' = AfterReport(t), CalmThread(t),
           threads[t].pc \notin {"free", "submitted"}
    PROVE  /\ OthersSame(t) /\ GainsNone /\ GainsNoSuccess /\ CalmThread(t)'
           /\ threads[t].report \in Running \/ ~Busy(t) => KeepsBusy
           /\ threads[t].report \notin Running => ~threads'[t].attached
           /\ threads[t].report \in Running => threads'[t].attached = threads[t].attached
           /\ threads'[t].pc \in {"running", "verifying", "free"}
<1>1. /\ OthersSame(t)
      /\ \/ /\ threads[t].report \in Running
            /\ threads'[t].pc \in {"running", "verifying"} /\ threads'[t].snap = "INIT"
            /\ threads'[t].attached = threads[t].attached
            /\ threads'[t].pkg = threads[t].pkg /\ threads'[t].cancel = threads[t].cancel
            /\ threads'[t].report = threads[t].report
         \/ threads[t].report \notin Running /\ Freed(threads'[t])
    BY AfterReportWork DEF Types
<1>2. CASE /\ threads[t].report \in Running
           /\ threads'[t].pc \in {"running", "verifying"} /\ threads'[t].snap = "INIT"
           /\ threads'[t].attached = threads[t].attached
           /\ threads'[t].pkg = threads[t].pkg /\ threads'[t].cancel = threads[t].cancel
           /\ threads'[t].report = threads[t].report
    <2>1. CalmThread(t)'
        BY <1>2 DEF CalmThread, IsSyncCallback, Running
    <2>2. Busy(t)' <=> Busy(t)
        BY <1>2 DEF Busy, Running
    <2>3. ~SnapsSuccess(t)'
        BY <1>2 DEF SnapsSuccess
    <2> QED BY <1>1, <1>2, <2>1, <2>2, <2>3, SameWork
            DEF OthersSame, Same, KeepsBusy, GainsNone, GainsNoSuccess, SnapsSuccess
<1>3. CASE threads[t].report \notin Running /\ Freed(threads'[t])
    <2>1. CalmThread(t)' /\ ~Busy(t)' /\ ~SnapsSuccess(t)'
        BY <1>3 DEF CalmThread, IsSyncCallback, Freed, Busy, SnapsSuccess
    <2> QED BY <1>1, <1>3, <2>1, SameWork
            DEF OthersSame, Same, KeepsBusy, GainsNone, GainsNoSuccess, SnapsSuccess, Freed
<1> QED BY <1>1, <1>2, <1>3

(* All the invariants look at, but for the threads and the files.          *)
taskSide == <<fw, downloadTaskId, alive, want, requests, tidy, op, inMap, hasCallback,
              isStopDownloadingCallback, isStopCallback, pkgs, info, status, db, queue, worker,
              handed, lost, doubled, overlapped>>

(* A step of a thread by itself: it works on, and before it reports an end *)
(* it leaves threadMap_.                                                   *)
RunOutcome(t) ==
    /\ OthersSame(t) /\ CalmThread(t)'
    /\ threads'[t].attached = threads[t].attached
    /\ threads[t].attached => threads'[t].pkg = threads[t].pkg
    /\ threads[t].pc \in {"submitted", "running", "verifying", "check", "leave"}
    /\ threads'[t].pc \in {"check", "running", "verifying", "update", "leave", "free"}
    /\ \/ threadMap' = threadMap /\ (threads'[t].pc = "update" => threads'[t].report \in Running)
       \/ threadMap' = threadMap /\ ~threads[t].attached
       \/ /\ threads[t].attached /\ ServiceMutexFree
          /\ threadMap' = [threadMap EXCEPT ![threads[t].pkg] = 0]

(* A step of a thread by itself has such an outcome and touches nothing of *)
(* the task; it deletes no file.                                           *)
LEMMA RunWork ==
    ASSUME Types, CalmInv, NEW t \in ThreadIds, RunStep(t)
    PROVE  RunOutcome(t) /\ UNCHANGED taskSide /\ verified \subseteq verified'
<1>0. PoolType /\ CalmThread(t) /\ ~isStopCallback
    BY DEF Types, CalmInv, CalmOps
<1>c. threads[t] \in ThreadRec
    BY <1>0 DEF PoolType, ThreadPool
<1> DEFINE T == threads'
<1>a. ASSUME NEW c \in {"check"}, NEW s, ~IsSyncCallback(s), s # "INIT",
             \/ T = [threads EXCEPT ![t].pc = c, ![t].report = s]
             \/ \E x : T = [threads EXCEPT ![t].pc = c, ![t].report = s, ![t].status = x],
             threads[t].pc \in {"submitted", "running", "verifying"}, threadMap' = threadMap
      PROVE  RunOutcome(t)
    <2>1. /\ \A u \in ThreadIds \ {t} : T[u] = threads[u]
          /\ T[t].pc = c /\ T[t].report = s /\ T[t].snap = threads[t].snap
          /\ T[t].attached = threads[t].attached /\ T[t].pkg = threads[t].pkg
          /\ T[t].cancel = threads[t].cancel
        <3>1. CASE T = [threads EXCEPT ![t].pc = c, ![t].report = s]
            BY <1>0, <1>c, <3>1 DEF PoolType, ThreadPool, ThreadRec
        <3>2. CASE \E x : T = [threads EXCEPT ![t].pc = c, ![t].report = s, ![t].status = x]
            <4>1. PICK x : T = [threads EXCEPT ![t].pc = c, ![t].report = s, ![t].status = x]
                BY <3>2
            <4>2. /\ T[t] = [threads[t] EXCEPT !.pc = c, !.report = s, !.status = x]
                  /\ \A u \in ThreadIds \ {t} : T[u] = threads[u]
                BY <1>0, <4>1 DEF PoolType, ThreadPool
            <4> QED BY <1>c, <4>2 DEF ThreadRec
        <3> QED BY <1>a, <3>1, <3>2
    <2> QED BY <1>0, <1>a, <2>1, SameItself DEF RunOutcome, OthersSame, CalmThread
<1>b. ASSUME threads' = [threads EXCEPT ![t] = FreeThread], threads[t].cancel,
             threads[t].pc \in {"running", "verifying"}, threadMap' = threadMap
      PROVE  RunOutcome(t)
    <2>1. threads'[t] = FreeThread /\ \A u \in ThreadIds \ {t} : threads'[u] = threads[u]
        BY <1>0, <1>b DEF PoolType, ThreadPool
    <2>2. threads'[t].pc = "free" /\ ~threads'[t].attached /\ CalmThread(t)'
        BY <2>1 DEF FreeThread, CalmThread, IsSyncCallback
    <2>3. ~threads[t].attached /\ threads[t].attached \in BOOLEAN /\ threads'[t].attached \in BOOLEAN
        BY <1>0, <1>b, <2>1 DEF CalmThread, PoolType, ThreadPool, ThreadRec, FreeThread
    <2> QED BY <1>b, <2>1, <2>2, <2>3, SameItself DEF RunOutcome, OthersSame
<1>1. CASE DownloadVersion(t)
    <2> DEFINE s == threads[t].status
               r == IF s = "VERIFYING" THEN s ELSE "DOWNLOADING"
               e == IF s = "FAIL" THEN "RETRY" ELSE s
    <2>1. threads[t].pc = "submitted" /\ UNCHANGED taskSide /\ verified' = verified
          /\ threadMap' = threadMap
        BY <1>1 DEF DownloadVersion, taskSide, client, task, serial, ghosts
    <2>2. CASE IsCompleted(s)
        <3>1. Report(t, e) /\ ~IsSyncCallback(e) /\ e # "INIT"
            BY <1>1, <2>2 DEF DownloadVersion, IsCompleted, IsSyncCallback
        <3> HIDE DEF s, e
        <3> QED BY <1>a, <2>1, <3>1 DEF Report
    <2>3. CASE ~IsCompleted(s)
        <3>1. /\ T = [threads EXCEPT ![t].pc = "check", ![t].report = r, ![t].status = r]
              /\ ~IsSyncCallback(r) /\ r # "INIT"
            BY <1>1, <2>3 DEF DownloadVersion, IsSyncCallback
        <3> HIDE DEF s, r, T
        <3> QED BY <1>a, <2>1, <3>1
    <2> QED BY <2>2, <2>3
<1>2. CASE DoDownload(t)
    <2>1. threads[t].pc = "running" /\ UNCHANGED taskSide /\ verified' = verified
          /\ threadMap' = threadMap
        BY <1>2 DEF DoDownload, taskSide, client, task, serial, ghosts
    <2>2. CASE threads[t].cancel /\ threads' = [threads EXCEPT ![t] = FreeThread]
        BY <1>b, <2>1, <2>2
    <2>3. CASE \E s \in {"RETRY", "FAIL", "AUTO_PAUSE"} : Report(t, s)
        <3>1. PICK s \in {"RETRY", "FAIL", "AUTO_PAUSE"} : Report(t, s)
            BY <2>3
        <3>2. ~IsSyncCallback(s) /\ s # "INIT"
            BY DEF IsSyncCallback
        <3> QED BY <1>a, <2>1, <3>1, <3>2 DEF Report
    <2>4. CASE threads' = [threads EXCEPT ![t].pc = "check", ![t].report = "VERIFYING",
                                          ![t].status = "VERIFYING"]
        <3> DEFINE s == "VERIFYING"
        <3>1. ~IsSyncCallback(s) /\ s # "INIT"
            BY DEF IsSyncCallback
        <3>2. T = [threads EXCEPT ![t].pc = "check", ![t].report = s, ![t].status = s]
            BY <2>4
        <3> HIDE DEF s, T
        <3> QED BY <1>a, <2>1, <3>1, <3>2
    <2> QED BY <1>2, <2>1, <2>2, <2>3, <2>4 DEF DoDownload
<1>3. CASE DoVerify(t)
    <2>1. threads[t].pc = "verifying" /\ UNCHANGED taskSide /\ verified \subseteq verified'
          /\ threadMap' = threadMap
        BY <1>3 DEF DoVerify, taskSide, client, task, serial
    <2>2. CASE threads[t].cancel /\ threads' = [threads EXCEPT ![t] = FreeThread]
        BY <1>b, <2>1, <2>2
    <2>3. CASE \E s \in {"SUCCESS", "FAIL"} : Report(t, s)
        <3>1. PICK s \in {"SUCCESS", "FAIL"} : Report(t, s)
            BY <2>3
        <3>2. ~IsSyncCallback(s) /\ s # "INIT"
            BY DEF IsSyncCallback
        <3> QED BY <1>a, <2>1, <3>1, <3>2 DEF Report
    <2> QED BY <1>3, <2>1, <2>2, <2>3 DEF DoVerify
<1>4. CASE CheckStopFlag(t)
    <2>1. threads[t].pc = "check" /\ UNCHANGED taskSide /\ verified' = verified
          /\ threadMap' = threadMap
        BY <1>4 DEF CheckStopFlag, taskSide, client, task, serial, ghosts
    <2>2. CASE threads' = AfterReport(t) /\ ~threads[t].attached
        <3>1. /\ OthersSame(t) /\ GainsNone /\ CalmThread(t)'
              /\ threads'[t].pc \in {"running", "verifying", "free"}
            BY <1>0, <2>1, <2>2, AfterReportKeepsWork
        <3>2. threads'[t].attached = threads[t].attached
            <4>1. ~threads'[t].attached
                BY <2>2, <3>1 DEF GainsNone
            <4>2. threads[t].attached \in BOOLEAN
                BY <1>0 DEF PoolType, ThreadPool, ThreadRec
            <4>3. AfterReport(t) \in ThreadPool
                BY <1>0, AfterReportType
            <4>4. threads'[t].attached \in BOOLEAN
                BY <2>2, <4>3 DEF ThreadPool, ThreadRec
            <4> QED BY <2>2, <4>1, <4>2, <4>4
        <3> QED BY <2>1, <2>2, <3>1, <3>2 DEF RunOutcome
    <2>3. CASE \/ threads' = [threads EXCEPT ![t].pc = "update"] /\ threads[t].report \in Running
               \/ threads' = [threads EXCEPT ![t].pc = "leave"]
        <3>1. PICK c \in {"update", "leave"} : T = [threads EXCEPT ![t].pc = c]
                                  /\ (c = "update" => threads[t].report \in Running)
            BY <2>3
        <3>2. /\ \A u \in ThreadIds \ {t} : T[u] = threads[u]
              /\ T[t].pc = c /\ T[t].report = threads[t].report /\ T[t].snap = threads[t].snap
              /\ T[t].attached = threads[t].attached /\ T[t].pkg = threads[t].pkg
              /\ T[t].cancel = threads[t].cancel
            BY <1>0, <1>c, <3>1 DEF PoolType, ThreadPool, ThreadRec
        <3> QED BY <1>0, <2>1, <3>1, <3>2, SameItself DEF RunOutcome, OthersSame, CalmThread
    <2> QED BY <1>0, <1>4, <2>1, <2>2, <2>3 DEF CheckStopFlag, Running
<1>5. CASE RemoveThread(t)
    <2>1. threads[t].pc = "leave" /\ UNCHANGED taskSide /\ verified' = verified
          /\ ServiceMutexFree /\ T = [threads EXCEPT ![t].pc = "update"]
          /\ threadMap' = IF threads[t].attached
                    THEN [threadMap EXCEPT ![threads[t].pkg] = 0] ELSE threadMap
        BY <1>5 DEF RemoveThread, taskSide, client, task, serial, ghosts
    <2>2. /\ \A u \in ThreadIds \ {t} : T[u] = threads[u]
          /\ T[t].pc = "update" /\ T[t].report = threads[t].report /\ T[t].snap = threads[t].snap
          /\ T[t].attached = threads[t].attached /\ T[t].pkg = threads[t].pkg
          /\ T[t].cancel = threads[t].cancel
        BY <1>0, <1>c, <2>1 DEF PoolType, ThreadPool, ThreadRec
    <2> QED BY <1>0, <2>1, <2>2, SameItself DEF RunOutcome, OthersSame, CalmThread
<1> QED BY <1>1, <1>2, <1>3, <1>4, <1>5 DEF RunStep

(* Such a step leaves everybody at what they do.                           *)
LEMMA RunKeepsWork ==
    ASSUME NEW t \in ThreadIds, RunOutcome(t)
    PROVE  KeepsBusy /\ KeepsReport /\ GainsNone /\ GainsNoSuccess
<1>1. /\ Busy(t) <=> threads[t].attached
      /\ Busy(t)' <=> threads'[t].attached
      /\ WillReport(t) <=> Busy(t)
      /\ ~SnapsSuccess(t)'
    BY DEF RunOutcome, Busy, WillReport, SnapsSuccess
<1>2. \A u \in ThreadIds \ {t} : Same(threads'[u], threads[u])
    BY DEF RunOutcome, OthersSame
<1>3. WillReport(t) => WillReport(t)'
    BY <1>1 DEF RunOutcome, WillReport
<1> QED BY <1>1, <1>2, <1>3, SameWork
        DEF RunOutcome, Same, KeepsBusy, KeepsReport, GainsNone, GainsNoSuccess, SnapsSuccess

(* The outcomes of a report to DownloadService: it is dropped because the  *)
(* task object or the package is gone, ...                                 *)
DroppedReport(t) ==
    /\ ~threads[t].attached \/ threads[t].pkg \notin pkgs
    /\ threads' = AfterReport(t)
    /\ UNCHANGED <<threadMap, info, db, verified>>

(* ... the package is tried again by another thread, ...                   *)
RetriedReport(t) ==
    /\ threads[t].attached /\ threads[t].pkg \in pkgs /\ threads[t].report = "RETRY"
    /\ Fresh(threads'[t], threads[t].pkg) /\ OthersSame(t)
    /\ threadMap' = [threadMap EXCEPT ![threads[t].pkg] = t]
    /\ \A q \in Packages : info'[q].status = info[q].status
    /\ UNCHANGED <<db, verified>>

(* ... or it is recorded; a FAIL deletes the file.                         *)
Recorded(t) == IF threads[t].report = "RETRY" THEN "FAIL" ELSE threads[t].report
RecordedReport(t) ==
    /\ threads[t].attached /\ threads[t].pkg \in pkgs
    /\ threads'[t].pc = "snap" /\ threads'[t].attached /\ threads'[t].pkg = threads[t].pkg
    /\ threads'[t].report = threads[t].report /\ threads'[t].snap = threads[t].snap
    /\ threads'[t].cancel = threads[t].cancel
    /\ OthersSame(t)
    /\ info'[threads[t].pkg].status = Recorded(t)
    /\ \A q \in Packages \ {threads[t].pkg} : info'[q].status = info[q].status
    /\ db' = [db EXCEPT ![threads[t].pkg] = IF @ = "none" THEN @ ELSE Recorded(t)]
    /\ verified' = IF threads[t].report = "FAIL" THEN verified \ {threads[t].pkg} ELSE verified
    /\ UNCHANGED threadMap

(* All the invariants look at, but for the threads, the files and what a   *)
(* report writes.                                                          *)
taskRest == <<fw, downloadTaskId, alive, want, requests, tidy, op, inMap, hasCallback,
              isStopDownloadingCallback, isStopCallback, pkgs, status, queue, worker,
              handed, lost, doubled, overlapped>>

(* A report that is no CANCEL and no PAUSE has one of these three          *)
(* outcomes.                                                               *)
LEMMA UpdateWork ==
    ASSUME Types, CalmInv, NEW t \in ThreadIds, UpdateDownloadProgress(t)
    PROVE  /\ threads[t].pc = "update" /\ ServiceMutexFree /\ UNCHANGED taskRest
           /\ DroppedReport(t) \/ RetriedReport(t) \/ RecordedReport(t)
<1> DEFINE p == threads[t].pkg
           r == threads[t].report
<1>0. /\ PoolType /\ InfoType /\ DbType /\ threads[t] \in ThreadRec /\ p \in Packages
      /\ threads \in ThreadPool /\ ~isStopCallback
      /\ \A q \in Packages : info[q] \in InfoRec
    BY DEF Types, PoolType, ThreadPool, ThreadRec, CalmInv, CalmOps, InfoType
<1>1. threads[t].pc = "update" /\ ServiceMutexFree /\ UNCHANGED taskRest
    BY DEF UpdateDownloadProgress, taskRest, client, task, serial
<1>2. CASE /\ ~threads[t].attached \/ p \notin pkgs
           /\ threads' = AfterReport(t)
           /\ UNCHANGED <<threadMap, info, db, verified>>
    BY <1>1, <1>2 DEF DroppedReport
<1>3. CASE /\ threads[t].attached /\ p \in pkgs /\ r = "RETRY"
           /\ info' = [info EXCEPT ![p].retryTimes = @ + 1]
           /\ threads' = [threads EXCEPT ![t] = [FreeThread EXCEPT
                 !.pc = "submitted", !.pkg = p, !.status = info[p].status, !.attached = TRUE]]
           /\ threadMap' = [threadMap EXCEPT ![p] = t]
           /\ UNCHANGED <<db, verified>>
    <2>1. /\ threads'[t] = [FreeThread EXCEPT
                 !.pc = "submitted", !.pkg = p, !.status = info[p].status, !.attached = TRUE]
          /\ \A u \in ThreadIds \ {t} : threads'[u] = threads[u]
        BY <1>0, <1>3 DEF ThreadPool
    <2>2. Fresh(threads'[t], p)
        BY <2>1 DEF FreeThread, Fresh
    <2>3. OthersSame(t)
        BY <2>1, SameItself DEF OthersSame
    <2>4. \A q \in Packages : info'[q].status = info[q].status
        <3>1. /\ info'[p] = [info[p] EXCEPT !.retryTimes = @ + 1]
              /\ \A q \in Packages : q # p => info'[q] = info[q]
            BY <1>0, <1>3 DEF InfoType
        <3> QED BY <1>0, <3>1 DEF InfoRec
    <2> QED BY <1>1, <1>3, <2>2, <2>3, <2>4 DEF RetriedReport
<1>4. CASE /\ threads[t].attached /\ p \in pkgs
           /\ IF r = "DOWNLOADING" /\ isStopCallback
              THEN UNCHANGED <<info, db>>
              ELSE UpdateDownloadInfo(p, IF r = "RETRY" THEN "FAIL" ELSE r)
           /\ threads' = Unlinked([threads EXCEPT ![t].pc = "snap"],
                                  IF r = "FAIL" THEN {p} ELSE {})
           /\ verified' = IF r = "FAIL" THEN verified \ {p} ELSE verified
           /\ UNCHANGED threadMap
    <2>1. /\ OthersSame(t)
          /\ threads'[t].pc = "snap" /\ threads'[t].report = r /\ threads'[t].pkg = p
          /\ threads'[t].snap = threads[t].snap /\ threads'[t].cancel = threads[t].cancel
          /\ threads'[t].attached = threads[t].attached
        <3> DEFINE T == [threads EXCEPT ![t].pc = "snap"]
        <3>1. T[t] = [threads[t] EXCEPT !.pc = "snap"]
              /\ \A u \in ThreadIds \ {t} : T[u] = threads[u]
            BY <1>0 DEF ThreadPool
        <3>2. T \in ThreadPool
            <4>1. "snap" \in ThreadPcs /\ "INIT" \in TaskStatuses /\ "INIT" \in DownloadStatuses
                BY TaskStatusIsStatus DEF ThreadPcs
            <4> QED BY <1>0, <4>1, ThreadStepType
        <3> HIDE DEF T
        <3>3. threads' = Unlinked(T, IF r = "FAIL" THEN {p} ELSE {})
            BY <1>4 DEF T
        <3>4. \A u \in ThreadIds : Same(threads'[u], T[u])
            BY <3>2, <3>3, UnlinkedSame
        <3>5. T[t].pc = "snap" /\ T[t].report = r /\ T[t].pkg = p /\ T[t].attached = threads[t].attached
              /\ T[t].snap = threads[t].snap /\ T[t].cancel = threads[t].cancel
            BY <1>0, <3>1 DEF ThreadRec
        <3>6. OthersSame(t)
            <4>1. \A u \in ThreadIds \ {t} : Same(threads'[u], T[u]) /\ T[u] = threads[u]
                BY <3>1, <3>4
            <4> QED BY <4>1 DEF OthersSame
        <3>7. Same(threads'[t], T[t])
            BY <3>4
        <3> HIDE DEF p, r
        <3> QED BY <3>5, <3>6, <3>7 DEF Same
    <2>2. UpdateDownloadInfo(p, Recorded(t))
        BY <1>0, <1>4 DEF Recorded
    <2> HIDE DEF p, r
    <2>3. /\ info'[p] = [info[p] EXCEPT !.status = Recorded(t)]
          /\ \A q \in Packages \ {p} : info'[q] = info[q]
        BY <1>0, <2>2 DEF UpdateDownloadInfo, InfoType
    <2>4. /\ info'[p].status = Recorded(t)
          /\ \A q \in Packages \ {p} : info'[q].status = info[q].status
        BY <1>0, <2>3 DEF InfoRec
    <2>5. db' = [db EXCEPT ![p] = IF @ = "none" THEN @ ELSE Recorded(t)]
        BY <2>2 DEF UpdateDownloadInfo
    <2> QED BY <1>1, <1>4, <2>1, <2>4, <2>5 DEF RecordedReport, p, r
<1> QED BY <1>2, <1>3, <1>4 DEF UpdateDownloadProgress

(* The work after each of them.                                            *)
LEMMA UpdateKeepsWork ==
    ASSUME Types, CalmInv, NEW t \in ThreadIds, threads[t].pc = "update"
    PROVE  /\ DroppedReport(t) =>
                 /\ OthersSame(t) /\ GainsNone /\ GainsNoSuccess /\ CalmThread(t)'
                 /\ threads[t].report \in Running \/ ~Busy(t) => KeepsBusy
                 /\ threads[t].report \notin Running => ~threads'[t].attached
                 /\ threads[t].report \in Running => threads'[t].attached = threads[t].attached
                 /\ threads'[t].pc \in {"running", "verifying", "free"}
           /\ RetriedReport(t) =>
                 /\ KeepsBusy /\ KeepsReport /\ GainsNone /\ GainsNoSuccess
                 /\ Busy(t) /\ Busy(t)' /\ CalmThread(t)'
           /\ RecordedReport(t) =>
                 /\ KeepsReport /\ GainsNone /\ GainsNoSuccess
                 /\ Busy(t) /\ CalmThread(t)' /\ WillReport(t)'
                 /\ threads[t].report \in Running => KeepsBusy
<1>0. CalmThread(t)
    BY DEF CalmInv
<1>1. ASSUME DroppedReport(t)
      PROVE  /\ OthersSame(t) /\ GainsNone /\ GainsNoSuccess /\ CalmThread(t)'
             /\ threads[t].report \in Running \/ ~Busy(t) => KeepsBusy
             /\ threads[t].report \notin Running => ~threads'[t].attached
             /\ threads[t].report \in Running => threads'[t].attached = threads[t].attached
             /\ threads'[t].pc \in {"running", "verifying", "free"}
    BY <1>0, <1>1, AfterReportKeepsWork DEF DroppedReport
<1>2. ASSUME RetriedReport(t)
      PROVE  /\ KeepsBusy /\ KeepsReport /\ GainsNone /\ GainsNoSuccess
             /\ Busy(t) /\ Busy(t)' /\ CalmThread(t)'
    <2>1. /\ Busy(t) /\ Busy(t)' /\ CalmThread(t)' /\ WillReport(t)' /\ ~SnapsSuccess(t)'
          /\ threads'[t].pkg = threads[t].pkg /\ threads[t].attached
        BY <1>2 DEF RetriedReport, Fresh, Busy, WillReport, SnapsSuccess, CalmThread, IsSyncCallback
    <2>2. OthersSame(t)
        BY <1>2 DEF RetriedReport
    <2> QED BY <2>1, <2>2, SameWork
            DEF OthersSame, Same, KeepsBusy, KeepsReport, GainsNone, GainsNoSuccess, SnapsSuccess
<1>3. ASSUME RecordedReport(t)
      PROVE  /\ KeepsReport /\ GainsNone /\ GainsNoSuccess
             /\ Busy(t) /\ CalmThread(t)' /\ WillReport(t)'
             /\ threads[t].report \in Running => KeepsBusy
    <2>1. /\ Busy(t) /\ WillReport(t)' /\ ~SnapsSuccess(t)' /\ threads[t].attached
          /\ threads'[t].pkg = threads[t].pkg
          /\ threads[t].report \in Running => Busy(t)'
        BY <1>3 DEF RecordedReport, Busy, WillReport, SnapsSuccess, Running
    <2>2. CalmThread(t)'
        BY <1>0, <1>3 DEF RecordedReport, CalmThread
    <2>3. OthersSame(t)
        BY <1>3 DEF RecordedReport
    <2> QED BY <2>1, <2>2, <2>3, SameWork
            DEF OthersSame, Same, KeepsBusy, KeepsReport, GainsNone, GainsNoSuccess, SnapsSuccess
<1> QED BY <1>1, <1>2, <1>3

(* The look at the task's status, and what follows it.                     *)
LooksAtTask(t) ==
    /\ threads[t].attached /\ pkgs # {}
    /\ threads'[t].pc = "record" /\ threads'[t].snap = CurrentStatus
    /\ threads'[t].attached /\ threads'[t].pkg = threads[t].pkg
    /\ threads'[t].report = threads[t].report /\ threads'[t].cancel = threads[t].cancel
    /\ OthersSame(t)

(* GetTaskProgress looks at the task, or finds it gone and the thread goes *)
(* on.                                                                     *)
LEMMA LookWork ==
    ASSUME Types, CalmInv, NEW t \in ThreadIds, GetTaskProgress(t)
    PROVE  /\ threads[t].pc = "snap" /\ UNCHANGED taskSide
           /\ verified' = verified /\ threadMap' = threadMap
           /\ GainsNone /\ CalmThread(t)'
           /\ \/ LooksAtTask(t) /\ KeepsBusy
              \/ /\ ~threads[t].attached \/ pkgs = {}
                 /\ OthersSame(t) /\ GainsNoSuccess
                 /\ threads[t].report \in Running \/ ~Busy(t) => KeepsBusy
                 /\ threads[t].report \notin Running => ~threads'[t].attached
                 /\ threads[t].report \in Running => threads'[t].attached = threads[t].attached
                 /\ threads'[t].pc \in {"running", "verifying", "free"}
<1>0. CalmThread(t) /\ PoolType /\ threads[t] \in ThreadRec
    BY DEF CalmInv, Types, PoolType, ThreadPool
<1>1. threads[t].pc = "snap" /\ UNCHANGED taskSide /\ verified' = verified /\ threadMap' = threadMap
    BY DEF GetTaskProgress, taskSide, client, task, serial, ghosts
<1>2. CASE (~threads[t].attached \/ pkgs = {}) /\ threads' = AfterReport(t)
    <2>1. threads' = AfterReport(t) /\ threads[t].pc \notin {"free", "submitted"}
        BY <1>1, <1>2
    <2> QED BY <1>0, <1>1, <1>2, <2>1, AfterReportKeepsWork
<1>3. CASE /\ threads[t].attached /\ pkgs # {}
           /\ threads' = [threads EXCEPT ![t].pc = "record", ![t].snap = CurrentStatus]
    <2>1. /\ threads'[t] = [threads[t] EXCEPT !.pc = "record", !.snap = CurrentStatus]
          /\ \A u \in ThreadIds \ {t} : threads'[u] = threads[u]
        BY <1>0, <1>3 DEF PoolType, ThreadPool
    <2>2. /\ threads'[t].pc = "record" /\ threads'[t].snap = CurrentStatus
          /\ threads'[t].attached = threads[t].attached /\ threads'[t].pkg = threads[t].pkg
          /\ threads'[t].report = threads[t].report /\ threads'[t].cancel = threads[t].cancel
        BY <1>0, <2>1 DEF ThreadRec
    <2>3. LooksAtTask(t)
        BY <1>3, <2>1, <2>2, SameItself DEF LooksAtTask, OthersSame
    <2>4. ~IsSyncCallback(CurrentStatus)
        <3>1. \A p \in pkgs : ~IsSyncCallback(info[p].status)
            BY DEF CalmInv, CalmStatuses, Types, PkgsType
        <3> QED BY <3>1, CalmTaskStatus DEF CurrentStatus, Statuses
    <2>5. CalmThread(t)'
        BY <1>0, <1>1, <2>2, <2>4 DEF CalmThread
    <2>6. Busy(t)' <=> Busy(t)
        BY <1>1, <2>2 DEF Busy
    <2> QED BY <1>1, <2>1, <2>2, <2>3, <2>5, <2>6, SameItself, SameWork DEF KeepsBusy, GainsNone, Same
<1> QED BY <1>2, <1>3 DEF GetTaskProgress

(* UpdateTaskProgress of a thread: what it saw is recorded and, if it is   *)
(* news, queued.                                                           *)
LEMMA RecordWork ==
    ASSUME Types, CalmInv, NEW t \in ThreadIds, UpdateTaskProgress(t)
    PROVE  /\ threads[t].pc = "record" /\ threads' = AfterReport(t)
           /\ OthersSame(t) /\ GainsNone /\ GainsNoSuccess /\ KeepsBusy /\ CalmThread(t)'
           /\ threads[t].report \notin Running => ~threads'[t].attached
           /\ threads[t].report \in Running => threads'[t].attached = threads[t].attached
           /\ threads'[t].pc \in {"running", "verifying", "free"}
           /\ \/ ~threads[t].attached /\ UNCHANGED <<status, queue>>
              \/ threads[t].attached /\ RecordAndSubmit(threads[t].snap)
           /\ UNCHANGED <<fw, downloadTaskId, alive, want, requests, tidy, op, inMap, hasCallback,
                          isStopDownloadingCallback, isStopCallback, pkgs, info, db, worker,
                          verified, handed, lost, doubled, overlapped, threadMap>>
<1>0. CalmThread(t)
    BY DEF CalmInv
<1>1. /\ threads[t].pc = "record" /\ threads' = AfterReport(t)
      /\ \/ ~threads[t].attached /\ UNCHANGED <<status, queue>>
         \/ threads[t].attached /\ RecordAndSubmit(threads[t].snap)
    BY <1>0 DEF UpdateTaskProgress, CalmThread
<1>2. UNCHANGED <<fw, downloadTaskId, alive, want, requests, tidy, op, inMap, hasCallback,
                          isStopDownloadingCallback, isStopCallback, pkgs, info, db, worker,
                          verified, handed, lost, doubled, overlapped, threadMap>>
    BY DEF UpdateTaskProgress, client, task, ghosts
<1>3. threads[t].report \in Running \/ ~Busy(t)
    BY <1>1 DEF Busy, Running
<1> QED BY <1>0, <1>1, <1>2, <1>3, AfterReportKeepsWork

(* A status is queued behind the others, or recorded already.              *)
LEMMA Submitted ==
    ASSUME QueueType, NEW s, RecordAndSubmit(s)
    PROVE  \/ s = status /\ UNCHANGED <<status, queue>>
           \/ /\ status' = s /\ Len(queue') = Len(queue) + 1 /\ Len(queue) \in Nat
              /\ queue'[Len(queue) + 1] = s
              /\ \A i \in 1..Len(queue) : queue'[i] = queue[i]
<1>1. CASE s = status /\ UNCHANGED <<status, queue, timed>>
    BY <1>1
<1>2. CASE queue' = Append(queue, s) /\ status' = s
    <2>1. queue \in Seq(TaskStatuses)
        BY DEF QueueType
    <2>2. /\ Len(queue') = Len(queue) + 1 /\ Len(queue) \in Nat
          /\ queue'[Len(queue) + 1] = s
          /\ \A i \in 1..Len(queue) : queue'[i] = queue[i]
        BY <1>2, <2>1
    <2> QED BY <1>2, <2>2
<1> QED BY <1>1, <1>2 DEF RecordAndSubmit

(* The clean-ups of the firmware: the rows go, and the task leaves the map *)
(* if it may be removed.                                                   *)
LEMMA CleanUpWork ==
    ASSUME Types, CleanUpStep
    PROVE  /\ SamePool /\ op.kind = "none"
           /\ UNCHANGED <<tidy, op, isStopDownloadingCallback, isStopCallback, info, status,
                          threadMap, queue, handed, lost, doubled, overlapped>>
           /\ \A p \in Packages : db'[p] = "none"
           /\ \/ UNCHANGED <<inMap, hasCallback, pkgs>>
              \/ inMap /\ inMap' = FALSE /\ hasCallback' = FALSE /\ pkgs' = {}
<1>1. threads \in ThreadPool
    BY DEF Types, PoolType
<1>2. ASSUME NEW s, NEW reached, FinishRemove(s, reached, threads)
      PROVE  /\ SamePool
             /\ \A p \in Packages : db'[p] = "none"
             /\ \/ UNCHANGED <<inMap, hasCallback, pkgs>>
                \/ inMap /\ inMap' = FALSE /\ hasCallback' = FALSE /\ pkgs' = {}
    <2>1. SamePool
        <3>1. CASE threads' = threads
            BY <3>1, SameItself
        <3>2. CASE threads' = Unlinked(threads, Packages)
            BY <1>1, <3>2, UnlinkedSame DEF SamePool
        <3> QED BY <1>2, <3>1, <3>2 DEF FinishRemove
    <2> QED BY <1>2, <2>1 DEF FinishRemove, RemoveTask
<1>3. CASE ReportFinishedDownload
    <2>1. FinishRemove(CurrentStatus, UpgradeStatus(CurrentStatus), threads)
        BY <1>3 DEF ReportFinishedDownload
    <2> QED BY <1>2, <1>3, <2>1 DEF ReportFinishedDownload, serial, MapMutexFree
<1>4. CASE ResumeRunningFails
    <2>1. FinishRemove("FAIL", fw, threads)
        BY <1>4 DEF ResumeRunningFails
    <2> QED BY <1>2, <1>4, <2>1 DEF ResumeRunningFails, serial, MapMutexFree
<1>5. CASE ResumeMissingTask
    <2>1. FinishRemove("FAIL", fw, threads)
        BY <1>5 DEF ResumeMissingTask
    <2> QED BY <1>2, <1>5, <2>1 DEF ResumeMissingTask, serial, MapMutexFree
<1>6. CASE WorkerRemove
    <2>1. FinishRemove(worker.status, fw, threads)
        BY <1>6 DEF WorkerRemove
    <2> QED BY <1>2, <1>6, <2>1 DEF WorkerRemove, MapMutexFree
<1> QED BY <1>3, <1>4, <1>5, <1>6 DEF CleanUpStep

(* One turn of NetChangeToPause: the package is paused at once and its     *)
(* thread leaves the map, or its thread is told.                           *)
PausedAtOnce(p) ==
    /\ threadMap' = [threadMap EXCEPT ![p] = 0]
    /\ info'[p].status = "AUTO_PAUSE"
    /\ \A q \in Packages \ {p} : info'[q].status = info[q].status
    /\ db' = [db EXCEPT ![p] = IF @ = "none" THEN @ ELSE "AUTO_PAUSE"]
    /\ RecordAndSubmit(TaskStatus([q \in pkgs |-> info'[q].status]))

(* A turn of the loop of a lost network pauses the package on the spot or  *)
(* leaves it to its thread.                                                *)
LEMMA NetPauseWork ==
    ASSUME Types, NEW p \in Packages, NetPausePackage(p)
    PROVE  /\ SamePool /\ op.kind = "net" /\ p \in op.todo
           /\ op'.kind = "net" /\ op'.todo \subseteq op.todo \ {p}
           /\ PausedAtOnce(p) \/ UNCHANGED <<threadMap, info, db, status, queue>>
           /\ UNCHANGED <<fw, downloadTaskId, alive, want, requests, tidy, inMap, hasCallback,
                          isStopDownloadingCallback, isStopCallback, pkgs, worker,
                          verified, handed, lost, doubled, overlapped>>
<1> DEFINE t == threadMap[p]
<1>0. OpType /\ InfoType /\ threads \in ThreadPool
    BY DEF Types, PoolType
<1>1. op.kind = "net" /\ p \in op.todo
    BY DEF NetPausePackage
<1>2. op'.kind = "net" /\ op'.todo \subseteq op.todo \ {p}
    <2>1. PICK T \in {op.todo \ {p}, {}} : op' = [op EXCEPT !.todo = T]
        BY DEF NetPausePackage
    <2>2. op'.kind = op.kind /\ op'.todo = T
        BY <1>0, <2>1 DEF OpType, OpRec
    <2> QED BY <1>1, <2>2
<1>3. UNCHANGED <<fw, downloadTaskId, alive, want, requests, tidy, inMap, hasCallback,
                  isStopDownloadingCallback, isStopCallback, pkgs, worker,
                  verified, handed, lost, doubled, overlapped>>
    BY DEF NetPausePackage, client, task, ghosts
<1>4. CASE threads[t].status = "INIT" /\ ~isStopCallback
    <2>1. /\ threadMap' = [threadMap EXCEPT ![p] = 0]
          /\ info' = [info EXCEPT ![p].status = "AUTO_PAUSE"]
          /\ db' = [db EXCEPT ![p] = IF @ = "none" THEN @ ELSE "AUTO_PAUSE"]
          /\ RecordAndSubmit(TaskStatus([q \in pkgs |-> info'[q].status]))
          /\ UNCHANGED threads
        BY <1>4 DEF NetPausePackage
    <2>2. info[p] \in InfoRec
        BY <1>0 DEF InfoType
    <2>3. info'[p] = [info[p] EXCEPT !.status = "AUTO_PAUSE"]
          /\ \A q \in Packages \ {p} : info'[q] = info[q]
        BY <1>0, <2>1 DEF InfoType
    <2>4. info'[p].status = "AUTO_PAUSE"
        BY <2>2, <2>3 DEF InfoRec
    <2>5. SamePool
        BY <2>1, SameItself
    <2>6. PausedAtOnce(p)
        BY <2>1, <2>3, <2>4 DEF PausedAtOnce
    <2> QED BY <1>1, <1>2, <1>3, <2>5, <2>6
<1>5. CASE ~(threads[t].status = "INIT" /\ ~isStopCallback)
    <2>1. /\ threads' = [threads EXCEPT ![t].autoPause = @ \/ threads[t].status = "DOWNLOADING"]
          /\ UNCHANGED <<threadMap, info, db, status, queue, timed>>
        BY <1>5 DEF NetPausePackage
    <2>2. SamePool
        <3> SUFFICES ASSUME NEW u \in ThreadIds PROVE Same(threads'[u], threads[u])
            BY DEF SamePool
        <3>1. threads[u] \in ThreadRec
            BY <1>0 DEF ThreadPool
        <3>2. threads'[u] = threads[u] \/ \E b : threads'[u] = [threads[u] EXCEPT !.autoPause = b]
            BY <1>0, <2>1 DEF ThreadPool
        <3>3. CASE threads'[u] = threads[u]
            BY <3>3, SameItself
        <3>4. CASE \E b : threads'[u] = [threads[u] EXCEPT !.autoPause = b]
            BY <3>1, <3>4 DEF Same, ThreadRec
        <3> QED BY <3>2, <3>3, <3>4
    <2> QED BY <1>1, <1>2, <1>3, <2>1, <2>2
<1> QED BY <1>4, <1>5

(* Start detaches the threads of the object before.                        *)
LEMMA StartWork ==
    ASSUME Types, CalmInv, StartTask
    PROVE  /\ \A u \in ThreadIds : ~threads'[u].attached /\ CalmThread(u)'
           /\ \A p \in Packages : threadMap'[p] = 0 /\ info'[p].status = "INIT"
           /\ db' = db \/ \A p \in Packages : db'[p] = "none"
<1> DEFINE D == [t \in ThreadIds |-> [threads[t] EXCEPT !.attached = FALSE,
                    !.cancel = @ \/ (inMap /\ threadMap[threads[t].pkg] = t)]]
           P == IF inMap THEN Packages ELSE {}
<1>1. PoolType
    BY DEF Types
<1>2. D \in ThreadPool
    BY <1>1, DetachedType
<1>3. threads' = Unlinked(D, P)
    BY DEF StartTask
<1>4. \A u \in ThreadIds : /\ D[u].pc = threads[u].pc /\ D[u].report = threads[u].report
                           /\ D[u].snap = threads[u].snap /\ ~D[u].attached
    <2> SUFFICES ASSUME NEW u \in ThreadIds
                 PROVE  /\ D[u].pc = threads[u].pc /\ D[u].report = threads[u].report
                        /\ D[u].snap = threads[u].snap /\ ~D[u].attached
        OBVIOUS
    <2>1. PICK c : D[u] = [threads[u] EXCEPT !.attached = FALSE, !.cancel = c]
        OBVIOUS
    <2>2. threads[u] \in ThreadRec
        BY <1>1 DEF PoolType, ThreadPool
    <2> HIDE DEF D
    <2> QED BY <2>1, <2>2 DEF ThreadRec
<1> HIDE DEF D, P
<1>5. \A u \in ThreadIds : Same(threads'[u], D[u])
    BY <1>2, <1>3, UnlinkedSame
<1>6. \A u \in ThreadIds : /\ threads'[u].pc = threads[u].pc /\ threads'[u].report = threads[u].report
                           /\ threads'[u].snap = threads[u].snap /\ ~threads'[u].attached
    BY <1>4, <1>5 DEF Same
<1>7. \A u \in ThreadIds : ~threads'[u].attached /\ CalmThread(u)'
    BY <1>6 DEF CalmInv, CalmThread
<1>8. \A p \in Packages : threadMap'[p] = 0 /\ info'[p].status = "INIT"
    BY DEF StartTask
<1>9. db' = db \/ \A p \in Packages : db'[p] = "none"
    BY DEF StartTask
<1> QED BY <1>7, <1>8, <1>9

(* A restart takes what the rows say; what had not ended is not at work.   *)
LEMMA RestartWork ==
    ASSUME Types, CalmInv, Restart
    PROVE  /\ \A u \in ThreadIds : ~threads'[u].attached /\ CalmThread(u)'
           /\ \A p \in Packages :
                 /\ threadMap'[p] = 0
                 /\ ~IsSyncCallback(info'[p].status) /\ ~IsSyncCallback(db'[p])
                 /\ info'[p].status \notin Running
                 /\ info'[p].status = "SUCCESS" => db[p] = "SUCCESS"
                 /\ db'[p] = "none" <=> db[p] = "none"
           /\ pkgs' = {p \in Packages : db[p] # "none"}
           /\ inMap' <=> pkgs' # {}
           /\ op'.kind = "none" /\ op'.todo = {}
<1> DEFINE rows == {p \in Packages : db[p] # "none"}
           complete == IsFinal(TaskStatus([p \in rows |-> db[p]]))
           restored == [p \in Packages |->
                          IF p \notin rows THEN "INIT"
                          ELSE IF complete THEN db[p] ELSE RecoveredStatus(db[p])]
<1>1. /\ pkgs' = rows /\ inMap' = (rows # {})
      /\ info' = [p \in Packages |-> [status |-> restored[p], retryTimes |-> 0]]
      /\ db' = [p \in Packages |-> IF p \in rows THEN restored[p] ELSE "none"]
      /\ threads' = [t \in ThreadIds |-> FreeThread]
      /\ threadMap' = [p \in Packages |-> 0] /\ op' = NoOp
    BY DEF Restart
<1>2. \A p \in Packages : /\ restored[p] \notin Running /\ ~IsSyncCallback(restored[p])
                          /\ restored[p] = "SUCCESS" => db[p] = "SUCCESS"
                          /\ restored[p] # "none"
    <2> SUFFICES ASSUME NEW p \in Packages
                 PROVE  /\ restored[p] \notin Running /\ ~IsSyncCallback(restored[p])
                        /\ restored[p] = "SUCCESS" => db[p] = "SUCCESS"
                        /\ restored[p] # "none"
        OBVIOUS
    <2>0. ~IsSyncCallback(db[p])
        BY DEF CalmInv, CalmStatuses
    <2>1. CASE p \notin rows
        <3>1. restored[p] = "INIT"
            BY <2>1
        <3> HIDE DEF restored
        <3> QED BY <3>1 DEF Running, IsSyncCallback
    <2>2. CASE p \in rows /\ complete
        <3>1. restored[p] = db[p] /\ db[p] # "none"
            BY <2>2
        <3>2. db[p] \notin Running
            <4> DEFINE f == [q \in rows |-> db[q]]
            <4>1. \A q \in DOMAIN f : f[q] \notin Running
                BY <2>2, FinalHasNoRunning
            <4>2. DOMAIN f = rows /\ f[p] = db[p]
                BY <2>2
            <4> HIDE DEF f
            <4> QED BY <2>2, <4>1, <4>2
        <3> HIDE DEF restored
        <3> QED BY <2>0, <3>1, <3>2
    <2>3. CASE p \in rows /\ ~complete
        <3>1. restored[p] = RecoveredStatus(db[p]) /\ db[p] # "none"
            BY <2>3
        <3> HIDE DEF restored
        <3> QED BY <2>0, <3>1 DEF RecoveredStatus, IsCompleted, Running, IsSyncCallback
    <2> QED BY <2>1, <2>2, <2>3
<1> HIDE DEF restored, complete
<1>3. \A u \in ThreadIds : ~threads'[u].attached /\ CalmThread(u)'
    <2>1. \A u \in ThreadIds : Freed(threads'[u])
        BY <1>1 DEF FreeThread, Freed
    <2> QED BY <2>1 DEF Freed, CalmThread, IsSyncCallback
<1>4. \A p \in Packages : /\ threadMap'[p] = 0
                          /\ info'[p].status = restored[p]
                          /\ db'[p] = IF db[p] # "none" THEN restored[p] ELSE "none"
    BY <1>1
<1>5. ~IsSyncCallback("none") /\ op'.kind = "none" /\ op'.todo = {}
    BY <1>1 DEF NoOp, IsSyncCallback
<1>6. \A p \in Packages :
                 /\ threadMap'[p] = 0
                 /\ ~IsSyncCallback(info'[p].status) /\ ~IsSyncCallback(db'[p])
                 /\ info'[p].status \notin Running
                 /\ info'[p].status = "SUCCESS" => db[p] = "SUCCESS"
                 /\ db'[p] = "none" <=> db[p] = "none"
    BY <1>2, <1>4, <1>5
<1> QED BY <1>1, <1>3, <1>5, <1>6

-----------------------------------------------------------------------------
(* Calm steps keep the engine calm                                         *)

(* The stop flags come with a Cancel only, tidy with a DoCancel.           *)
LEMMA OpsStayCalm ==
    ASSUME Types, CalmInv, [CalmNext]_vars
    PROVE  CalmOps'
<1>0. /\ ~tidy /\ op.kind # "cancel" /\ ~isStopCallback /\ ~isStopDownloadingCallback
    BY DEF CalmInv, CalmOps
<1>a. OpType
    BY DEF Types
<1> USE DEF CalmOps
<1>1. CASE NewVersionFound \/ PerformDownload \/ PerformResumeDownload
    BY <1>0, <1>1 DEF NewVersionFound, PerformDownload, PerformResumeDownload, task
<1>2. CASE CleanUpStep
    BY <1>0, <1>2, CleanUpWork
<1>3. CASE StartTask
    BY <1>0, <1>3 DEF StartTask, NoOp
<1>4. ASSUME NEW p \in Packages, StartPackage(p) \/ ResumePackage(p) PROVE CalmOps'
    <2>1. op'.kind = op.kind
        BY <1>4, LoopKinds
    <2> QED BY <1>0, <1>4, <2>1 DEF StartPackage, ResumePackage, client, task
<1>5. CASE EnsureInsert
    BY <1>0, <1>5 DEF EnsureInsert, EnableCallback, NoOp, client
<1>6. CASE ResumeTask
    <2>1. op'.kind = "resume"
        BY <1>6, LoopKinds, EngineAssumption
    <2> QED BY <1>0, <1>6, <2>1 DEF ResumeTask, EnableCallback
<1>7. CASE ResumeFinish \/ NetLostFinish
    BY <1>0, <1>7 DEF ResumeFinish, NetLostFinish, NoOp, client, task
<1>8. CASE OnNetAvailable \/ OnNetIgnored
    BY <1>0, <1>8 DEF OnNetAvailable, OnNetIgnored, EnableCallback, client, task
<1>9. CASE OnNetLost
    <2>1. op'.kind = "net"
        BY <1>a, <1>9, OpKinds DEF OnNetLost
    <2> QED BY <1>0, <1>9, <2>1 DEF OnNetLost, client, task
<1>10. ASSUME NEW p \in Packages, NetPausePackage(p) PROVE CalmOps'
    BY <1>0, <1>10, NetPauseWork
<1>11. ASSUME NEW t \in ThreadIds, RunStep(t) PROVE CalmOps'
    BY <1>0, <1>11, RunWork DEF taskSide
<1>12. ASSUME NEW t \in ThreadIds, UpdateDownloadProgress(t) PROVE CalmOps'
    BY <1>0, <1>12, UpdateWork DEF taskRest
<1>13. ASSUME NEW t \in ThreadIds, GetTaskProgress(t) PROVE CalmOps'
    BY <1>0, <1>13, LookWork DEF taskSide
<1>14. ASSUME NEW t \in ThreadIds, UpdateTaskProgress(t) PROVE CalmOps'
    BY <1>0, <1>14, RecordWork
<1>15. CASE TakeCallback \/ TimedTask \/ CallbackProgress \/ WorkerDealCallBack
    BY <1>0, <1>15 DEF TakeCallback, TimedTask, CallbackProgress, WorkerDealCallBack, client, task
<1>16. CASE NetChanges
    BY <1>0, <1>16 DEF NetChanges, task
<1>17. CASE Restart
    BY <1>17 DEF Restart, NoOp
<1>18. CASE UNCHANGED vars
    BY <1>0, <1>18 DEF vars
<1> QED BY <1>1, <1>2, <1>3, <1>4, <1>5, <1>6, <1>7, <1>8, <1>9, <1>10, <1>11, <1>12, <1>13,
           <1>14, <1>15, <1>16, <1>17, <1>18 DEF CalmNext

(* The steps that touch neither threads nor DownloadInfos nor rows.        *)
AsideStep ==
    \/ NewVersionFound \/ PerformDownload \/ PerformResumeDownload
    \/ EnsureInsert \/ ResumeFinish \/ NetLostFinish
    \/ OnNetAvailable \/ OnNetIgnored \/ OnNetLost
    \/ TakeCallback \/ TimedTask \/ CallbackProgress \/ WorkerDealCallBack \/ NetChanges
    \/ UNCHANGED vars

(* They leave all of it.                                                   *)
LEMMA AsideWork ==
    ASSUME AsideStep
    PROVE  UNCHANGED <<threads, threadMap, info, db, pkgs, verified, doubled>> /\ SamePool
<1>1. UNCHANGED <<threads, threadMap, info, db, pkgs, verified, doubled>>
    <2>1. CASE NewVersionFound \/ PerformDownload \/ PerformResumeDownload
        BY <2>1 DEF NewVersionFound, PerformDownload, PerformResumeDownload, task, pool, ghosts
    <2>2. CASE EnsureInsert \/ ResumeFinish \/ NetLostFinish
        BY <2>2 DEF EnsureInsert, ResumeFinish, NetLostFinish, task, pool, ghosts
    <2>3. CASE OnNetAvailable \/ OnNetIgnored \/ OnNetLost
        BY <2>3 DEF OnNetAvailable, OnNetIgnored, OnNetLost, task, pool, ghosts
    <2>4. CASE TakeCallback \/ TimedTask \/ CallbackProgress
        BY <2>4 DEF TakeCallback, TimedTask, CallbackProgress, task, pool, ghosts
    <2>5. CASE WorkerDealCallBack \/ NetChanges \/ UNCHANGED vars
        BY <2>5 DEF WorkerDealCallBack, NetChanges, task, pool, ghosts, vars
    <2> QED BY <2>1, <2>2, <2>3, <2>4, <2>5 DEF AsideStep
<1> QED BY <1>1, SameItself

(* The rest of the steps.                                                  *)
WorkStep ==
    \/ CleanUpStep \/ StartTask \/ (\E p \in Packages : StartPackage(p))
    \/ ResumeTask \/ (\E p \in Packages : ResumePackage(p))
    \/ (\E p \in Packages : NetPausePackage(p))
    \/ (\E t \in ThreadIds : RunStep(t))
    \/ (\E t \in ThreadIds : UpdateDownloadProgress(t))
    \/ (\E t \in ThreadIds : GetTaskProgress(t))
    \/ (\E t \in ThreadIds : UpdateTaskProgress(t))
    \/ Restart

(* Every step is one or the other.                                         *)
LEMMA AsideOrWork == ASSUME [CalmNext]_vars PROVE AsideStep \/ WorkStep
BY DEF CalmNext, AsideStep, WorkStep

(* Threads and statuses stay free of CANCEL and PAUSE.                     *)
LEMMA WorkStaysCalm ==
    ASSUME Types, Types', CalmInv, [CalmNext]_vars
    PROVE  CalmStatuses' /\ \A t \in ThreadIds : CalmThread(t)'
<1>0. CalmStatuses /\ \A t \in ThreadIds : CalmThread(t)
    BY DEF CalmInv
<1>a. ASSUME NEW t \in ThreadIds, CalmThread(t)', OthersSame(t)
      PROVE  \A u \in ThreadIds : CalmThread(u)'
    BY <1>0, <1>a, SameWork DEF OthersSame
<1>b. UNCHANGED <<info, db>> => CalmStatuses'
    BY <1>0 DEF CalmStatuses
<1>c. ~IsSyncCallback("none") /\ ~IsSyncCallback("INIT") /\ ~IsSyncCallback("AUTO_PAUSE")
      /\ ~IsSyncCallback("FAIL") /\ ~IsSyncCallback("DOWNLOADING")
    BY DEF IsSyncCallback
<1>1. CASE AsideStep
    BY <1>0, <1>1, <1>b, AsideWork, SameKeepsWork
<1>2. CASE CleanUpStep
    <2>1. CalmStatuses'
        BY <1>0, <1>2, <1>c, CleanUpWork DEF CalmStatuses
    <2> QED BY <1>0, <1>2, <2>1, CleanUpWork, SameKeepsWork
<1>3. CASE StartTask
    <2>1. CalmStatuses'
        BY <1>0, <1>3, <1>c, StartWork DEF CalmStatuses
    <2> QED BY <1>3, <2>1, StartWork
<1>4. ASSUME NEW p \in Packages, StartPackage(p)
      PROVE  CalmStatuses' /\ \A t \in ThreadIds : CalmThread(t)'
    <2>1. StartDownloadThread(p, "INIT") /\ info' = info
          /\ db' = [db EXCEPT ![p] = IF @ = "none" THEN "INIT" ELSE @]
        BY <1>4 DEF StartPackage
    <2>2. PICK t \in ThreadIds : threads[t].pc = "free" /\ Fresh(threads'[t], p) /\ OthersSame(t)
        BY <2>1, FreshThread
    <2>3. CalmThread(t)'
        BY <1>0, <2>2, FreshKeepsWork
    <2>4. CalmStatuses'
        BY <1>0, <1>c, <2>1 DEF CalmStatuses, Types, DbType
    <2> QED BY <1>a, <2>2, <2>3, <2>4
<1>5. CASE ResumeTask
    <2>1. threads' = threads /\ db' = db
          /\ \A p \in Packages : info'[p] = info[p] \/ info'[p] = [info[p] EXCEPT !.status = "INIT"]
        BY <1>5 DEF ResumeTask, pool
    <2>2. \A p \in Packages : info[p] \in InfoRec
        BY DEF Types, InfoType
    <2>3. \A p \in Packages : info'[p].status \in {info[p].status, "INIT"}
        BY <2>1, <2>2 DEF InfoRec
    <2>4. CalmStatuses'
        BY <1>0, <1>c, <2>1, <2>3 DEF CalmStatuses
    <2> QED BY <1>0, <2>1, <2>4, SameItself, SameKeepsWork
<1>6. ASSUME NEW p \in Packages, ResumePackage(p)
      PROVE  CalmStatuses' /\ \A t \in ThreadIds : CalmThread(t)'
    <2>0. db' = db
        BY <1>6 DEF ResumePackage
    <2>1. CASE UNCHANGED <<info, pool>>
        BY <1>0, <1>b, <2>0, <2>1, SameItself, SameKeepsWork DEF pool
    <2>2. CASE \E s : /\ info' = [info EXCEPT ![p] = [status |-> s, retryTimes |-> 0]]
                      /\ StartDownloadThread(p, s) /\ s \in {info[p].status, "DOWNLOADING"}
        <3>1. PICK s : /\ info' = [info EXCEPT ![p] = [status |-> s, retryTimes |-> 0]]
                      /\ StartDownloadThread(p, s) /\ s \in {info[p].status, "DOWNLOADING"}
            BY <2>2
        <3>2. PICK t \in ThreadIds : threads[t].pc = "free" /\ Fresh(threads'[t], p) /\ OthersSame(t)
            BY <3>1, FreshThread
        <3>3. CalmThread(t)'
            BY <1>0, <3>2, FreshKeepsWork
        <3>4. CalmStatuses'
            BY <1>0, <1>c, <2>0, <3>1 DEF CalmStatuses, Types, InfoType
        <3> QED BY <1>a, <3>2, <3>3, <3>4
    <2> QED BY <1>6, <2>1, <2>2 DEF ResumePackage
<1>7. ASSUME NEW p \in Packages, NetPausePackage(p)
      PROVE  CalmStatuses' /\ \A t \in ThreadIds : CalmThread(t)'
    <2>1. SamePool /\ (PausedAtOnce(p) \/ UNCHANGED <<info, db>>)
        BY <1>7, NetPauseWork
    <2>2. CalmStatuses'
        BY <1>0, <1>b, <1>c, <2>1 DEF CalmStatuses, PausedAtOnce, Types, DbType
    <2> QED BY <1>0, <2>1, <2>2, SameKeepsWork
<1>8. ASSUME NEW t \in ThreadIds, RunStep(t) \/ GetTaskProgress(t)
      PROVE  CalmStatuses' /\ \A u \in ThreadIds : CalmThread(u)'
    <2>1. OthersSame(t) /\ CalmThread(t)' /\ UNCHANGED taskSide
        BY <1>8, RunWork, LookWork DEF RunOutcome, LooksAtTask
    <2> QED BY <1>a, <1>b, <2>1 DEF taskSide
<1>9. ASSUME NEW t \in ThreadIds, UpdateTaskProgress(t)
      PROVE  CalmStatuses' /\ \A u \in ThreadIds : CalmThread(u)'
    BY <1>a, <1>b, <1>9, RecordWork
<1>10. ASSUME NEW t \in ThreadIds, UpdateDownloadProgress(t)
      PROVE  CalmStatuses' /\ \A u \in ThreadIds : CalmThread(u)'
    <2>0. threads[t].pc = "update" /\ (DroppedReport(t) \/ RetriedReport(t) \/ RecordedReport(t))
        BY <1>10, UpdateWork
    <2>1. OthersSame(t) /\ CalmThread(t)'
        BY <2>0, UpdateKeepsWork DEF RetriedReport, RecordedReport
    <2>2. CalmStatuses'
        <3>1. CASE DroppedReport(t)
            BY <1>b, <3>1 DEF DroppedReport
        <3>2. CASE RetriedReport(t)
            BY <1>0, <3>2 DEF RetriedReport, CalmStatuses
        <3>3. CASE RecordedReport(t)
            <4>1. ~IsSyncCallback(Recorded(t))
                BY <1>0, <1>c DEF CalmThread, Recorded
            <4> QED BY <1>0, <1>c, <3>3, <4>1 DEF RecordedReport, CalmStatuses, Types, DbType
        <3> QED BY <2>0, <3>1, <3>2, <3>3
    <2> QED BY <1>a, <2>1, <2>2
<1>11. CASE Restart
    BY <1>11, RestartWork DEF CalmStatuses
<1> QED BY <1>1, <1>2, <1>3, <1>4, <1>5, <1>6, <1>7, <1>8, <1>9, <1>10, <1>11, AsideOrWork
        DEF WorkStep

(* Until somebody cancels, the engine stays calm.                          *)
LEMMA StaysCalm ==
    ASSUME Types, Types', CalmInv, [CalmNext]_vars
    PROVE  CalmInv'
BY OpsStayCalm, WorkStaysCalm DEF CalmInv

-----------------------------------------------------------------------------
(* The pool                                                                *)

(* The thread threadMap_ has is at work.                                   *)
LEMMA MappedWorks ==
    ASSUME Types, CalmInv, MappedIsBusy, NEW p \in Packages, threadMap[p] # 0
    PROVE  threadMap[p] \in ThreadIds /\ Busy(threadMap[p]) /\ threads[threadMap[p]].pkg = p
<1>1. threadMap[p] \in ThreadIds
    BY DEF Types, ThreadMapType
<1>2. threads[threadMap[p]].pc \notin {"sync", "remove"}
    BY <1>1 DEF CalmInv, CalmThread
<1> QED BY <1>1, <1>2 DEF MappedIsBusy, Busy, Running

(* A step that leaves threadMap_ and every thread in it.                   *)
LEMMA SameStaysMapped ==
    ASSUME Types, MappedIsBusy, SamePool, threadMap' = threadMap,
           op'.kind = "net" => \/ op.kind = "net" /\ op'.todo \subseteq op.todo
                               \/ \A p \in op'.todo : threadMap[p] # 0
    PROVE  MappedIsBusy'
<1>1. \A p \in Packages : threadMap[p] # 0 => Same(threads'[threadMap[p]], threads[threadMap[p]])
    BY DEF Types, ThreadMapType, SamePool
<1> QED BY <1>1 DEF MappedIsBusy, Same

(* A new thread takes its place in threadMap_.                             *)
LEMMA FreshStaysMapped ==
    ASSUME Types, CalmInv, MappedIsBusy, NEW p \in Packages, NEW t \in ThreadIds,
           Fresh(threads'[t], p), OthersSame(t), threadMap' = [threadMap EXCEPT ![p] = t],
           \A q \in Packages \ {p} : threadMap[q] # t,
           op'.kind # "net" \/ (op.kind = "net" /\ op'.todo \subseteq op.todo)
    PROVE  MappedIsBusy'
<1>1. \A q \in Packages \ {p} : threadMap'[q] = threadMap[q]
    BY DEF Types, ThreadMapType
<1>2. threadMap'[p] = t /\ t # 0
    BY EngineAssumption DEF Types, ThreadMapType, ThreadIds
<1>3. \A q \in Packages \ {p} : threadMap[q] # 0 =>
          Same(threads'[threadMap[q]], threads[threadMap[q]])
    BY DEF Types, ThreadMapType, OthersSame
<1> QED BY <1>1, <1>2, <1>3 DEF MappedIsBusy, Same, Fresh

(* What threadMap_ has is at work, step by step.                           *)
LEMMA StaysMapped ==
    ASSUME Types, Types', CalmInv, PoolInv, [CalmNext]_vars
    PROVE  MappedIsBusy'
<1>0. MappedIsBusy /\ TaskHasPackages /\ OpType /\ ThreadMapType
    BY DEF PoolInv, Types
<1>m. ASSUME NEW q \in Packages, threadMap[q] # 0
      PROVE  threadMap[q] \in ThreadIds
    BY <1>0, <1>m DEF ThreadMapType
<1>z. (\A q \in Packages : threadMap'[q] = 0) /\ op'.kind # "net" => MappedIsBusy'
    BY DEF MappedIsBusy
<1>f. ASSUME NEW t \in ThreadIds, threads[t].pc = "free", NEW q \in Packages
      PROVE  threadMap[q] # t
    <2> SUFFICES ASSUME threadMap[q] = t PROVE FALSE
        OBVIOUS
    <2>1. threadMap[q] # 0
        BY EngineAssumption DEF ThreadIds
    <2>2. threads[t].attached
        BY <1>0, <2>1 DEF MappedIsBusy
    <2> QED BY <1>f, <2>2 DEF CalmInv, CalmThread
<1>1. CASE AsideStep
    <2>1. threadMap' = threadMap /\ SamePool
        BY <1>1, AsideWork
    <2>2. op'.kind = "net" => \/ op.kind = "net" /\ op'.todo \subseteq op.todo
                              \/ \A p \in op'.todo : threadMap[p] # 0
        <3>1. CASE OnNetLost
            <4>1. op' = [NoOp EXCEPT !.kind = "net", !.todo = {p \in Packages : threadMap[p] # 0}]
                BY <3>1 DEF OnNetLost
            <4>2. op'.todo = {p \in Packages : threadMap[p] # 0}
                BY <4>1 DEF NoOp
            <4> QED BY <4>2
        <3>2. CASE EnsureInsert \/ ResumeFinish \/ NetLostFinish
            BY <3>2 DEF EnsureInsert, ResumeFinish, NetLostFinish, NoOp
        <3>3. CASE ~(OnNetLost \/ EnsureInsert \/ ResumeFinish \/ NetLostFinish)
            BY <1>1, <3>3 DEF AsideStep, NewVersionFound, PerformDownload, PerformResumeDownload,
                OnNetAvailable, OnNetIgnored, TakeCallback, TimedTask, CallbackProgress,
                WorkerDealCallBack, NetChanges, vars
        <3> QED BY <3>1, <3>2, <3>3
    <2> QED BY <1>0, <2>1, <2>2, SameStaysMapped
<1>2. CASE CleanUpStep
    BY <1>0, <1>2, CleanUpWork, SameStaysMapped
<1>3. CASE StartTask
    <2>1. op'.kind # "net"
        BY <1>3 DEF StartTask, MapMutexFree, NoOp
    <2> QED BY <1>3, <1>z, <2>1, StartWork
<1>4. ASSUME NEW p \in Packages, StartPackage(p) \/ ResumePackage(p) PROVE MappedIsBusy'
    <2>1. op'.kind = op.kind /\ op.kind \in {"start", "resume"}
        BY <1>4, LoopKinds DEF StartPackage, ResumePackage
    <2>2. CASE UNCHANGED pool
        BY <1>0, <2>1, <2>2, SameItself, SameStaysMapped DEF pool
    <2>3. CASE \E s : StartDownloadThread(p, s)
        <3>1. PICK t \in ThreadIds :
                 /\ threads[t].pc = "free" /\ Fresh(threads'[t], p) /\ OthersSame(t)
                 /\ threadMap' = [threadMap EXCEPT ![p] = t]
            BY <2>3, FreshThread
        <3>2. \A q \in Packages : threadMap[q] # t
            BY <1>f, <3>1
        <3> QED BY <1>0, <2>1, <3>1, <3>2, FreshStaysMapped
    <2> QED BY <1>4, <2>2, <2>3 DEF StartPackage, ResumePackage
<1>5. CASE ResumeTask
    <2>1. op'.kind = "resume"
        BY <1>5, LoopKinds, EngineAssumption
    <2> QED BY <1>0, <1>5, <2>1, SameItself, SameStaysMapped DEF ResumeTask, pool
<1>6. ASSUME NEW p \in Packages, NetPausePackage(p) PROVE MappedIsBusy'
    <2>1. /\ SamePool /\ op.kind = "net"
          /\ op'.kind = "net" /\ op'.todo \subseteq op.todo \ {p}
          /\ threadMap' = [threadMap EXCEPT ![p] = 0] \/ threadMap' = threadMap
        BY <1>6, NetPauseWork DEF PausedAtOnce
    <2>2. CASE threadMap' = threadMap
        BY <1>0, <2>1, <2>2, SameStaysMapped
    <2>3. CASE threadMap' = [threadMap EXCEPT ![p] = 0]
        <3>1. threadMap'[p] = 0 /\ \A q \in Packages \ {p} : threadMap'[q] = threadMap[q]
            BY <1>0, <2>3 DEF ThreadMapType
        <3>2. \A q \in Packages : threadMap[q] # 0 =>
                  Same(threads'[threadMap[q]], threads[threadMap[q]])
            BY <1>m, <2>1 DEF SamePool
        <3>3. op.todo \subseteq Packages
            BY <1>0 DEF OpType, OpRec
        <3> QED BY <1>0, <2>1, <3>1, <3>2, <3>3 DEF MappedIsBusy, Same
    <2> QED BY <2>1, <2>2, <2>3
<1>7. ASSUME NEW t \in ThreadIds, RunStep(t) PROVE MappedIsBusy'
    <2>1. RunOutcome(t) /\ op' = op
        BY <1>7, RunWork DEF taskSide
    <2>p. threads[t].pkg \in Packages
        BY DEF Types, PoolType, ThreadPool, ThreadRec
    <2>2. \A q \in Packages : threadMap[q] # 0 /\ threadMap[q] # t =>
              Same(threads'[threadMap[q]], threads[threadMap[q]])
        BY <1>m, <2>1 DEF RunOutcome, OthersSame
    <2>3. \A q \in Packages : threadMap[q] = t =>
              threads'[t].attached /\ threads'[t].pkg = q /\ threads[t].pkg = q /\ threads[t].attached
        <3>1. t # 0
            BY EngineAssumption DEF ThreadIds
        <3> QED BY <1>0, <2>1, <3>1 DEF MappedIsBusy, RunOutcome
    <2>4. threads'[t].pc \notin {"snap", "record"}
        BY <2>1 DEF RunOutcome
    <2>5. CASE threadMap' = threadMap
        <3>1. \A q \in Packages : threadMap[q] = t /\ threads'[t].pc = "update" =>
                  threads'[t].report \in Running
            BY <1>0, <2>1, <2>3, <2>5, <2>p, EngineAssumption DEF RunOutcome, ThreadMapType, ThreadIds
        <3> QED BY <1>0, <2>1, <2>2, <2>3, <2>4, <2>5, <3>1 DEF MappedIsBusy, Same
    <2>6. CASE /\ threads[t].attached /\ ServiceMutexFree
               /\ threadMap' = [threadMap EXCEPT ![threads[t].pkg] = 0]
        <3>1. /\ threadMap'[threads[t].pkg] = 0
              /\ \A q \in Packages \ {threads[t].pkg} : threadMap'[q] = threadMap[q]
            BY <1>0, <2>6, <2>p DEF ThreadMapType
        <3>2. op.kind = "net" => op.todo = {}
            BY <2>6 DEF ServiceMutexFree
        <3> QED BY <1>0, <2>1, <2>2, <2>3, <3>1, <3>2 DEF MappedIsBusy, Same
    <2> QED BY <2>1, <2>5, <2>6 DEF RunOutcome
<1>8. ASSUME NEW t \in ThreadIds, threadMap' = threadMap, op' = op, OthersSame(t),
             threads[t].attached /\ threads[t].report \in Running =>
                /\ threads'[t].attached /\ threads'[t].pkg = threads[t].pkg
                /\ threads'[t].pc \in {"update", "snap", "record"} => threads'[t].report \in Running,
             threads[t].pc \in {"update", "snap", "record"}
      PROVE  MappedIsBusy'
    <2>1. \A q \in Packages : threadMap[q] # 0 /\ threadMap[q] # t =>
              Same(threads'[threadMap[q]], threads[threadMap[q]])
        BY <1>m, <1>8 DEF OthersSame
    <2>2. \A q \in Packages : threadMap[q] # 0 /\ threadMap[q] = t =>
              threads[t].attached /\ threads[t].report \in Running /\ threads[t].pkg = q
        BY <1>0, <1>8 DEF MappedIsBusy
    <2> QED BY <1>0, <1>8, <2>1, <2>2 DEF MappedIsBusy, Same
<1>9. ASSUME NEW t \in ThreadIds, UpdateDownloadProgress(t) PROVE MappedIsBusy'
    <2>0. /\ threads[t].pc = "update" /\ op' = op /\ ServiceMutexFree
          /\ DroppedReport(t) \/ RetriedReport(t) \/ RecordedReport(t)
        BY <1>9, UpdateWork DEF taskRest
    <2>1. CASE DroppedReport(t)
        <3>1. /\ OthersSame(t) /\ GainsNone /\ threadMap' = threadMap
              /\ threads[t].report \in Running => threads'[t].attached = threads[t].attached
              /\ threads'[t].pc \in {"running", "verifying", "free"}
            BY <2>0, <2>1, UpdateKeepsWork DEF DroppedReport
        <3> QED BY <1>8, <2>0, <3>1 DEF GainsNone
    <2>2. CASE RetriedReport(t)
        <3>1. \A q \in Packages : threadMap[q] # t
            <4>1. t # 0 /\ threads[t].report \notin Running
                BY <2>2, EngineAssumption DEF ThreadIds, RetriedReport, Running
            <4> QED BY <1>0, <2>0, <4>1 DEF MappedIsBusy
        <3>2. threads[t].pkg \in Packages
            BY DEF Types, PoolType, ThreadPool, ThreadRec
        <3> QED BY <1>0, <2>0, <2>2, <3>1, <3>2, FreshStaysMapped DEF RetriedReport
    <2>3. CASE RecordedReport(t)
        BY <1>8, <2>0, <2>3 DEF RecordedReport
    <2> QED BY <2>0, <2>1, <2>2, <2>3
<1>10. ASSUME NEW t \in ThreadIds, GetTaskProgress(t) PROVE MappedIsBusy'
    <2>0. /\ threads[t].pc = "snap" /\ op' = op /\ threadMap' = threadMap /\ GainsNone
        BY <1>10, LookWork DEF taskSide
    <2>1. CASE LooksAtTask(t)
        BY <1>8, <2>0, <2>1 DEF LooksAtTask
    <2>2. CASE /\ OthersSame(t)
               /\ threads[t].report \in Running => threads'[t].attached = threads[t].attached
               /\ threads'[t].pc \in {"running", "verifying", "free"}
        BY <1>8, <2>0, <2>2 DEF GainsNone
    <2> QED BY <1>10, <2>1, <2>2, LookWork
<1>11. ASSUME NEW t \in ThreadIds, UpdateTaskProgress(t) PROVE MappedIsBusy'
    <2>0. /\ threads[t].pc = "record" /\ op' = op /\ threadMap' = threadMap /\ GainsNone
          /\ OthersSame(t)
          /\ threads[t].report \in Running => threads'[t].attached = threads[t].attached
          /\ threads'[t].pc \in {"running", "verifying", "free"}
        BY <1>11, RecordWork
    <2> QED BY <1>8, <2>0 DEF GainsNone
<1>12. CASE Restart
    BY <1>12, <1>z, RestartWork
<1> QED BY <1>1, <1>2, <1>3, <1>4, <1>5, <1>6, <1>7, <1>9, <1>10, <1>11, <1>12, AsideOrWork
        DEF WorkStep

(* A step that keeps the threads at work, and calls nothing running anew.  *)
LEMMA KeepsRunningBusy ==
    ASSUME Types, RunningIsBusy, KeepsBusy, pkgs' \subseteq pkgs,
           \A p \in pkgs : info'[p].status \in Running => info[p].status \in Running
    PROVE  RunningIsBusy'
<1> SUFFICES ASSUME NEW p \in pkgs', info'[p].status \in Running PROVE BusyOn(p)'
    BY DEF RunningIsBusy
<1>1. BusyOn(p)
    BY DEF RunningIsBusy
<1> QED BY <1>1 DEF BusyOn, KeepsBusy

(* What counts as running has a thread at work, step by step.              *)
LEMMA StaysBusy ==
    ASSUME Types, Types', CalmInv, PoolInv, [CalmNext]_vars
    PROVE  RunningIsBusy'
<1>0. RunningIsBusy /\ OpType /\ PkgsType /\ PkgsType' /\ InfoType
    BY DEF PoolInv, Types
<1>1. CASE AsideStep
    BY <1>0, <1>1, AsideWork, SameKeepsWork, KeepsRunningBusy
<1>2. CASE CleanUpStep
    BY <1>0, <1>2, CleanUpWork, SameKeepsWork, KeepsRunningBusy
<1>3. CASE StartTask \/ Restart
    <2>1. \A p \in Packages : info'[p].status \notin Running
        BY <1>3, StartWork, RestartWork DEF Running
    <2> QED BY <1>0, <2>1 DEF RunningIsBusy, PkgsType
<1>4. ASSUME NEW p \in Packages, StartPackage(p) \/ ResumePackage(p) PROVE RunningIsBusy'
    <2>0. pkgs' = pkgs
        BY <1>4 DEF StartPackage, ResumePackage, task
    <2>1. CASE UNCHANGED <<info, pool>>
        BY <1>0, <2>0, <2>1, SameItself, SameKeepsWork, KeepsRunningBusy DEF pool
    <2>2. CASE /\ \E s : StartDownloadThread(p, s)
               /\ \A q \in Packages \ {p} : info'[q] = info[q]
        <3>1. PICK t \in ThreadIds :
                 threads[t].pc = "free" /\ Fresh(threads'[t], p) /\ OthersSame(t)
            BY <2>2, FreshThread
        <3>2. KeepsBusy /\ Busy(t)'
            BY <3>1, FreshKeepsWork DEF CalmInv
        <3>3. BusyOn(p)'
            BY <3>1, <3>2 DEF BusyOn, Fresh
        <3> SUFFICES ASSUME NEW q \in pkgs', info'[q].status \in Running, q # p PROVE BusyOn(q)'
            BY <3>3 DEF RunningIsBusy
        <3>4. BusyOn(q)
            BY <1>0, <2>0, <2>2 DEF RunningIsBusy, PkgsType
        <3> QED BY <3>2, <3>4 DEF BusyOn, KeepsBusy
    <2>3. ResumePackage(p) => UNCHANGED <<info, pool>> \/
              ((\E s : StartDownloadThread(p, s)) /\ \A q \in Packages \ {p} : info'[q] = info[q])
        BY <1>0 DEF ResumePackage, InfoType
    <2>4. StartPackage(p) =>
              (\E s : StartDownloadThread(p, s)) /\ \A q \in Packages \ {p} : info'[q] = info[q]
        BY DEF StartPackage
    <2> QED BY <1>4, <2>1, <2>2, <2>3, <2>4
<1>5. CASE ResumeTask
    <2>1. threads' = threads /\ pkgs' = pkgs
          /\ \A p \in Packages : info'[p] = info[p] \/ info'[p] = [info[p] EXCEPT !.status = "INIT"]
        BY <1>5 DEF ResumeTask, pool
    <2>2. \A p \in Packages : info[p] \in InfoRec
        BY <1>0 DEF InfoType
    <2>3. \A p \in Packages : info'[p].status \in {info[p].status, "INIT"}
        BY <2>1, <2>2 DEF InfoRec
    <2>4. \A p \in pkgs : info'[p].status \in Running => info[p].status \in Running
        BY <1>0, <2>3 DEF PkgsType, Running
    <2> QED BY <1>0, <2>1, <2>4, SameItself, SameKeepsWork, KeepsRunningBusy
<1>6. ASSUME NEW p \in Packages, NetPausePackage(p) PROVE RunningIsBusy'
    <2>1. SamePool /\ pkgs' = pkgs /\ (PausedAtOnce(p) \/ UNCHANGED info)
        BY <1>6, NetPauseWork
    <2>2. \A q \in pkgs : info'[q].status \in Running => info[q].status \in Running
        BY <1>0, <2>1 DEF PausedAtOnce, PkgsType, Running
    <2> QED BY <1>0, <2>1, <2>2, SameKeepsWork, KeepsRunningBusy
<1>7. ASSUME NEW t \in ThreadIds, RunStep(t) PROVE RunningIsBusy'
    BY <1>0, <1>7, RunWork, RunKeepsWork, KeepsRunningBusy DEF taskSide
<1>8. ASSUME NEW t \in ThreadIds, UpdateDownloadProgress(t) PROVE RunningIsBusy'
    <2>0. /\ threads[t].pc = "update" /\ pkgs' = pkgs
          /\ DroppedReport(t) \/ RetriedReport(t) \/ RecordedReport(t)
        BY <1>8, UpdateWork DEF taskRest
    <2>1. CASE DroppedReport(t)
        <3>1. info' = info /\ OthersSame(t) /\ (~threads[t].attached \/ threads[t].pkg \notin pkgs)
            BY <2>0, <2>1, UpdateKeepsWork DEF DroppedReport
        <3> SUFFICES ASSUME NEW q \in pkgs, info[q].status \in Running PROVE BusyOn(q)'
            BY <2>0, <3>1 DEF RunningIsBusy
        <3>2. PICK u \in ThreadIds : Busy(u) /\ threads[u].pkg = q
            BY <1>0 DEF RunningIsBusy, BusyOn
        <3>3. u # t
            BY <3>1, <3>2 DEF Busy
        <3>4. Same(threads'[u], threads[u])
            BY <3>1, <3>3 DEF OthersSame
        <3> QED BY <3>2, <3>4, SameWork DEF BusyOn, Same
    <2>2. CASE RetriedReport(t)
        <3>1. KeepsBusy /\ \A q \in Packages : info'[q].status = info[q].status
            BY <2>0, <2>2, UpdateKeepsWork DEF RetriedReport
        <3>2. \A q \in pkgs : info'[q].status \in Running => info[q].status \in Running
            BY <1>0, <3>1 DEF PkgsType
        <3> QED BY <1>0, <2>0, <3>1, <3>2, KeepsRunningBusy
    <2>3. CASE RecordedReport(t)
        <3>1. /\ info'[threads[t].pkg].status = Recorded(t) /\ OthersSame(t)
              /\ \A q \in Packages \ {threads[t].pkg} : info'[q].status = info[q].status
              /\ threads'[t].pkg = threads[t].pkg /\ Busy(t)
            BY <2>0, <2>3, UpdateKeepsWork DEF RecordedReport
        <3> SUFFICES ASSUME NEW q \in pkgs, info'[q].status \in Running PROVE BusyOn(q)'
            BY <2>0 DEF RunningIsBusy
        <3>2. CASE q = threads[t].pkg
            <4>1. threads[t].report \in Running
                BY <3>1, <3>2 DEF Recorded, Running
            <4>2. KeepsBusy
                BY <2>0, <2>3, <4>1, UpdateKeepsWork
            <4> QED BY <3>1, <3>2, <4>2 DEF KeepsBusy, BusyOn
        <3>3. CASE q # threads[t].pkg
            <4>1. info[q].status \in Running
                BY <1>0, <3>1, <3>3 DEF PkgsType
            <4>2. PICK u \in ThreadIds : Busy(u) /\ threads[u].pkg = q
                BY <1>0, <4>1 DEF RunningIsBusy, BusyOn
            <4>3. Same(threads'[u], threads[u])
                BY <3>1, <3>3, <4>2 DEF OthersSame
            <4> QED BY <4>2, <4>3, SameWork DEF BusyOn, Same
        <3> QED BY <3>2, <3>3
    <2> QED BY <2>0, <2>1, <2>2, <2>3
<1>9. ASSUME NEW t \in ThreadIds, GetTaskProgress(t) PROVE RunningIsBusy'
    <2>1. UNCHANGED <<info, pkgs>>
        BY <1>9, LookWork DEF taskSide
    <2>2. CASE pkgs = {}
        BY <2>1, <2>2 DEF RunningIsBusy
    <2>3. CASE pkgs # {}
        <3>1. ~threads[t].attached => ~Busy(t)
            BY DEF Busy
        <3>2. KeepsBusy
            BY <1>9, <2>3, <3>1, LookWork
        <3> QED BY <1>0, <2>1, <3>2, KeepsRunningBusy
    <2> QED BY <2>2, <2>3
<1>10. ASSUME NEW t \in ThreadIds, UpdateTaskProgress(t) PROVE RunningIsBusy'
    BY <1>0, <1>10, RecordWork, KeepsRunningBusy
<1> QED BY <1>1, <1>2, <1>3, <1>4, <1>5, <1>6, <1>7, <1>8, <1>9, <1>10, AsideOrWork DEF WorkStep

(* A task in the map has packages, and the threads of a task are theirs.   *)
LEMMA StaysWithPackages ==
    ASSUME Types, Types', CalmInv, PoolInv, [CalmNext]_vars
    PROVE  TaskHasPackages'
<1>0. TaskHasPackages /\ OpType /\ PkgsType /\ Packages # {}
    BY EngineAssumption DEF PoolInv, Types
<1>a. ASSUME GainsNone, UNCHANGED pkgs, inMap' => inMap,
             \/ op'.kind \notin {"start", "resume"}
             \/ op'.kind = op.kind /\ op'.todo \subseteq op.todo
      PROVE  TaskHasPackages'
    BY <1>0, <1>a DEF TaskHasPackages, GainsNone
<1>1. CASE AsideStep
    <2>1. GainsNone /\ UNCHANGED pkgs
        BY <1>1, AsideWork, SameKeepsWork
    <2>2. CASE EnsureInsert
        <3>1. op.kind = "start" /\ op' = NoOp
            BY <2>2 DEF EnsureInsert
        <3>2. pkgs = Packages /\ op'.kind = "none"
            BY <1>0, <3>1 DEF TaskHasPackages, NoOp
        <3> QED BY <1>0, <2>1, <3>2 DEF TaskHasPackages, GainsNone
    <2>3. CASE ResumeFinish \/ NetLostFinish \/ OnNetLost
        <3>1. op' = NoOp \/ \E T : op' = [NoOp EXCEPT !.kind = "net", !.todo = T]
            BY <2>3 DEF ResumeFinish, NetLostFinish, OnNetLost
        <3>2. op'.kind \in {"none", "net"}
            <4>1. CASE op' = NoOp
                BY <4>1 DEF NoOp
            <4>2. CASE \E T : op' = [NoOp EXCEPT !.kind = "net", !.todo = T]
                BY <4>2 DEF NoOp
            <4> QED BY <3>1, <4>1, <4>2
        <3> QED BY <1>a, <2>1, <2>3, <3>2 DEF ResumeFinish, NetLostFinish, OnNetLost, task
    <2>4. CASE WorkerDealCallBack
        BY <1>a, <2>1, <2>4 DEF WorkerDealCallBack, DealCallBack
    <2>5. CASE ~(EnsureInsert \/ ResumeFinish \/ NetLostFinish \/ OnNetLost \/ WorkerDealCallBack)
        <3>1. UNCHANGED <<op, inMap>>
            BY <1>1, <2>5 DEF AsideStep, NewVersionFound, PerformDownload, PerformResumeDownload,
                OnNetAvailable, OnNetIgnored, TakeCallback, TimedTask, CallbackProgress,
                NetChanges, vars, task
        <3> QED BY <1>a, <2>1, <3>1
    <2> QED BY <2>2, <2>3, <2>4, <2>5
<1>2. CASE CleanUpStep
    <2>1. /\ GainsNone /\ op.kind = "none" /\ op' = op
          /\ UNCHANGED <<inMap, pkgs>> \/ (inMap' = FALSE /\ pkgs' = {})
        BY <1>2, CleanUpWork, SameKeepsWork
    <2> QED BY <1>0, <1>a, <2>1 DEF TaskHasPackages
<1>3. CASE StartTask
    <2>1. /\ \A u \in ThreadIds : ~threads'[u].attached
          /\ inMap' = FALSE
          /\ (op'.kind = "start" /\ pkgs' = Packages) \/ op'.kind = "none"
        BY <1>3, StartWork DEF StartTask, MapMutexFree, NoOp
    <2> QED BY <2>1 DEF TaskHasPackages
<1>4. ASSUME NEW p \in Packages, StartPackage(p) \/ ResumePackage(p) PROVE TaskHasPackages'
    <2>0. /\ op'.kind = op.kind /\ op'.todo \subseteq op.todo /\ UNCHANGED <<pkgs, inMap>>
          /\ p \in op.todo /\ op.kind \in {"start", "resume"}
        <3>1. op' = [op EXCEPT !.todo = op.todo \ {p}] /\ UNCHANGED <<pkgs, inMap>>
              /\ p \in op.todo /\ op.kind \in {"start", "resume"}
            BY <1>4 DEF StartPackage, ResumePackage, task
        <3> QED BY <1>0, <3>1 DEF OpType, OpRec
    <2>1. p \in pkgs
        BY <1>0, <2>0 DEF TaskHasPackages
    <2>2. CASE UNCHANGED pool
        BY <1>a, <2>0, <2>2, SameItself, SameKeepsWork DEF pool
    <2>3. CASE \E s : StartDownloadThread(p, s)
        <3>1. PICK t \in ThreadIds : Fresh(threads'[t], p) /\ OthersSame(t)
            BY <2>3, FreshThread
        <3>2. \A u \in ThreadIds : threads'[u].attached => threads'[u].pkg \in pkgs
            BY <1>0, <2>1, <3>1 DEF TaskHasPackages, Fresh, OthersSame, Same
        <3> QED BY <1>0, <2>0, <3>2 DEF TaskHasPackages
    <2> QED BY <1>4, <2>2, <2>3 DEF StartPackage, ResumePackage
<1>5. CASE ResumeTask
    <2>1. /\ threads' = threads /\ UNCHANGED <<pkgs, inMap>>
          /\ \/ op' = [NoOp EXCEPT !.kind = "resume", !.todo = pkgs]
             \/ op' = [NoOp EXCEPT !.kind = "resume"]
        BY <1>5 DEF ResumeTask, pool
    <2>2. op'.kind = "resume" /\ op'.todo \subseteq pkgs
        BY <2>1 DEF NoOp
    <2> QED BY <1>0, <2>1, <2>2 DEF TaskHasPackages
<1>6. ASSUME NEW p \in Packages, NetPausePackage(p) PROVE TaskHasPackages'
    BY <1>a, <1>6, NetPauseWork, SameKeepsWork
<1>7. ASSUME NEW t \in ThreadIds, RunStep(t) PROVE TaskHasPackages'
    BY <1>a, <1>7, RunWork, RunKeepsWork DEF taskSide
<1>8. ASSUME NEW t \in ThreadIds, UpdateDownloadProgress(t) PROVE TaskHasPackages'
    <2>1. UNCHANGED <<pkgs, inMap, op>> /\ threads[t].pc = "update"
        BY <1>8, UpdateWork DEF taskRest
    <2>2. GainsNone
        BY <1>8, <2>1, UpdateWork, UpdateKeepsWork
    <2> QED BY <1>a, <2>1, <2>2
<1>9. ASSUME NEW t \in ThreadIds, GetTaskProgress(t) PROVE TaskHasPackages'
    BY <1>a, <1>9, LookWork DEF taskSide
<1>10. ASSUME NEW t \in ThreadIds, UpdateTaskProgress(t) PROVE TaskHasPackages'
    BY <1>a, <1>10, RecordWork
<1>11. CASE Restart
    BY <1>11, RestartWork DEF TaskHasPackages
<1> QED BY <1>1, <1>2, <1>3, <1>4, <1>5, <1>6, <1>7, <1>8, <1>9, <1>10, <1>11, AsideOrWork
        DEF WorkStep

(* The engine is calm and its pool in order until the first cancellation.  *)
PoolHolds == Uncancelled => CalmInv /\ PoolInv

(* Every step keeps it.                                                    *)
LEMMA PoolStep == ASSUME Types, Types', PoolHolds, [Next]_vars PROVE PoolHolds'
<1> SUFFICES ASSUME Uncancelled' PROVE CalmInv' /\ PoolInv'
    BY DEF PoolHolds
<1>1. CalmInv /\ PoolInv
    BY StaysUncancelled DEF PoolHolds
<1>2. [CalmNext]_vars
    BY <1>1, CalmSteps
<1> QED BY <1>1, <1>2, StaysCalm, StaysMapped, StaysBusy, StaysWithPackages DEF PoolInv

(* It holds in the beginning.                                              *)
LEMMA InitPool == Init => CalmInv /\ PoolInv
<1> SUFFICES ASSUME Init PROVE CalmInv /\ PoolInv
    OBVIOUS
<1>1. \A t \in ThreadIds : Freed(threads[t])
    BY DEF Init, FreeThread, Freed
<1>2. op.kind = "none" /\ op.todo = {}
    BY DEF Init, NoOp
<1>3. \A p \in Packages : info[p].status = "INIT" /\ db[p] = "none" /\ threadMap[p] = 0
    BY DEF Init
<1>4. CalmInv
    BY <1>1, <1>2, <1>3 DEF Init, CalmInv, CalmOps, CalmStatuses, CalmThread, Freed, IsSyncCallback
<1>5. PoolInv
    BY <1>1, <1>2, <1>3 DEF Init, PoolInv, MappedIsBusy, RunningIsBusy, TaskHasPackages, Freed
<1> QED BY <1>4, <1>5

(* It always holds.                                                        *)
LEMMA PoolAlways == Spec => []PoolHolds
<1>1. Init => PoolHolds
    BY InitPool DEF PoolHolds
<1>2. Types /\ Types' /\ PoolHolds /\ [Next]_vars => PoolHolds'
    BY PoolStep
<1> QED BY <1>1, <1>2, TypesHold, PTL DEF Spec

(* Until the first cancellation a package that counts as running has a     *)
(* thread that will report on it, for any number of packages, threads,     *)
(* retries, network changes and power losses: a thread stops being at work *)
(* on a package only where it writes a status that is no longer running,   *)
(* Resume gives a package its thread together with its status, and a       *)
(* restart brings no running status back.                                  *)
THEOREM RunningPackagesHaveThreads == Spec => [](Uncancelled => RunningHasThread)
<1>1. PoolHolds => (Uncancelled => RunningHasThread)
    <2> SUFFICES ASSUME CalmInv, PoolInv, NEW p \in pkgs, info[p].status \in Running
                 PROVE  \E t \in Live : threads[t].pkg = p /\ threads[t].attached
        BY DEF PoolHolds, RunningHasThread, Running
    <2>1. PICK t \in ThreadIds : Busy(t) /\ threads[t].pkg = p
        BY DEF PoolInv, RunningIsBusy, BusyOn
    <2>2. threads[t].attached /\ threads[t].pc # "free"
        BY <2>1 DEF Busy, CalmInv, CalmThread
    <2> QED BY <2>1, <2>2 DEF Live
<1> QED BY <1>1, PoolAlways, PTL

-----------------------------------------------------------------------------
(* The firmware and the engine                                             *)

(* Most steps leave the firmware, the map and the worker alone.            *)
LEMMA SameClient ==
    ASSUME ClientInv, op'.kind = op.kind,
           UNCHANGED <<fw, downloadTaskId, alive, want, inMap, hasCallback, worker>>
    PROVE  ClientInv'
BY DEF ClientInv, IsFinal, UpgradeStatus

(* A final status is never one the firmware calls DOWNLOADING.             *)
LEMMA FinalUpgrade ==
    ASSUME NEW s \in TaskStatuses
    PROVE  /\ IsFinal(s) => UpgradeStatus(s) \notin {"DOWNLOADING", "NO_TASK", "DOWNLOAD_PAUSE"}
           /\ IsTaskCompleted(s) => UpgradeStatus(s) # "DOWNLOADING"
           /\ UpgradeStatus(s) = "DOWNLOAD_SUCCESS" <=> s = "SUCCESS"
           /\ ~IsFinal(s) => UpgradeStatus(s) \in {"DOWNLOADING", "DOWNLOAD_PAUSE"}
           /\ IsFinal(s) => IsTaskCompleted(s)
BY TaskStatusIsStatus DEF IsFinal, IsTaskCompleted, UpgradeStatus

(* No flow is alive while a download may be asked for.                     *)
LEMMA IdleClient ==
    ASSUME ClientInv, MayDownload
    PROVE  ~alive /\ want = "none" /\ op.kind # "start" /\ fw # "DOWNLOADING"
BY DEF ClientInv, MayDownload

(* A clean-up of the firmware: nothing is alive, before or after.          *)
LEMMA CleanUpClient ==
    ASSUME Types, ClientInv, CleanUpStep
    PROVE  /\ ~alive /\ ~alive' /\ want' = "none" /\ fw' # "DOWNLOADING"
           /\ worker' = worker \/ worker' = IdleWorker
           /\ worker'.pc # "remove"
<1>0. CurrentStatus \in TaskStatuses /\ worker.status \in TaskStatuses /\ IdleWorker.pc = "idle"
    BY TaskStatusType DEF Types, WorkerType, WorkerRec, IdleWorker, CurrentStatus
<1>a. fw \in FwStatuses
    BY DEF Types, FwType
<1>1. CASE ReportFinishedDownload
    <2>1. /\ ~alive /\ want = "none" /\ worker.pc # "remove"
          /\ UNCHANGED <<alive, want, worker>>
        BY <1>1, IdleClient DEF ReportFinishedDownload, ClientInv, serial
    <2>2. fw' \in {"NO_TASK", UpgradeStatus(CurrentStatus)} /\ IsFinal(CurrentStatus)
        BY <1>1 DEF ReportFinishedDownload, FinishRemove, IsCompleted, IsFinal
    <2> QED BY <1>0, <2>1, <2>2, FinalUpgrade
<1>2. CASE ResumeRunningFails
    <2>1. /\ ~alive /\ want = "none" /\ worker.pc # "remove"
          /\ UNCHANGED <<alive, want, worker>>
        BY <1>2, IdleClient DEF ResumeRunningFails, ClientInv, serial
    <2>2. fw' = "NO_TASK"
        BY <1>2 DEF ResumeRunningFails, FinishRemove
    <2> QED BY <2>1, <2>2
<1>3. CASE ResumeMissingTask
    <2>1. want = "resume" /\ want' = "none" /\ ~alive' /\ worker' = worker /\ fw' = "NO_TASK"
        BY <1>3 DEF ResumeMissingTask, FinishRemove, serial
    <2> QED BY <2>1 DEF ClientInv
<1>4. CASE WorkerRemove
    <2>1. /\ worker.pc = "remove" /\ worker' = IdleWorker /\ UNCHANGED <<alive, want>>
          /\ fw' \in {"NO_TASK", fw}
        BY <1>4 DEF WorkerRemove, FinishRemove
    <2>2. IsFinal(worker.status) /\ fw = UpgradeStatus(worker.status) /\ want = "none"
        BY <2>1 DEF ClientInv
    <2>3. fw # "DOWNLOADING"
        BY <1>0, <2>2, FinalUpgrade
    <2>4. ~alive
        BY <2>3 DEF ClientInv
    <2> QED BY <1>0, <2>1, <2>2, <2>3, <2>4
<1> QED BY <1>1, <1>2, <1>3, <1>4 DEF CleanUpStep

(* The callback: with a final status the flow completes, and its clean-up  *)
(* finds the firmware task as that status left it.                         *)
LEMMA DealClient ==
    ASSUME Types, Types', ClientInv, FinalIsOut, WorkerDealCallBack
    PROVE  ClientInv'
<1> DEFINE s == worker.status
<1>0. /\ s \in TaskStatuses /\ worker \in WorkerRec /\ IdleWorker.pc = "idle"
      /\ inMap \in BOOLEAN /\ alive \in BOOLEAN
    BY DEF Types, WorkerType, WorkerRec, IdleWorker, MapTaskType, AliveType
<1>1. /\ worker.pc = "deal" /\ DealCallBack(s)
      /\ worker' = IF NeedsRemove(s) THEN [worker EXCEPT !.pc = "remove"] ELSE IdleWorker
      /\ UNCHANGED <<downloadTaskId, want, op, hasCallback>>
    BY DEF WorkerDealCallBack
<1>2. CASE inMap /\ alive
    <2>1. fw = "DOWNLOADING" /\ want = "none" /\ downloadTaskId /\ hasCallback /\ op.kind # "start"
        BY <1>2 DEF ClientInv, FinalIsOut
    <2>2. /\ fw' = UpgradeStatus(s) /\ alive' = (UpgradeStatus(s) = "DOWNLOADING")
          /\ inMap' = ~IsFinal(s)
        BY <1>0, <1>1, <1>2, <2>1 DEF DealCallBack
    <2>3. CASE IsFinal(s)
        <3>1. worker' = [worker EXCEPT !.pc = "remove"]
            BY <1>1, <1>2, <2>3 DEF NeedsRemove
        <3>2. worker'.status = s /\ worker'.pc = "remove"
            BY <1>0, <3>1 DEF WorkerRec
        <3>3. fw' # "DOWNLOADING"
            BY <1>0, <2>2, <2>3, FinalUpgrade
        <3> HIDE DEF s
        <3> QED BY <1>1, <2>1, <2>2, <2>3, <3>2, <3>3 DEF ClientInv
    <2>4. CASE ~IsFinal(s)
        <3>1. worker' = IdleWorker
            BY <1>1, <2>4 DEF NeedsRemove
        <3> HIDE DEF s
        <3> QED BY <1>0, <1>1, <2>1, <2>2, <2>4, <3>1 DEF ClientInv
    <2> QED BY <2>3, <2>4
<1>3. CASE ~(inMap /\ alive)
    <2>1. fw' = fw /\ alive' = alive /\ worker' = IdleWorker /\ (inMap' => inMap)
          /\ (alive => inMap' = inMap)
        BY <1>0, <1>1, <1>3 DEF DealCallBack, NeedsRemove
    <2> HIDE DEF s
    <2> QED BY <1>0, <1>1, <2>1 DEF ClientInv
<1> QED BY <1>2, <1>3

(* Step by step, as long as no download overlaps the clean-up of another.  *)
LEMMA StaysClient ==
    ASSUME Types, Types', CalmInv, ClientInv, FinalIsOut, [CalmNext]_vars, ~overlapped'
    PROVE  ClientInv'
<1>0. /\ OpType /\ net \in BOOLEAN
      /\ NoOp.kind = "none" /\ IdleWorker.pc = "idle"
    BY DEF Types, NetType, NoOp, IdleWorker
<1>1. CASE NewVersionFound
    <2>1. /\ fw = "NO_TASK" /\ fw' = "CHECK_VERSION_SUCCESS"
          /\ UNCHANGED <<alive, want, op, inMap, hasCallback, worker>>
        BY <1>1 DEF NewVersionFound, task, serial
    <2>2. worker.pc # "remove"
        <3>1. worker.status \in TaskStatuses
            BY DEF Types, WorkerType, WorkerRec
        <3> QED BY <2>1, <3>1, FinalUpgrade DEF ClientInv
    <2> QED BY <2>1, <2>2 DEF ClientInv
<1>2. CASE PerformDownload
    <2>1. /\ MayDownload /\ want' = "start" /\ fw' = "DOWNLOADING" /\ downloadTaskId' = TRUE
          /\ UNCHANGED <<alive, op, inMap, hasCallback, worker>>
          /\ worker.pc # "remove"
        BY <1>2 DEF PerformDownload, task, serial, CleanUpPending
    <2> QED BY <2>1, IdleClient DEF ClientInv
<1>3. CASE PerformResumeDownload
    <2>1. /\ MayDownload /\ want' = "resume" /\ fw' = "DOWNLOADING" /\ downloadTaskId /\ inMap
          /\ UNCHANGED <<downloadTaskId, alive, op, inMap, hasCallback, worker>>
        BY <1>3 DEF PerformResumeDownload, task, serial
    <2> QED BY <2>1, IdleClient DEF ClientInv
<1>4. CASE CleanUpStep
    <2>1. op.kind = "none" /\ op' = op
        BY <1>4, CleanUpWork
    <2> QED BY <1>4, <2>1, CleanUpClient DEF ClientInv
<1>5. CASE StartTask
    <2>1. /\ want = "start" /\ want' = "none" /\ op.kind = "none"
          /\ \/ /\ op' = [NoOp EXCEPT !.kind = "start", !.todo = Packages]
                /\ hasCallback' = TRUE /\ alive' = TRUE
                /\ UNCHANGED <<fw, downloadTaskId>>
             \/ op' = op /\ fw' = "NO_TASK" /\ alive' = FALSE
          /\ worker' = IdleWorker \/ worker' = worker
        BY <1>5 DEF StartTask, MapMutexFree
    <2>2. fw = "DOWNLOADING" /\ worker.pc # "remove" /\ downloadTaskId
        BY <2>1 DEF ClientInv
    <2>3. worker'.pc # "remove"
        BY <1>0, <2>1, <2>2
    <2>4. CASE /\ op' = [NoOp EXCEPT !.kind = "start", !.todo = Packages]
               /\ hasCallback' = TRUE /\ alive' = TRUE
               /\ UNCHANGED <<fw, downloadTaskId>>
        <3>1. op'.kind = "start"
            BY <2>4 DEF NoOp
        <3> QED BY <2>1, <2>2, <2>3, <2>4, <3>1 DEF ClientInv
    <2>5. CASE op' = op /\ fw' = "NO_TASK" /\ alive' = FALSE
        BY <2>1, <2>3, <2>5 DEF ClientInv
    <2> QED BY <2>1, <2>4, <2>5
<1>6. ASSUME NEW p \in Packages, StartPackage(p) \/ ResumePackage(p) PROVE ClientInv'
    <2>1. op'.kind = op.kind
        BY <1>6, LoopKinds
    <2> QED BY <1>6, <2>1, SameClient DEF StartPackage, ResumePackage, client, task, serial
<1>7. CASE EnsureInsert
    <2>1. op.kind = "start" /\ op' = NoOp /\ inMap' = TRUE
          /\ UNCHANGED <<fw, downloadTaskId, alive, want, hasCallback, worker>>
        BY <1>7 DEF EnsureInsert, client
    <2> QED BY <1>0, <2>1 DEF ClientInv
<1>8. CASE ResumeTask
    <2>1. /\ want = "resume" /\ want' = "none" /\ inMap /\ hasCallback' = TRUE /\ alive' = net
          /\ fw' = (IF net THEN fw ELSE "DOWNLOAD_PAUSE")
          /\ UNCHANGED <<downloadTaskId, inMap, worker>>
        BY <1>8 DEF ResumeTask
    <2>2. op'.kind = "resume"
        BY <1>8, LoopKinds, EngineAssumption
    <2> QED BY <1>0, <2>1, <2>2 DEF ClientInv
<1>9. CASE ResumeFinish \/ NetLostFinish \/ OnNetLost
    <2>1. op.kind # "start"
        BY <1>9 DEF ResumeFinish, NetLostFinish, OnNetLost, MapMutexFree
    <2>2. op'.kind # "start"
        <3>1. op' = NoOp \/ \E T : op' = [NoOp EXCEPT !.kind = "net", !.todo = T]
            BY <1>9 DEF ResumeFinish, NetLostFinish, OnNetLost
        <3>2. op'.kind \in {"none", "net"}
            <4>1. CASE op' = NoOp
                BY <4>1 DEF NoOp
            <4>2. CASE \E T : op' = [NoOp EXCEPT !.kind = "net", !.todo = T]
                BY <4>2 DEF NoOp
            <4> QED BY <3>1, <4>1, <4>2
        <3> QED BY <3>2
    <2>3. UNCHANGED <<fw, downloadTaskId, alive, want, inMap, hasCallback, worker>>
        BY <1>9 DEF ResumeFinish, NetLostFinish, OnNetLost, client, task, serial
    <2> QED BY <2>1, <2>2, <2>3 DEF ClientInv
<1>10. CASE OnNetAvailable \/ OnNetIgnored \/ NetChanges
    BY <1>10, SameClient DEF OnNetAvailable, OnNetIgnored, NetChanges, client, task, serial
<1>11. ASSUME NEW p \in Packages, NetPausePackage(p) PROVE ClientInv'
    BY <1>11, NetPauseWork, SameClient
<1>12. ASSUME NEW t \in ThreadIds, RunStep(t) \/ GetTaskProgress(t) PROVE ClientInv'
    BY <1>12, RunWork, LookWork, SameClient DEF taskSide
<1>13. ASSUME NEW t \in ThreadIds, UpdateDownloadProgress(t) PROVE ClientInv'
    BY <1>13, UpdateWork, SameClient DEF taskRest
<1>14. ASSUME NEW t \in ThreadIds, UpdateTaskProgress(t) PROVE ClientInv'
    BY <1>14, RecordWork, SameClient
<1>15. CASE TakeCallback \/ TimedTask \/ CallbackProgress
    <2>1. worker'.pc # "remove"
        <3>1. worker \in WorkerRec
            BY DEF Types, WorkerType
        <3>2. \/ worker' = IdleWorker \/ \E s : worker' = [pc |-> "call", status |-> s]
              \/ worker' = [worker EXCEPT !.pc = "deal"]
            BY <1>15 DEF TakeCallback, TimedTask, CallbackProgress
        <3> QED BY <1>0, <3>1, <3>2 DEF WorkerRec
    <2> QED BY <1>15, <2>1 DEF TakeCallback, TimedTask, CallbackProgress, client, task, ClientInv
<1>16. CASE WorkerDealCallBack
    BY <1>16, DealClient
<1>17. CASE Restart
    <2>1. /\ fw' # "DOWNLOADING" /\ alive' = FALSE /\ want' = "none" /\ op' = NoOp
          /\ worker' = IdleWorker
        BY <1>17 DEF Restart
    <2> QED BY <1>0, <2>1 DEF ClientInv
<1>18. CASE UNCHANGED vars
    BY <1>18, SameClient DEF vars
<1> QED BY <1>1, <1>2, <1>3, <1>4, <1>5, <1>6, <1>7, <1>8, <1>9, <1>10, <1>11, <1>12, <1>13,
           <1>14, <1>15, <1>16, <1>17, <1>18 DEF CalmNext

-----------------------------------------------------------------------------
(* The end of a download reaches the firmware                              *)

(* A flow that is alive has a task with packages, and the threads of that  *)
(* task are theirs.                                                        *)
LEMMA AliveHasPackages ==
    ASSUME PoolInv, ClientInv, alive
    PROVE  /\ pkgs # {}
           /\ \A t \in ThreadIds : threads[t].attached => threads[t].pkg \in pkgs
BY EngineAssumption DEF PoolInv, TaskHasPackages, ClientInv

(* While the task has not ended somebody is at work, or the loop of Start  *)
(* or Resume still comes to a package.                                     *)
LEMMA NotEnded ==
    ASSUME Types, PoolInv, ClientInv, InitHasTurn, alive, ~IsTaskCompleted(CurrentStatus)
    PROVE  \E p \in pkgs : BusyOn(p) \/ HasTurn(p)
<1>0. pkgs # {} /\ \A p \in pkgs : info[p].status \in DownloadStatuses
    BY AliveHasPackages DEF Types, PkgsType, InfoType, InfoRec
<1>1. DOMAIN Statuses = pkgs /\ \A p \in pkgs : Statuses[p] = info[p].status
    BY DEF Statuses
<1>2. ~(\A p \in DOMAIN Statuses : Statuses[p] \notin {"INIT", "DOWNLOADING", "VERIFYING"})
    <2> SUFFICES ASSUME \A p \in DOMAIN Statuses :
                           Statuses[p] \notin {"INIT", "DOWNLOADING", "VERIFYING"}
                 PROVE  FALSE
        OBVIOUS
    <2>1. DOMAIN Statuses # {} /\ \A p \in DOMAIN Statuses : Statuses[p] \in DownloadStatuses
        BY <1>0, <1>1
    <2>2. IsTaskCompleted(TaskStatus(Statuses))
        BY <2>1, EndedIsCompleted
    <2> QED BY <2>2 DEF CurrentStatus
<1>3. PICK p \in pkgs : info[p].status \in {"INIT", "DOWNLOADING", "VERIFYING"}
    BY <1>1, <1>2
<1> QED BY <1>3 DEF InitHasTurn, PoolInv, RunningIsBusy, Running

(* Most steps leave the packages that have not begun their turns.          *)
LEMMA SameTurns ==
    ASSUME InitHasTurn, KeepsBusy, alive' => alive, pkgs' \subseteq pkgs,
           \A p \in pkgs : info'[p].status = "INIT" => info[p].status = "INIT",
           \A p \in pkgs : HasTurn(p) => HasTurn(p)'
    PROVE  InitHasTurn'
<1> SUFFICES ASSUME alive', NEW p \in pkgs', info'[p].status = "INIT"
             PROVE  BusyOn(p)' \/ HasTurn(p)'
    BY DEF InitHasTurn
<1>1. BusyOn(p) \/ HasTurn(p)
    BY DEF InitHasTurn
<1> QED BY <1>1 DEF BusyOn, KeepsBusy

(* A package that has not begun has a thread or its turn, step by step.    *)
LEMMA StaysInTurn ==
    ASSUME Types, Types', CalmInv, PoolInv, ClientInv, InitHasTurn, [CalmNext]_vars
    PROVE  InitHasTurn'
<1>0. OpType /\ PkgsType /\ InfoType /\ PoolType
    BY DEF Types
<1>a. ~alive' => InitHasTurn'
    BY DEF InitHasTurn
<1>1. CASE AsideStep
    <2>1. KeepsBusy /\ UNCHANGED <<pkgs, info>>
        BY <1>1, AsideWork, SameKeepsWork
    <2>2. alive' => alive
        BY <1>1 DEF AsideStep, NewVersionFound, PerformDownload, PerformResumeDownload,
            EnsureInsert, ResumeFinish, NetLostFinish, OnNetAvailable, OnNetIgnored, OnNetLost,
            TakeCallback, TimedTask, CallbackProgress, WorkerDealCallBack, DealCallBack,
            NetChanges, client, vars
    <2>3. \A p \in pkgs : HasTurn(p) => HasTurn(p)'
        <3>1. op' = op \/ op.todo = {} \/ op.kind = "none"
            BY <1>1 DEF AsideStep, NewVersionFound, PerformDownload, PerformResumeDownload,
                EnsureInsert, ResumeFinish, NetLostFinish, OnNetAvailable, OnNetIgnored, OnNetLost,
                TakeCallback, TimedTask, CallbackProgress, WorkerDealCallBack,
                NetChanges, MapMutexFree, vars
        <3> QED BY <3>1 DEF HasTurn
    <2> QED BY <2>1, <2>2, <2>3, SameTurns
<1>2. CASE CleanUpStep
    BY <1>2, <1>a, CleanUpClient
<1>3. CASE StartTask
    <2>1. \/ /\ op' = [NoOp EXCEPT !.kind = "start", !.todo = Packages]
             /\ pkgs' = Packages
          \/ alive' = FALSE
        BY <1>3 DEF StartTask
    <2>2. CASE op' = [NoOp EXCEPT !.kind = "start", !.todo = Packages] /\ pkgs' = Packages
        <3>1. op'.kind = "start" /\ op'.todo = Packages
            BY <2>2 DEF NoOp
        <3> QED BY <2>2, <3>1 DEF InitHasTurn, HasTurn
    <2> QED BY <1>a, <2>1, <2>2
<1>4. ASSUME NEW p \in Packages, StartPackage(p) \/ ResumePackage(p) PROVE InitHasTurn'
    <2>0. /\ op'.kind = op.kind /\ op'.todo = op.todo \ {p} /\ UNCHANGED <<pkgs, alive>>
          /\ op.kind \in {"start", "resume"}
        <3>1. op' = [op EXCEPT !.todo = op.todo \ {p}] /\ UNCHANGED <<pkgs, alive>>
              /\ op.kind \in {"start", "resume"}
            BY <1>4 DEF StartPackage, ResumePackage, task, client
        <3> QED BY <1>0, <3>1 DEF OpType, OpRec
    <2>1. \A q \in pkgs \ {p} : HasTurn(q) => HasTurn(q)'
        BY <2>0 DEF HasTurn
    <2>2. ASSUME KeepsBusy, \A q \in Packages \ {p} : info'[q] = info[q],
                 info'[p].status = "INIT" => BusyOn(p)'
          PROVE  InitHasTurn'
        <3> SUFFICES ASSUME alive', NEW q \in pkgs', info'[q].status = "INIT", q # p
                     PROVE  BusyOn(q)' \/ HasTurn(q)'
            BY <2>2 DEF InitHasTurn
        <3>1. BusyOn(q) \/ HasTurn(q)
            BY <1>0, <2>0, <2>2 DEF InitHasTurn, PkgsType
        <3> QED BY <2>0, <2>1, <2>2, <3>1 DEF BusyOn, KeepsBusy
    <2>3. ASSUME UNCHANGED <<info, pool>>, threadMap[p] # 0 \/ IsCompleted(info[p].status)
          PROVE  InitHasTurn'
        <3>1. KeepsBusy
            BY <2>3, SameItself, SameKeepsWork DEF pool
        <3>2. info'[p].status = "INIT" => BusyOn(p)'
            <4>1. CASE threadMap[p] # 0
                <5>1. BusyOn(p)
                    BY <4>1, MappedWorks DEF PoolInv, BusyOn
                <5> QED BY <3>1, <5>1 DEF KeepsBusy, BusyOn
            <4>2. CASE IsCompleted(info[p].status)
                BY <2>3, <4>2 DEF IsCompleted
            <4> QED BY <2>3, <4>1, <4>2
        <3> QED BY <2>2, <2>3, <3>1, <3>2
    <2>4. ASSUME \E s : StartDownloadThread(p, s), \A q \in Packages \ {p} : info'[q] = info[q]
          PROVE  InitHasTurn'
        <3>1. PICK t \in ThreadIds :
                 threads[t].pc = "free" /\ Fresh(threads'[t], p) /\ OthersSame(t)
            BY <2>4, FreshThread
        <3>2. KeepsBusy /\ Busy(t)'
            BY <3>1, FreshKeepsWork DEF CalmInv
        <3>3. BusyOn(p)'
            BY <3>1, <3>2 DEF BusyOn, Fresh
        <3> QED BY <2>2, <2>4, <3>2, <3>3
    <2>5. ResumePackage(p) =>
              \/ UNCHANGED <<info, pool>> /\ (threadMap[p] # 0 \/ IsCompleted(info[p].status))
              \/ (\E s : StartDownloadThread(p, s)) /\ \A q \in Packages \ {p} : info'[q] = info[q]
        BY <1>0 DEF ResumePackage, InfoType
    <2>6. StartPackage(p) =>
              (\E s : StartDownloadThread(p, s)) /\ \A q \in Packages \ {p} : info'[q] = info[q]
        BY DEF StartPackage
    <2> QED BY <1>4, <2>3, <2>4, <2>5, <2>6
<1>5. CASE ResumeTask
    <2>1. \/ alive' = FALSE
          \/ op' = [NoOp EXCEPT !.kind = "resume", !.todo = pkgs] /\ pkgs' = pkgs
        BY <1>5 DEF ResumeTask
    <2>2. CASE op' = [NoOp EXCEPT !.kind = "resume", !.todo = pkgs] /\ pkgs' = pkgs
        <3>1. op'.kind = "resume" /\ op'.todo = pkgs
            BY <2>2 DEF NoOp
        <3> QED BY <2>2, <3>1 DEF InitHasTurn, HasTurn
    <2> QED BY <1>a, <2>1, <2>2
<1>6. ASSUME NEW p \in Packages, NetPausePackage(p) PROVE InitHasTurn'
    <2>1. /\ KeepsBusy /\ UNCHANGED <<pkgs, alive>> /\ op.kind = "net"
          /\ PausedAtOnce(p) \/ UNCHANGED info
        BY <1>6, NetPauseWork, SameKeepsWork
    <2>2. \A q \in pkgs : info'[q].status = "INIT" => info[q].status = "INIT"
        BY <1>0, <2>1 DEF PausedAtOnce, PkgsType
    <2>3. \A q \in pkgs : ~HasTurn(q)
        BY <2>1 DEF HasTurn
    <2> QED BY <2>1, <2>2, <2>3, SameTurns
<1>7. ASSUME NEW t \in ThreadIds, RunStep(t) PROVE InitHasTurn'
    <2>1. KeepsBusy /\ UNCHANGED <<pkgs, alive, info, op>>
        BY <1>7, RunWork, RunKeepsWork DEF taskSide
    <2> QED BY <2>1, SameTurns DEF HasTurn
<1>8. ASSUME NEW t \in ThreadIds, UpdateDownloadProgress(t) PROVE InitHasTurn'
    <2>0. /\ threads[t].pc = "update" /\ UNCHANGED <<pkgs, alive, op>>
          /\ DroppedReport(t) \/ RetriedReport(t) \/ RecordedReport(t)
        BY <1>8, UpdateWork DEF taskRest
    <2>1. CASE DroppedReport(t)
        <3> SUFFICES ASSUME alive PROVE InitHasTurn'
            BY <1>a, <2>0
        <3>1. ~Busy(t)
            BY <2>1, AliveHasPackages DEF DroppedReport, Busy
        <3>2. KeepsBusy /\ info' = info
            BY <2>0, <2>1, <3>1, UpdateKeepsWork DEF DroppedReport
        <3> QED BY <2>0, <3>2, SameTurns DEF HasTurn
    <2>2. CASE RetriedReport(t)
        <3>1. KeepsBusy /\ \A q \in Packages : info'[q].status = info[q].status
            BY <2>0, <2>2, UpdateKeepsWork DEF RetriedReport
        <3>2. \A q \in pkgs : info'[q].status = info[q].status
            BY <1>0, <3>1 DEF PkgsType
        <3> QED BY <2>0, <3>1, <3>2, SameTurns DEF HasTurn
    <2>3. CASE RecordedReport(t)
        <3>1. /\ info'[threads[t].pkg].status = Recorded(t) /\ OthersSame(t)
              /\ \A q \in Packages \ {threads[t].pkg} : info'[q].status = info[q].status
            BY <2>3 DEF RecordedReport
        <3>2. Recorded(t) # "INIT"
            BY <2>0 DEF Recorded, CalmInv, CalmThread
        <3> SUFFICES ASSUME alive, NEW q \in pkgs, info'[q].status = "INIT"
                     PROVE  BusyOn(q)' \/ HasTurn(q)'
            BY <2>0 DEF InitHasTurn
        <3>3. q # threads[t].pkg /\ q \in Packages
            BY <1>0, <3>1, <3>2 DEF PkgsType
        <3>4. BusyOn(q) \/ HasTurn(q)
            BY <3>1, <3>3 DEF InitHasTurn
        <3>5. BusyOn(q) => BusyOn(q)'
            <4> SUFFICES ASSUME NEW u \in ThreadIds, Busy(u), threads[u].pkg = q PROVE BusyOn(q)'
                BY DEF BusyOn
            <4>1. Same(threads'[u], threads[u])
                BY <3>1, <3>3 DEF OthersSame
            <4> QED BY <4>1, SameWork DEF BusyOn, Same
        <3> QED BY <2>0, <3>4, <3>5 DEF HasTurn
    <2> QED BY <2>0, <2>1, <2>2, <2>3
<1>9. ASSUME NEW t \in ThreadIds, GetTaskProgress(t) PROVE InitHasTurn'
    <2>1. UNCHANGED <<pkgs, alive, info, op>>
        BY <1>9, LookWork DEF taskSide
    <2> SUFFICES ASSUME alive PROVE InitHasTurn'
        BY <1>a, <2>1
    <2>2. pkgs # {} /\ (~threads[t].attached => ~Busy(t))
        BY AliveHasPackages DEF Busy
    <2>3. KeepsBusy
        BY <1>9, <2>2, LookWork
    <2> QED BY <2>1, <2>3, SameTurns DEF HasTurn
<1>10. ASSUME NEW t \in ThreadIds, UpdateTaskProgress(t) PROVE InitHasTurn'
    <2>1. KeepsBusy /\ UNCHANGED <<pkgs, alive, info, op>>
        BY <1>10, RecordWork
    <2> QED BY <2>1, SameTurns DEF HasTurn
<1>11. CASE Restart
    BY <1>11, <1>a DEF Restart
<1> QED BY <1>1, <1>2, <1>3, <1>4, <1>5, <1>6, <1>7, <1>8, <1>9, <1>10, <1>11, AsideOrWork
        DEF WorkStep

(* What is queued or in the worker's hands stays there ...                 *)
LEMMA SameFlight ==
    ASSUME UNCHANGED <<queue, worker>>
    PROVE  EndInFlight' <=> EndInFlight
BY DEF EndInFlight

(* ... when a status is queued behind it, and an end that is submitted is  *)
(* on its way or was recorded before.                                      *)
LEMMA SubmittedFlight ==
    ASSUME Types, NEW s, RecordAndSubmit(s), worker' = worker
    PROVE  /\ EndInFlight => EndInFlight'
           /\ IsTaskCompleted(s) => IsTaskCompleted(status) \/ EndInFlight'
           /\ IsTaskCompleted(status') => IsTaskCompleted(status) \/ EndInFlight'
<1>1. CASE s = status /\ UNCHANGED <<status, queue>>
    BY <1>1, SameFlight
<1>2. CASE /\ status' = s /\ Len(queue') = Len(queue) + 1 /\ Len(queue) \in Nat
           /\ queue'[Len(queue) + 1] = s
           /\ \A i \in 1..Len(queue) : queue'[i] = queue[i]
    <2>1. \A i \in 1..Len(queue) : i \in 1..Len(queue')
        BY <1>2
    <2>2. Len(queue) + 1 \in 1..Len(queue')
        BY <1>2
    <2> QED BY <1>2, <2>1, <2>2 DEF EndInFlight
<1> QED BY <1>1, <1>2, Submitted DEF Types

(* A queued callback the worker takes: no CANCEL overtakes it.             *)
LEMMA TakeFlight ==
    ASSUME Types, CalmInv, TakeCallback
    PROVE  EndInFlight => EndInFlight'
<1>1. queue \in Seq(TaskStatuses) /\ queue # <<>>
    BY DEF Types, QueueType, TakeCallback
<1>2. ~IsSyncCallback(CurrentStatus)
    <2>1. \A p \in pkgs : ~IsSyncCallback(info[p].status)
        BY DEF CalmInv, CalmStatuses, Types, PkgsType
    <2> QED BY <2>1, CalmTaskStatus DEF CurrentStatus, Statuses
<1>3. worker.pc = "idle" /\ queue' = Tail(queue) /\ worker' = [pc |-> "call", status |-> Head(queue)]
    BY <1>2 DEF TakeCallback
<1>4. /\ Len(queue) \in Nat /\ Len(queue') = Len(queue) - 1 /\ Head(queue) = queue[1]
      /\ \A i \in 1..Len(queue') : queue'[i] = queue[i + 1]
    BY <1>1, <1>3
<1> SUFFICES ASSUME NEW i \in 1..Len(queue), IsTaskCompleted(queue[i]) PROVE EndInFlight'
    BY <1>3 DEF EndInFlight
<1>5. CASE i = 1
    BY <1>3, <1>4, <1>5 DEF EndInFlight
<1>6. CASE i # 1
    <2>1. i - 1 \in 1..Len(queue') /\ queue'[i - 1] = queue[i]
        BY <1>4, <1>6
    <2> QED BY <2>1 DEF EndInFlight
<1> QED BY <1>5, <1>6

(* A flow that is alive has its callback: CallbackProgressLocked lets the  *)
(* worker through.                                                         *)
LEMMA CallFlight ==
    ASSUME Types, CalmInv, ClientInv, alive, TimedTask \/ CallbackProgress
    PROVE  EndInFlight => EndInFlight'
<1>1. CASE TimedTask
    <2>1. worker.pc = "idle" /\ queue' = queue
        BY <1>1 DEF TimedTask
    <2> QED BY <2>1 DEF EndInFlight
<1>2. CASE CallbackProgress
    <2>1. CallbackAllowed(worker.status)
        BY DEF CallbackAllowed, ClientInv, CalmInv, CalmOps
    <2>2. worker' = [worker EXCEPT !.pc = "deal"] /\ queue' = queue /\ worker.pc = "call"
        BY <1>2, <2>1 DEF CallbackProgress
    <2>3. worker'.pc = "deal" /\ worker'.status = worker.status
        BY <2>2 DEF Types, WorkerType, WorkerRec
    <2> QED BY <2>2, <2>3 DEF EndInFlight
<1> QED BY <1>1, <1>2

(* The callback that is handed out: an end completes the flow, and one     *)
(* that comes while the task is not yet in the map is the lost one.        *)
LEMMA DealFlight ==
    ASSUME Types, ClientInv, FinalIsOut, WorkerDealCallBack, alive', ~lost'
    PROVE  alive /\ ~lost /\ (EndInFlight => EndInFlight')
<1>0. worker.status \in TaskStatuses /\ lost \in BOOLEAN
    BY WorkerTypes DEF Types, WorkerType, WorkerRec, LostType
<1>1. /\ worker.pc = "deal" /\ queue' = queue /\ alive /\ ~lost
      /\ ~inMap \/ UpgradeStatus(worker.status) = "DOWNLOADING"
      /\ inMap \/ IsFinal(handed)
    BY <1>0 DEF WorkerDealCallBack, DealCallBack
<1>2. ~IsTaskCompleted(worker.status)
    <2>1. CASE inMap
        BY <1>0, <1>1, <2>1, FinalUpgrade
    <2>2. CASE ~inMap
        BY <1>1, <2>2 DEF ClientInv, FinalIsOut, IsFinal
    <2> QED BY <2>1, <2>2
<1> QED BY <1>1, <1>2 DEF EndInFlight

(* A step that keeps the reports coming.                                   *)
LEMMA SameEnd ==
    ASSUME EndIsComing, KeepsReport, EndInFlight => EndInFlight',
           alive' /\ ~lost' => alive /\ ~lost, op' = op
    PROVE  EndIsComing'
BY DEF EndIsComing, KeepsReport

(* Somebody brings the end of the task, step by step.                      *)
LEMMA StaysComing ==
    ASSUME Types, Types', CalmInv, PoolInv, ClientInv, FinalIsOut, EndInv, [CalmNext]_vars
    PROVE  EndIsComing'
<1>0. /\ OpType /\ PkgsType /\ PoolType /\ EndIsComing /\ InitHasTurn /\ RecordedIsOut
      /\ lost \in BOOLEAN
    BY DEF Types, EndInv, LostType
<1>a. ~alive' => EndIsComing'
    BY DEF EndIsComing
<1>b. UNCHANGED threads => KeepsReport
    BY SameItself, SameKeepsWork
<1>1. CASE NewVersionFound \/ PerformDownload \/ PerformResumeDownload \/ OnNetAvailable
           \/ OnNetIgnored \/ NetChanges \/ UNCHANGED vars
    <2>1. UNCHANGED <<op, alive, lost, queue, worker, threads>>
        BY <1>1 DEF NewVersionFound, PerformDownload, PerformResumeDownload, OnNetAvailable,
            OnNetIgnored, NetChanges, vars, client, pool, serial, ghosts
    <2> QED BY <1>0, <1>b, <2>1, SameFlight, SameEnd
<1>2. CASE OnNetLost \/ NetLostFinish \/ EnsureInsert
    <2>1. /\ UNCHANGED <<alive, lost, queue, worker, threads>>
          /\ op.kind \notin {"start", "resume"} \/ (op.kind = "start" /\ op.todo = {})
        BY <1>2 DEF OnNetLost, NetLostFinish, EnsureInsert, MapMutexFree, client, pool, serial, ghosts
    <2> QED BY <1>0, <1>b, <2>1, SameFlight DEF EndIsComing, KeepsReport
<1>3. CASE ResumeFinish
    <2> SUFFICES ASSUME alive', ~lost' PROVE \E t \in ThreadIds : WillReport(t)'
        BY DEF EndIsComing
    <2>1. /\ alive /\ ~IsTaskCompleted(CurrentStatus) /\ op.todo = {}
          /\ UNCHANGED threads
        BY <1>3 DEF ResumeFinish, client, pool
    <2>2. PICK p \in pkgs : BusyOn(p) \/ HasTurn(p)
        BY <1>0, <2>1, NotEnded
    <2>3. PICK t \in ThreadIds : WillReport(t)
        BY <2>1, <2>2 DEF BusyOn, HasTurn, WillReport
    <2> QED BY <1>b, <2>1, <2>3 DEF KeepsReport
<1>4. CASE TakeCallback \/ TimedTask \/ CallbackProgress
    <2>1. UNCHANGED <<op, alive, lost, threads>>
        BY <1>4 DEF TakeCallback, TimedTask, CallbackProgress, client, pool, ghosts
    <2>2. alive => (EndInFlight => EndInFlight')
        BY <1>4, TakeFlight, CallFlight
    <2> QED BY <1>0, <1>a, <1>b, <2>1, <2>2, SameEnd
<1>5. CASE WorkerDealCallBack
    <2>1. UNCHANGED <<op, threads>>
        BY <1>5 DEF WorkerDealCallBack, pool
    <2> SUFFICES ASSUME alive', ~lost' PROVE EndIsComing'
        BY DEF EndIsComing
    <2> QED BY <1>0, <1>5, <1>b, <2>1, DealFlight, SameEnd
<1>6. CASE CleanUpStep
    BY <1>6, <1>a, CleanUpClient
<1>7. CASE StartTask
    <2>1. alive' = FALSE \/ op' = [NoOp EXCEPT !.kind = "start", !.todo = Packages]
        BY <1>7 DEF StartTask
    <2>2. CASE op' = [NoOp EXCEPT !.kind = "start", !.todo = Packages]
        <3>1. op'.kind = "start" /\ op'.todo = Packages
            BY <2>2 DEF NoOp
        <3> QED BY <3>1, EngineAssumption DEF EndIsComing
    <2> QED BY <1>a, <2>1, <2>2
<1>8. ASSUME NEW p \in Packages, StartPackage(p) PROVE EndIsComing'
    <2>1. PICK t \in ThreadIds : threads[t].pc = "free" /\ Fresh(threads'[t], p) /\ OthersSame(t)
        BY <1>8, FreshThread DEF StartPackage
    <2>2. Busy(t)'
        BY <2>1, FreshKeepsWork DEF CalmInv
    <2> QED BY <2>2 DEF EndIsComing, WillReport
<1>9. CASE ResumeTask
    <2>1. op'.kind = "resume"
        BY <1>9, LoopKinds, EngineAssumption
    <2> QED BY <2>1 DEF EndIsComing
<1>10. ASSUME NEW p \in Packages, ResumePackage(p) PROVE EndIsComing'
    <2>1. op'.kind = "resume"
        BY <1>10, LoopKinds DEF ResumePackage
    <2> QED BY <2>1 DEF EndIsComing
<1>11. ASSUME NEW p \in Packages, NetPausePackage(p) PROVE EndIsComing'
    <2>1. /\ KeepsReport /\ UNCHANGED <<alive, lost, worker>> /\ op.kind = "net"
          /\ PausedAtOnce(p) \/ UNCHANGED queue
        BY <1>11, NetPauseWork, SameKeepsWork
    <2>2. EndInFlight => EndInFlight'
        BY <2>1, SameFlight, SubmittedFlight DEF PausedAtOnce
    <2> QED BY <1>0, <2>1, <2>2 DEF EndIsComing, KeepsReport
<1>12. ASSUME NEW t \in ThreadIds, RunStep(t) PROVE EndIsComing'
    <2>1. KeepsReport /\ UNCHANGED <<op, alive, lost, queue, worker>>
        BY <1>12, RunWork, RunKeepsWork DEF taskSide
    <2> QED BY <1>0, <2>1, SameFlight, SameEnd
<1>13. ASSUME NEW t \in ThreadIds, UpdateDownloadProgress(t) PROVE EndIsComing'
    <2>0. /\ threads[t].pc = "update" /\ UNCHANGED <<op, alive, lost, queue, worker>>
          /\ DroppedReport(t) \/ RetriedReport(t) \/ RecordedReport(t)
        BY <1>13, UpdateWork DEF taskRest
    <2>1. CASE DroppedReport(t)
        <3> SUFFICES ASSUME alive PROVE EndIsComing'
            BY <1>a, <2>0
        <3>1. ~WillReport(t)
            BY <2>1, AliveHasPackages DEF DroppedReport, Busy, WillReport
        <3>2. OthersSame(t)
            BY <2>0, <2>1, UpdateKeepsWork
        <3>3. KeepsReport
            BY <3>1, <3>2, SameWork DEF KeepsReport, OthersSame
        <3> QED BY <1>0, <2>0, <3>3, SameFlight, SameEnd
    <2>2. CASE RetriedReport(t) \/ RecordedReport(t)
        <3>1. KeepsReport
            BY <2>0, <2>2, UpdateKeepsWork
        <3> QED BY <1>0, <2>0, <3>1, SameFlight, SameEnd
    <2> QED BY <2>0, <2>1, <2>2
<1>14. ASSUME NEW t \in ThreadIds, GetTaskProgress(t) PROVE EndIsComing'
    <2>0. threads[t].pc = "snap" /\ UNCHANGED <<op, alive, lost, queue, worker>>
        BY <1>14, LookWork DEF taskSide
    <2> SUFFICES ASSUME alive, ~lost PROVE EndIsComing'
        BY <2>0 DEF EndIsComing
    <2>1. pkgs # {} /\ (~threads[t].attached => ~Busy(t) /\ ~WillReport(t))
        BY <2>0, AliveHasPackages DEF Busy, WillReport
    <2>2. KeepsBusy /\ OthersSame(t)
        BY <1>14, <2>1, LookWork DEF LooksAtTask
    <2>3. ASSUME NEW u \in ThreadIds, Busy(u) PROVE EndIsComing'
        BY <2>2, <2>3 DEF KeepsBusy, EndIsComing, WillReport
    <2>4. CASE LooksAtTask(t) /\ IsTaskCompleted(CurrentStatus)
        BY <2>4 DEF LooksAtTask, EndIsComing, WillReport
    <2>5. CASE ~IsTaskCompleted(CurrentStatus)
        <3>1. PICK p \in pkgs : BusyOn(p) \/ HasTurn(p)
            BY <1>0, <2>5, NotEnded
        <3>2. CASE BusyOn(p)
            BY <2>3, <3>2 DEF BusyOn
        <3>3. CASE HasTurn(p)
            BY <2>0, <3>3 DEF HasTurn, EndIsComing
        <3> QED BY <3>1, <3>2, <3>3
    <2>6. CASE ~threads[t].attached
        <3>1. KeepsReport
            BY <2>1, <2>2, <2>6, SameWork DEF KeepsReport, OthersSame
        <3> QED BY <1>0, <2>0, <3>1, SameFlight, SameEnd
    <2> QED BY <1>14, <2>1, <2>4, <2>5, <2>6, LookWork
<1>15. ASSUME NEW t \in ThreadIds, UpdateTaskProgress(t) PROVE EndIsComing'
    <2>0. /\ threads[t].pc = "record" /\ UNCHANGED <<op, alive, lost, worker>>
          /\ KeepsBusy /\ OthersSame(t)
          /\ \/ ~threads[t].attached /\ UNCHANGED <<status, queue>>
             \/ threads[t].attached /\ RecordAndSubmit(threads[t].snap)
        BY <1>15, RecordWork
    <2> SUFFICES ASSUME alive, ~lost PROVE EndIsComing'
        BY <2>0 DEF EndIsComing
    <2>1. EndInFlight => EndInFlight'
        BY <2>0, SameFlight, SubmittedFlight
    <2>2. CASE WillReport(t) /\ ~Busy(t)
        <3>1. threads[t].attached /\ IsTaskCompleted(threads[t].snap)
            BY <2>0, <2>2 DEF WillReport
        <3>2. IsTaskCompleted(status) \/ EndInFlight'
            BY <2>0, <3>1, SubmittedFlight
        <3> QED BY <1>0, <2>0, <2>1, <3>2 DEF RecordedIsOut, EndIsComing
    <2>3. CASE ~(WillReport(t) /\ ~Busy(t))
        <3>1. KeepsReport
            <4> SUFFICES ASSUME NEW u \in ThreadIds, WillReport(u) PROVE WillReport(u)'
                BY DEF KeepsReport
            <4>1. CASE Busy(u)
                BY <2>0, <4>1 DEF KeepsBusy, WillReport
            <4>2. CASE u # t
                BY <2>0, <4>2, SameWork DEF OthersSame
            <4> QED BY <2>3, <4>1, <4>2
        <3> QED BY <1>0, <2>0, <2>1, <3>1, SameEnd
    <2> QED BY <2>2, <2>3
<1>16. CASE Restart
    BY <1>16, <1>a DEF Restart
<1> QED BY <1>1, <1>2, <1>3, <1>4, <1>5, <1>6, <1>7, <1>8, <1>9, <1>10, <1>11, <1>12, <1>13,
           <1>14, <1>15, <1>16 DEF CalmNext

(* An end that is recorded is on its way, step by step.                    *)
LEMMA StaysOut ==
    ASSUME Types, Types', CalmInv, ClientInv, FinalIsOut, RecordedIsOut, [CalmNext]_vars
    PROVE  RecordedIsOut'
<1>0. lost \in BOOLEAN
    BY DEF Types, LostType
<1>a. ~alive' => RecordedIsOut'
    BY DEF RecordedIsOut
<1>b. ASSUME alive' /\ ~lost' => alive /\ ~lost, op.kind = "resume" => op'.kind = "resume",
             EndInFlight => EndInFlight',
             IsTaskCompleted(status') => IsTaskCompleted(status) \/ EndInFlight'
      PROVE  RecordedIsOut'
    BY <1>b DEF RecordedIsOut
<1>1. CASE NewVersionFound \/ PerformDownload \/ PerformResumeDownload \/ OnNetAvailable
           \/ OnNetIgnored \/ OnNetLost \/ NetLostFinish \/ EnsureInsert \/ NetChanges
           \/ UNCHANGED vars
    <2>1. UNCHANGED <<alive, lost, status, queue, worker>>
        BY <1>1 DEF NewVersionFound, PerformDownload, PerformResumeDownload, OnNetAvailable,
            OnNetIgnored, OnNetLost, NetLostFinish, EnsureInsert, NetChanges, vars, client,
            serial, ghosts
    <2>2. op.kind = "resume" => op'.kind = "resume"
        BY <1>1 DEF NewVersionFound, PerformDownload, PerformResumeDownload, OnNetAvailable,
            OnNetIgnored, OnNetLost, NetLostFinish, EnsureInsert, NetChanges, vars, MapMutexFree
    <2> QED BY <1>b, <2>1, <2>2, SameFlight
<1>2. CASE ResumeFinish
    <2>1. status' = CurrentStatus /\ alive' = alive
          /\ lost' = (lost \/ (alive /\ IsTaskCompleted(CurrentStatus)))
        BY <1>2 DEF ResumeFinish, client
    <2> QED BY <2>1 DEF RecordedIsOut
<1>3. CASE TakeCallback \/ TimedTask \/ CallbackProgress
    <2>1. UNCHANGED <<op, alive, lost, status>>
        BY <1>3 DEF TakeCallback, TimedTask, CallbackProgress, client, ghosts
    <2>2. alive => (EndInFlight => EndInFlight')
        BY <1>3, TakeFlight, CallFlight
    <2> QED BY <1>a, <1>b, <2>1, <2>2
<1>4. CASE WorkerDealCallBack
    <2>1. UNCHANGED <<op, status>>
        BY <1>4 DEF WorkerDealCallBack
    <2> SUFFICES ASSUME alive', ~lost' PROVE RecordedIsOut'
        BY DEF RecordedIsOut
    <2> QED BY <1>4, <1>b, <2>1, DealFlight
<1>5. CASE CleanUpStep
    BY <1>5, <1>a, CleanUpClient
<1>6. CASE StartTask
    <2>1. status' = "INIT"
        BY <1>6 DEF StartTask
    <2> QED BY <2>1 DEF RecordedIsOut, IsTaskCompleted
<1>7. ASSUME NEW p \in Packages, StartPackage(p) \/ ResumePackage(p) PROVE RecordedIsOut'
    <2>1. op'.kind = op.kind
        BY <1>7, LoopKinds
    <2>2. UNCHANGED <<alive, lost, status, queue, worker>>
        BY <1>7 DEF StartPackage, ResumePackage, client, serial, ghosts
    <2> QED BY <1>b, <2>1, <2>2, SameFlight
<1>8. CASE ResumeTask
    <2>1. op'.kind = "resume"
        BY <1>8, LoopKinds, EngineAssumption
    <2> QED BY <2>1 DEF RecordedIsOut
<1>9. ASSUME NEW p \in Packages, NetPausePackage(p) PROVE RecordedIsOut'
    <2>1. /\ UNCHANGED <<alive, lost, worker>> /\ op.kind = "net"
          /\ PausedAtOnce(p) \/ UNCHANGED <<status, queue>>
        BY <1>9, NetPauseWork
    <2>2. /\ EndInFlight => EndInFlight'
          /\ IsTaskCompleted(status') => IsTaskCompleted(status) \/ EndInFlight'
        BY <2>1, SameFlight, SubmittedFlight DEF PausedAtOnce
    <2> QED BY <1>b, <2>1, <2>2
<1>10. ASSUME NEW t \in ThreadIds, RunStep(t) \/ GetTaskProgress(t) PROVE RecordedIsOut'
    <2>1. UNCHANGED <<op, alive, lost, status, queue, worker>>
        BY <1>10, RunWork, LookWork DEF taskSide
    <2> QED BY <1>b, <2>1, SameFlight
<1>11. ASSUME NEW t \in ThreadIds, UpdateDownloadProgress(t) PROVE RecordedIsOut'
    <2>1. UNCHANGED <<op, alive, lost, status, queue, worker>>
        BY <1>11, UpdateWork DEF taskRest
    <2> QED BY <1>b, <2>1, SameFlight
<1>12. ASSUME NEW t \in ThreadIds, UpdateTaskProgress(t) PROVE RecordedIsOut'
    <2>1. /\ UNCHANGED <<op, alive, lost, worker>>
          /\ UNCHANGED <<status, queue>> \/ RecordAndSubmit(threads[t].snap)
        BY <1>12, RecordWork
    <2>2. /\ EndInFlight => EndInFlight'
          /\ IsTaskCompleted(status') => IsTaskCompleted(status) \/ EndInFlight'
        BY <2>1, SameFlight, SubmittedFlight
    <2> QED BY <1>b, <2>1, <2>2
<1>13. CASE Restart
    BY <1>13, <1>a DEF Restart
<1> QED BY <1>1, <1>2, <1>3, <1>4, <1>5, <1>6, <1>7, <1>8, <1>9, <1>10, <1>11, <1>12, <1>13
        DEF CalmNext

(* The flag that a download overlapped the clean-up of another is only     *)
(* ever set.                                                               *)
LEMMA OverlapIsKept ==
    ASSUME Types, [CalmNext]_vars, ~overlapped'
    PROVE  ~overlapped
<1>1. CASE PerformDownload
    BY <1>1 DEF PerformDownload, Types, OverlapType
<1>2. CASE NewVersionFound \/ PerformResumeDownload \/ EnsureInsert \/ ResumeFinish
           \/ NetLostFinish \/ OnNetAvailable \/ OnNetIgnored \/ OnNetLost
    BY <1>2 DEF NewVersionFound, PerformResumeDownload, EnsureInsert, ResumeFinish, NetLostFinish,
        OnNetAvailable, OnNetIgnored, OnNetLost, ghosts
<1>3. CASE TakeCallback \/ TimedTask \/ CallbackProgress \/ WorkerDealCallBack \/ NetChanges
           \/ UNCHANGED vars
    BY <1>3 DEF TakeCallback, TimedTask, CallbackProgress, WorkerDealCallBack, NetChanges, ghosts,
        vars
<1>4. CASE CleanUpStep
    BY <1>4, CleanUpWork
<1>5. CASE StartTask \/ ResumeTask \/ Restart
    BY <1>5 DEF StartTask, ResumeTask, Restart
<1>6. ASSUME NEW p \in Packages, StartPackage(p) \/ ResumePackage(p) \/ NetPausePackage(p)
      PROVE  overlapped' = overlapped
    BY <1>6 DEF StartPackage, ResumePackage, NetPausePackage, ghosts
<1>7. ASSUME NEW t \in ThreadIds,
             RunStep(t) \/ UpdateDownloadProgress(t) \/ GetTaskProgress(t) \/ UpdateTaskProgress(t)
      PROVE  overlapped' = overlapped
    BY <1>7 DEF RunStep, DownloadVersion, DoDownload, DoVerify, CheckStopFlag, RemoveThread,
        UpdateDownloadProgress, GetTaskProgress, UpdateTaskProgress, ghosts
<1> QED BY <1>1, <1>2, <1>3, <1>4, <1>5, <1>6, <1>7 DEF CalmNext

(* The engine, the firmware and the end on its way between them, until the *)
(* first cancellation and the first overlap.                               *)
EndHolds ==
    /\ FinalIsOut
    /\ Uncancelled => CalmInv /\ PoolInv /\ (~overlapped => ClientInv /\ EndInv)

(* Every step keeps it.                                                    *)
LEMMA EndStep == ASSUME Types, Types', EndHolds, [Next]_vars PROVE EndHolds'
<1>0. FinalIsOut'
    BY NextIsOut DEF EndHolds
<1>1. PoolHolds /\ PoolHolds'
    BY PoolStep DEF EndHolds, PoolHolds
<1> SUFFICES ASSUME Uncancelled', ~overlapped' PROVE ClientInv' /\ EndInv'
    BY <1>0, <1>1 DEF EndHolds, PoolHolds
<1>2. Uncancelled /\ CalmInv /\ PoolInv
    BY StaysUncancelled DEF EndHolds
<1>3. [CalmNext]_vars
    BY <1>2, CalmSteps
<1>4. ClientInv /\ EndInv /\ FinalIsOut
    BY <1>2, <1>3, OverlapIsKept DEF EndHolds
<1>5. InitHasTurn /\ RecordedIsOut
    BY <1>4 DEF EndInv
<1> QED BY <1>2, <1>3, <1>4, <1>5, StaysClient, StaysInTurn, StaysComing, StaysOut DEF EndInv

(* It holds in the beginning.                                              *)
LEMMA InitEnd == Init => EndHolds
<1> SUFFICES ASSUME Init PROVE EndHolds
    OBVIOUS
<1>1. op.kind = "none" /\ worker.pc = "idle"
    BY DEF Init, NoOp, IdleWorker
<1>2. FinalIsOut
    BY <1>1 DEF Init, FinalIsOut, IsFinal
<1>3. ClientInv
    BY <1>1 DEF Init, ClientInv
<1>4. EndInv
    BY DEF Init, EndInv, InitHasTurn, EndIsComing, RecordedIsOut
<1> QED BY <1>2, <1>3, <1>4, InitPool DEF EndHolds

(* It always holds.                                                        *)
LEMMA EndAlways == Spec => []EndHolds
<1>1. Types /\ Types' /\ EndHolds /\ [Next]_vars => EndHolds'
    BY EndStep
<1> QED BY <1>1, InitEnd, TypesHold, PTL DEF Spec

(* Until the first cancellation, whenever nothing is left to run the       *)
(* firmware task is not DOWNLOADING, unless an end was lost in one of the  *)
(* two ways the model records or a download overlapped the clean-up of     *)
(* another: the report that ends the task is always a thread's that is     *)
(* still to look at the status, in the serial queue, or in the worker's    *)
(* hands.  IsProgressChanged never swallows it, for any number of          *)
(* packages, threads, retries, queued callbacks, network changes and power *)
(* losses.                                                                 *)
THEOREM EveryEndIsPassedOn == Spec => [](Uncancelled => QuietIsNotDownloading)
<1>1. Types /\ EndHolds => (Uncancelled => QuietIsNotDownloading)
    <2> SUFFICES ASSUME Types, EndHolds, Uncancelled, Quiet, fw = "DOWNLOADING",
                        ~overlapped, ~lost
                 PROVE  FALSE
        BY DEF QuietIsNotDownloading
    <2>1. CalmInv /\ ClientInv /\ EndInv
        BY DEF EndHolds
    <2>2. op.kind = "none" /\ want = "none" /\ Live = {} /\ queue = <<>> /\ worker.pc = "idle"
        BY DEF Quiet, MapMutexFree
    <2>3. alive
        BY <2>1, <2>2 DEF ClientInv
    <2>4. ~EndInFlight
        BY <2>2 DEF EndInFlight
    <2>5. PICK t \in ThreadIds : WillReport(t)
        BY <2>1, <2>2, <2>3, <2>4 DEF EndInv, EndIsComing
    <2>6. threads[t].attached
        BY <2>5 DEF WillReport, Busy
    <2>7. t \in Live
        BY <2>1, <2>6 DEF CalmInv, CalmThread, Live
    <2> QED BY <2>2, <2>7
<1> QED BY <1>1, EndAlways, TypesHold, PTL

-----------------------------------------------------------------------------
(* The rows of the database                                                *)

(* A step that inserts and deletes no row.                                 *)
RowsKept == \A p \in Packages : db'[p] = "none" <=> db[p] = "none"

(* Outside Start every package has a row or none has, step by step.        *)
LEMMA StaysInRows ==
    ASSUME "start" \notin CrashPoints, Types, Types', CalmInv, PoolInv, RowsInv, [CalmNext]_vars
    PROVE  RowsInv'
<1>0. OpType /\ DbType /\ PkgsType
    BY DEF Types
<1>a. ASSUME RowsKept, UNCHANGED pkgs, inMap' => inMap,
             op'.kind = "start" <=> op.kind = "start", op.kind = "start" => op'.todo = op.todo
      PROVE  RowsInv'
    BY <1>a DEF RowsInv, RowsKept
<1>1. CASE AsideStep
    <2>1. RowsKept /\ UNCHANGED pkgs
        BY <1>1, AsideWork DEF RowsKept
    <2>2. CASE EnsureInsert
        <3>1. op.kind = "start" /\ op.todo = {} /\ op' = NoOp
            BY <2>2 DEF EnsureInsert
        <3>2. pkgs = Packages /\ op'.kind = "none"
            BY <3>1 DEF PoolInv, TaskHasPackages, NoOp
        <3>3. \A p \in Packages : db[p] # "none"
            BY <3>1 DEF RowsInv
        <3> QED BY <2>1, <3>2, <3>3 DEF RowsInv, RowsKept
    <2>3. CASE ResumeFinish \/ NetLostFinish \/ OnNetLost
        <3>1. op' = NoOp \/ \E T : op' = [NoOp EXCEPT !.kind = "net", !.todo = T]
            BY <2>3 DEF ResumeFinish, NetLostFinish, OnNetLost
        <3>2. op'.kind \in {"none", "net"}
            <4>1. CASE op' = NoOp
                BY <4>1 DEF NoOp
            <4>2. CASE \E T : op' = [NoOp EXCEPT !.kind = "net", !.todo = T]
                BY <4>2 DEF NoOp
            <4> QED BY <3>1, <4>1, <4>2
        <3>3. op.kind # "start" /\ inMap' = inMap
            BY <2>3 DEF ResumeFinish, NetLostFinish, OnNetLost, MapMutexFree, task
        <3> QED BY <1>a, <2>1, <3>2, <3>3
    <2>4. CASE WorkerDealCallBack
        BY <1>a, <2>1, <2>4 DEF WorkerDealCallBack, DealCallBack
    <2>5. CASE ~(EnsureInsert \/ ResumeFinish \/ NetLostFinish \/ OnNetLost \/ WorkerDealCallBack)
        <3>1. UNCHANGED <<op, inMap>>
            BY <1>1, <2>5 DEF AsideStep, NewVersionFound, PerformDownload, PerformResumeDownload,
                OnNetAvailable, OnNetIgnored, TakeCallback, TimedTask, CallbackProgress,
                NetChanges, vars, task
        <3> QED BY <1>a, <2>1, <3>1
    <2> QED BY <2>2, <2>3, <2>4, <2>5
<1>2. CASE CleanUpStep
    <2>1. /\ op.kind = "none" /\ op' = op /\ \A p \in Packages : db'[p] = "none"
          /\ UNCHANGED <<inMap, pkgs>> \/ inMap' = FALSE
        BY <1>2, CleanUpWork
    <2> QED BY <2>1 DEF RowsInv
<1>3. CASE StartTask
    <2>1. /\ inMap' = FALSE /\ op.kind = "none"
          /\ \/ op' = [NoOp EXCEPT !.kind = "start", !.todo = Packages]
             \/ op' = op /\ \A p \in Packages : db'[p] = "none"
        BY <1>3 DEF StartTask, MapMutexFree
    <2>2. CASE op' = [NoOp EXCEPT !.kind = "start", !.todo = Packages]
        <3>1. op'.kind = "start" /\ op'.todo = Packages
            BY <2>2 DEF NoOp
        <3> QED BY <2>1, <3>1 DEF RowsInv
    <2>3. CASE op' = op /\ \A p \in Packages : db'[p] = "none"
        BY <2>1, <2>3 DEF RowsInv
    <2> QED BY <2>1, <2>2, <2>3
<1>4. ASSUME NEW p \in Packages, StartPackage(p) PROVE RowsInv'
    <2>1. /\ op.kind = "start" /\ op' = [op EXCEPT !.todo = op.todo \ {p}]
          /\ db' = [db EXCEPT ![p] = IF @ = "none" THEN "INIT" ELSE @] /\ UNCHANGED <<inMap, pkgs>>
        BY <1>4 DEF StartPackage, task
    <2>2. op'.kind = "start" /\ op'.todo = op.todo \ {p}
        BY <1>0, <2>1 DEF OpType, OpRec
    <2>3. db'[p] # "none" /\ \A q \in Packages \ {p} : db'[q] = db[q]
        BY <1>0, <2>1 DEF DbType
    <2> QED BY <2>1, <2>2, <2>3 DEF RowsInv
<1>5. CASE ResumeTask
    <2>1. op'.kind = "resume" /\ op.kind = "none" /\ UNCHANGED <<db, pkgs, inMap>>
        BY <1>5, LoopKinds, EngineAssumption DEF ResumeTask, MapMutexFree
    <2> QED BY <1>a, <2>1 DEF RowsKept
<1>6. ASSUME NEW p \in Packages, ResumePackage(p) PROVE RowsInv'
    <2>1. op'.kind = op.kind /\ op.kind = "resume" /\ UNCHANGED <<db, pkgs, inMap>>
        BY <1>6, LoopKinds DEF ResumePackage, task
    <2> QED BY <1>a, <2>1 DEF RowsKept
<1>7. ASSUME NEW p \in Packages, NetPausePackage(p) PROVE RowsInv'
    <2>1. /\ op.kind = "net" /\ op'.kind = "net" /\ UNCHANGED <<pkgs, inMap>>
          /\ PausedAtOnce(p) \/ UNCHANGED db
        BY <1>7, NetPauseWork
    <2>2. RowsKept
        BY <1>0, <2>1 DEF RowsKept, PausedAtOnce, DbType
    <2> QED BY <1>a, <2>1, <2>2
<1>8. ASSUME NEW t \in ThreadIds, RunStep(t) \/ GetTaskProgress(t) PROVE RowsInv'
    <2>1. UNCHANGED <<op, db, pkgs, inMap>>
        BY <1>8, RunWork, LookWork DEF taskSide
    <2> QED BY <1>a, <2>1 DEF RowsKept
<1>9. ASSUME NEW t \in ThreadIds, UpdateTaskProgress(t) PROVE RowsInv'
    <2>1. UNCHANGED <<op, db, pkgs, inMap>>
        BY <1>9, RecordWork
    <2> QED BY <1>a, <2>1 DEF RowsKept
<1>10. ASSUME NEW t \in ThreadIds, UpdateDownloadProgress(t) PROVE RowsInv'
    <2>1. /\ UNCHANGED <<op, pkgs, inMap>>
          /\ DroppedReport(t) \/ RetriedReport(t) \/ RecordedReport(t)
        BY <1>10, UpdateWork DEF taskRest
    <2>2. RowsKept
        <3>1. CASE DroppedReport(t) \/ RetriedReport(t)
            BY <3>1 DEF DroppedReport, RetriedReport, RowsKept
        <3>2. CASE RecordedReport(t)
            <4>1. Recorded(t) # "none"
                BY DEF Recorded, Types, PoolType, ThreadPool, ThreadRec, DownloadStatuses
            <4>2. db' = [db EXCEPT ![threads[t].pkg] = IF @ = "none" THEN @ ELSE Recorded(t)]
                BY <3>2 DEF RecordedReport
            <4> QED BY <1>0, <4>1, <4>2 DEF RowsKept, DbType
        <3> QED BY <2>1, <3>1, <3>2
    <2> QED BY <1>a, <2>1, <2>2
<1>11. CASE Restart
    <2>1. op.kind # "start"
        BY <1>11 DEF Restart
    <2>2. /\ op'.kind = "none" /\ pkgs' = {p \in Packages : db[p] # "none"}
          /\ inMap' <=> pkgs' # {}
          /\ \A p \in Packages : db'[p] = "none" <=> db[p] = "none"
        BY <1>11, RestartWork
    <2> QED BY <2>1, <2>2 DEF RowsInv
<1> QED BY <1>1, <1>2, <1>3, <1>4, <1>5, <1>6, <1>7, <1>8, <1>9, <1>10, <1>11, AsideOrWork
        DEF WorkStep

-----------------------------------------------------------------------------
(* A success is that of every package                                      *)

(* What has passed has passed: only Start and a restart forget it.         *)
LEMMA PassedStays ==
    ASSUME Types, CalmInv, PoolInv, VerifiedInv, [CalmNext]_vars, ~StartTask, ~Restart
    PROVE  \A p \in Packages : Passed(p) => Passed(p)'
<1> SUFFICES ASSUME NEW p \in Packages, Passed(p) PROVE Passed(p)'
    OBVIOUS
<1>0. InfoType /\ info[p] \in InfoRec /\ BusyIsUnfinished
    BY DEF Types, InfoType, VerifiedInv
<1>a. UNCHANGED <<info, doubled>> => Passed(p)'
    BY DEF Passed
<1>1. CASE AsideStep
    BY <1>1, <1>a, AsideWork
<1>2. CASE CleanUpStep
    BY <1>2, <1>a, CleanUpWork
<1>3. ASSUME NEW q \in Packages, StartPackage(q) PROVE Passed(p)'
    BY <1>3, <1>a DEF StartPackage, ghosts
<1>4. CASE ResumeTask
    BY <1>4 DEF ResumeTask, Passed
<1>5. ASSUME NEW q \in Packages, ResumePackage(q) PROVE Passed(p)'
    <2>1. doubled \subseteq doubled'
        BY <1>5 DEF ResumePackage
    <2>2. info' = info \/ (~IsCompleted(info[q].status) /\ \E x : info' = [info EXCEPT ![q] = x])
        BY <1>5 DEF ResumePackage
    <2> QED BY <1>0, <2>1, <2>2 DEF Passed, InfoType, IsCompleted
<1>6. ASSUME NEW q \in Packages, NetPausePackage(q) PROVE Passed(p)'
    <2>1. /\ op.kind = "net" /\ q \in op.todo /\ doubled' = doubled
          /\ PausedAtOnce(q) \/ UNCHANGED info
        BY <1>6, NetPauseWork
    <2>2. threadMap[q] \in ThreadIds /\ Busy(threadMap[q]) /\ threads[threadMap[q]].pkg = q
        BY <2>1, MappedWorks DEF PoolInv, MappedIsBusy
    <2>3. info[q].status # "SUCCESS" \/ q \in doubled
        BY <1>0, <2>2 DEF BusyIsUnfinished
    <2> QED BY <1>a, <2>1, <2>3 DEF Passed, PausedAtOnce
<1>7. ASSUME NEW t \in ThreadIds, RunStep(t) \/ GetTaskProgress(t) PROVE Passed(p)'
    BY <1>7, <1>a, RunWork, LookWork DEF taskSide
<1>8. ASSUME NEW t \in ThreadIds, UpdateTaskProgress(t) PROVE Passed(p)'
    BY <1>8, <1>a, RecordWork
<1>9. ASSUME NEW t \in ThreadIds, UpdateDownloadProgress(t) PROVE Passed(p)'
    <2>1. /\ threads[t].pc = "update" /\ doubled' = doubled
          /\ DroppedReport(t) \/ RetriedReport(t) \/ RecordedReport(t)
        BY <1>9, UpdateWork DEF taskRest
    <2>2. CASE DroppedReport(t) \/ RetriedReport(t)
        BY <2>1, <2>2 DEF DroppedReport, RetriedReport, Passed
    <2>3. CASE RecordedReport(t)
        <3>1. Busy(t)
            BY <2>1, <2>3, UpdateKeepsWork
        <3>2. info[threads[t].pkg].status # "SUCCESS" \/ threads[t].pkg \in doubled
            BY <1>0, <3>1 DEF BusyIsUnfinished
        <3>3. p # threads[t].pkg => info'[p].status = info[p].status
            BY <2>3 DEF RecordedReport
        <3> QED BY <2>1, <3>2, <3>3 DEF Passed
    <2> QED BY <2>1, <2>2, <2>3
<1> QED BY <1>1, <1>2, <1>3, <1>4, <1>5, <1>6, <1>7, <1>8, <1>9, AsideOrWork DEF WorkStep

(* The current download has every package.                                 *)
LEMMA CurrentHasAll ==
    ASSUME PoolInv, RowsInv, Current
    PROVE  pkgs = Packages
BY DEF Current, PoolInv, TaskHasPackages, RowsInv

(* A success that is on its way was on its way, ...                        *)
LEMMA SameSuccess ==
    ASSUME GainsNoSuccess, UNCHANGED <<queue, worker>>, SuccessInFlight'
    PROVE  SuccessInFlight
BY DEF GainsNoSuccess, SnapsSuccess, SuccessInFlight

(* ... or a thread has just found every package a success.                 *)
LEMMA SuccessIsFound ==
    ASSUME Types, CalmInv, PoolInv, RowsInv, Current, [CalmNext]_vars, ~CleanUpStep, ~StartTask,
           ~Restart, SuccessInFlight'
    PROVE  SuccessInFlight \/ \A p \in Packages : Passed(p)
<1>0. /\ pkgs = Packages /\ QueueType /\ worker \in WorkerRec
      /\ IdleWorker.pc = "idle"
    BY CurrentHasAll DEF Types, WorkerType, IdleWorker
<1>a. UNCHANGED threads => GainsNoSuccess
    BY SameItself, SameKeepsWork
<1>1. CASE NewVersionFound \/ PerformDownload \/ PerformResumeDownload \/ OnNetAvailable
           \/ OnNetIgnored \/ OnNetLost \/ NetLostFinish \/ EnsureInsert \/ NetChanges
           \/ ResumeTask \/ ResumeFinish \/ UNCHANGED vars
    <2>1. UNCHANGED <<threads, queue, worker>>
        BY <1>1 DEF NewVersionFound, PerformDownload, PerformResumeDownload, OnNetAvailable,
            OnNetIgnored, OnNetLost, NetLostFinish, EnsureInsert, NetChanges, ResumeTask,
            ResumeFinish, vars, pool, serial
    <2> QED BY <1>a, <2>1, SameSuccess
<1>2. CASE TakeCallback
    <2>1. /\ queue \in Seq(TaskStatuses) /\ queue # <<>> /\ queue' = Tail(queue)
          /\ worker' = IdleWorker \/ worker' = [pc |-> "call", status |-> Head(queue)]
          /\ UNCHANGED threads
        BY <1>0, <1>2 DEF TakeCallback, QueueType, pool
    <2>2. /\ Len(queue) \in Nat /\ Len(queue') = Len(queue) - 1 /\ Head(queue) = queue[1]
          /\ 1 \in 1..Len(queue)
          /\ \A i \in 1..Len(queue') : i + 1 \in 1..Len(queue) /\ queue'[i] = queue[i + 1]
        BY <2>1
    <2>3. worker'.pc \in {"call", "deal"} /\ worker'.status = "SUCCESS" => queue[1] = "SUCCESS"
        BY <1>0, <2>1, <2>2
    <2>4. CASE \E i \in 1..Len(queue') : queue'[i] = "SUCCESS"
        BY <2>2, <2>4 DEF SuccessInFlight
    <2>5. CASE worker'.pc \in {"call", "deal"} /\ worker'.status = "SUCCESS"
        BY <2>2, <2>3, <2>5 DEF SuccessInFlight
    <2> QED BY <2>1, <2>4, <2>5 DEF SuccessInFlight
<1>3. CASE TimedTask \/ CallbackProgress \/ WorkerDealCallBack
    <2>1. UNCHANGED <<threads, queue>>
        BY <1>3 DEF TimedTask, CallbackProgress, WorkerDealCallBack, pool
    <2>2. \/ worker' = IdleWorker \/ worker' = [worker EXCEPT !.pc = "remove"]
          \/ worker' = [worker EXCEPT !.pc = "deal"] /\ worker.pc = "call"
          \/ worker' = [pc |-> "call", status |-> CurrentStatus] /\ ~IsTaskCompleted(CurrentStatus)
        BY <1>3 DEF TimedTask, CallbackProgress, WorkerDealCallBack
    <2>3. worker'.pc \in {"call", "deal"} /\ worker'.status = "SUCCESS" =>
              worker.pc \in {"call", "deal"} /\ worker.status = "SUCCESS"
        BY <1>0, <2>2 DEF WorkerRec, IsTaskCompleted
    <2> QED BY <2>1, <2>3 DEF SuccessInFlight
<1>4. ASSUME NEW p \in Packages, StartPackage(p) \/ ResumePackage(p) PROVE SuccessInFlight
    <2>1. UNCHANGED <<queue, worker>> /\ (UNCHANGED threads \/ \E s : StartDownloadThread(p, s))
        BY <1>4 DEF StartPackage, ResumePackage, serial, pool
    <2>2. CASE \E s : StartDownloadThread(p, s)
        <3>1. PICK t \in ThreadIds :
                 threads[t].pc = "free" /\ Fresh(threads'[t], p) /\ OthersSame(t)
            BY <2>2, FreshThread
        <3>2. GainsNoSuccess
            BY <3>1, FreshKeepsWork DEF CalmInv
        <3> QED BY <2>1, <3>2, SameSuccess
    <2> QED BY <1>a, <2>1, <2>2, SameSuccess
<1>5. ASSUME NEW p \in Packages, NetPausePackage(p) PROVE SuccessInFlight
    <2>1. /\ GainsNoSuccess /\ worker' = worker
          /\ PausedAtOnce(p) \/ UNCHANGED queue
        BY <1>5, NetPauseWork, SameKeepsWork
    <2>2. CASE PausedAtOnce(p)
        <3> DEFINE f == [q \in pkgs |-> info'[q].status]
        <3>1. RecordAndSubmit(TaskStatus(f)) /\ f[p] = "AUTO_PAUSE" /\ p \in DOMAIN f
            BY <1>0, <2>2 DEF PausedAtOnce
        <3> HIDE DEF f
        <3>2. TaskStatus(f) # "SUCCESS"
            BY <3>1, SuccessIsOfAll
        <3>3. \/ UNCHANGED queue
              \/ /\ Len(queue') = Len(queue) + 1 /\ Len(queue) \in Nat
                 /\ queue'[Len(queue) + 1] = TaskStatus(f)
                 /\ \A i \in 1..Len(queue) : queue'[i] = queue[i]
            BY <1>0, <3>1, Submitted
        <3>4. \A i \in 1..Len(queue') : queue'[i] = "SUCCESS" =>
                  i \in 1..Len(queue) /\ queue[i] = "SUCCESS"
            BY <3>2, <3>3
        <3> QED BY <2>1, <3>4 DEF SuccessInFlight, GainsNoSuccess, SnapsSuccess
    <2> QED BY <2>1, <2>2, SameSuccess
<1>6. ASSUME NEW t \in ThreadIds, RunStep(t) PROVE SuccessInFlight
    BY <1>6, RunWork, RunKeepsWork, SameSuccess DEF taskSide
<1>7. ASSUME NEW t \in ThreadIds, UpdateDownloadProgress(t) PROVE SuccessInFlight
    <2>1. /\ threads[t].pc = "update" /\ UNCHANGED <<queue, worker>>
          /\ DroppedReport(t) \/ RetriedReport(t) \/ RecordedReport(t)
        BY <1>7, UpdateWork DEF taskRest
    <2> QED BY <2>1, UpdateKeepsWork, SameSuccess
<1>8. ASSUME NEW t \in ThreadIds, GetTaskProgress(t)
      PROVE  SuccessInFlight \/ \A p \in Packages : Passed(p)
    <2>1. UNCHANGED <<queue, worker>>
        BY <1>8, LookWork DEF taskSide
    <2>2. CASE GainsNoSuccess
        BY <2>1, <2>2, SameSuccess
    <2>3. CASE LooksAtTask(t) /\ CurrentStatus # "SUCCESS"
        <3>1. GainsNoSuccess
            BY <2>3 DEF LooksAtTask, OthersSame, Same, GainsNoSuccess, SnapsSuccess
        <3> QED BY <2>1, <3>1, SameSuccess
    <2>4. CASE CurrentStatus = "SUCCESS"
        <3>1. \A p \in pkgs : info[p].status = "SUCCESS"
            BY <2>4, SuccessIsOfAll DEF CurrentStatus, Statuses
        <3> QED BY <1>0, <3>1 DEF Passed
    <2> QED BY <1>8, <2>2, <2>3, <2>4, LookWork
<1>9. ASSUME NEW t \in ThreadIds, UpdateTaskProgress(t) PROVE SuccessInFlight
    <2>1. /\ threads[t].pc = "record" /\ GainsNoSuccess /\ worker' = worker
          /\ UNCHANGED queue \/ (threads[t].attached /\ RecordAndSubmit(threads[t].snap))
        BY <1>9, RecordWork
    <2>2. CASE threads[t].attached /\ RecordAndSubmit(threads[t].snap)
        <3>1. \/ UNCHANGED queue
              \/ /\ Len(queue') = Len(queue) + 1 /\ Len(queue) \in Nat
                 /\ queue'[Len(queue) + 1] = threads[t].snap
                 /\ \A i \in 1..Len(queue) : queue'[i] = queue[i]
            BY <1>0, <2>2, Submitted
        <3>2. CASE threads[t].snap = "SUCCESS"
            BY <2>1, <2>2, <3>2 DEF SuccessInFlight
        <3>3. CASE threads[t].snap # "SUCCESS"
            <4>1. \A i \in 1..Len(queue') : queue'[i] = "SUCCESS" =>
                      i \in 1..Len(queue) /\ queue[i] = "SUCCESS"
                BY <3>1, <3>3
            <4> QED BY <2>1, <4>1 DEF SuccessInFlight, GainsNoSuccess, SnapsSuccess
        <3> QED BY <3>2, <3>3
    <2> QED BY <2>1, <2>2, SameSuccess
<1> QED BY <1>1, <1>2, <1>3, <1>4, <1>5, <1>6, <1>7, <1>8, <1>9 DEF CalmNext

(* A download becomes the current one with Start or a restart, and a       *)
(* clean-up is that of no current download.                                *)
LEMMA CurrentWas ==
    ASSUME Types, ClientInv, [CalmNext]_vars, Current', ~StartTask, ~Restart
    PROVE  Current /\ ~CleanUpStep
<1>0. (inMap' \/ op'.kind = "start") /\ downloadTaskId' /\ want' # "start"
    BY DEF Current
<1>1. ~CleanUpStep
    <2> SUFFICES ASSUME CleanUpStep PROVE FALSE
        OBVIOUS
    <2>1. op.kind = "none" /\ op' = op
        BY CleanUpWork
    <2>2. inMap'
        BY <1>0, <2>1
    <2>3. CASE ReportFinishedDownload
        <3>1. IsCompleted(CurrentStatus) /\ inMap /\ RemoveTask
            BY <2>3 DEF ReportFinishedDownload, FinishRemove
        <3> QED BY <2>2, <3>1 DEF RemoveTask, IsRemovable, IsFinal, IsCompleted
    <2>4. CASE ResumeRunningFails
        <3>1. downloadTaskId' = (downloadTaskId /\ "FAIL" = "SUCCESS")
            BY <2>4 DEF ResumeRunningFails, FinishRemove
        <3> QED BY <1>0, <3>1
    <2>5. CASE ResumeMissingTask
        <3>1. downloadTaskId' = (downloadTaskId /\ "FAIL" = "SUCCESS")
            BY <2>5 DEF ResumeMissingTask, FinishRemove
        <3> QED BY <1>0, <3>1
    <2>6. CASE WorkerRemove
        <3>1. ~inMap /\ RemoveTask
            BY <2>6 DEF WorkerRemove, FinishRemove, ClientInv
        <3> QED BY <2>2, <3>1 DEF RemoveTask
    <2> QED BY <2>3, <2>4, <2>5, <2>6 DEF CleanUpStep
<1>2. CASE NewVersionFound \/ PerformDownload
    BY <1>0, <1>2 DEF NewVersionFound, PerformDownload
<1>3. CASE PerformResumeDownload
    BY <1>0, <1>1, <1>3 DEF PerformResumeDownload, MayDownload, Current
<1>4. CASE EnsureInsert
    BY <1>0, <1>1, <1>4 DEF EnsureInsert, client, Current
<1>5. CASE ResumeTask
    BY <1>0, <1>1, <1>5 DEF ResumeTask, Current
<1>6. CASE ResumeFinish \/ NetLostFinish \/ OnNetLost
    <2>1. op'.kind # "start"
        <3>1. op' = NoOp \/ \E T : op' = [NoOp EXCEPT !.kind = "net", !.todo = T]
            BY <1>6 DEF ResumeFinish, NetLostFinish, OnNetLost
        <3>2. CASE op' = NoOp
            BY <3>2 DEF NoOp
        <3>3. CASE \E T : op' = [NoOp EXCEPT !.kind = "net", !.todo = T]
            BY <3>3 DEF NoOp
        <3> QED BY <3>1, <3>2, <3>3
    <2>2. UNCHANGED <<inMap, downloadTaskId, want>>
        BY <1>6 DEF ResumeFinish, NetLostFinish, OnNetLost, client, task
    <2> QED BY <1>0, <1>1, <2>1, <2>2 DEF Current
<1>7. ASSUME NEW p \in Packages, StartPackage(p) \/ ResumePackage(p) PROVE Current
    <2>1. op'.kind = op.kind
        BY <1>7, LoopKinds
    <2> QED BY <1>0, <1>7, <2>1 DEF StartPackage, ResumePackage, client, task, Current
<1>8. ASSUME NEW p \in Packages, NetPausePackage(p) PROVE Current
    BY <1>0, <1>8, NetPauseWork DEF Current
<1>9. CASE WorkerDealCallBack
    BY <1>0, <1>1, <1>9 DEF WorkerDealCallBack, DealCallBack, Current
<1>10. CASE OnNetAvailable \/ OnNetIgnored \/ TakeCallback \/ TimedTask \/ CallbackProgress
           \/ NetChanges \/ UNCHANGED vars
    BY <1>0, <1>1, <1>10 DEF OnNetAvailable, OnNetIgnored, TakeCallback, TimedTask,
        CallbackProgress, NetChanges, vars, client, task, Current
<1>11. ASSUME NEW t \in ThreadIds,
             RunStep(t) \/ UpdateDownloadProgress(t) \/ GetTaskProgress(t) \/ UpdateTaskProgress(t)
      PROVE  Current
    <2>1. UNCHANGED <<op, inMap, downloadTaskId, want>>
        BY <1>11 DEF RunStep, DownloadVersion, DoDownload, DoVerify, CheckStopFlag, RemoveThread,
            UpdateDownloadProgress, GetTaskProgress, UpdateTaskProgress, client, task
    <2> QED BY <1>0, <2>1 DEF Current
<1> QED BY <1>1, <1>2, <1>3, <1>4, <1>5, <1>6, <1>7, <1>8, <1>9, <1>10, <1>11 DEF CalmNext

(* A package that counts as a success was verified, step by step.          *)
LEMMA StaysVerified ==
    ASSUME Types, CalmInv, VerifiedInv, Current, CurrentInv, [CalmNext]_vars,
           ~CleanUpStep, ~StartTask, ~Restart
    PROVE  \A p \in Packages : info'[p].status = "SUCCESS" => p \in verified' \cup doubled'
<1>0. /\ InfoType /\ \A p \in Packages : info[p] \in InfoRec
      /\ \A p \in Packages : info[p].status = "SUCCESS" => p \in verified \cup doubled
      /\ \A p \in Packages : db[p] # "none" \/ (op.kind = "start" /\ p \in op.todo)
    BY DEF Types, InfoType, CurrentInv
<1>a. ASSUME \A p \in Packages : info'[p].status = "SUCCESS" => info[p].status = "SUCCESS",
             verified \subseteq verified', doubled \subseteq doubled'
      PROVE  \A p \in Packages : info'[p].status = "SUCCESS" => p \in verified' \cup doubled'
    BY <1>0, <1>a
<1>1. CASE AsideStep
    BY <1>1, <1>a, AsideWork
<1>2. ASSUME NEW q \in Packages, StartPackage(q)
      PROVE  \A p \in Packages : info'[p].status = "SUCCESS" => p \in verified' \cup doubled'
    BY <1>2, <1>a DEF StartPackage, ghosts
<1>3. CASE ResumeTask
    <2>1. /\ UNCHANGED <<verified, doubled>>
          /\ \A p \in Packages : info'[p] = info[p] \/ info'[p] = [info[p] EXCEPT !.status = "INIT"]
        BY <1>3 DEF ResumeTask
    <2>2. \A p \in Packages : info'[p].status \in {info[p].status, "INIT"}
        BY <1>0, <2>1 DEF InfoRec
    <2> QED BY <1>a, <2>1, <2>2
<1>4. ASSUME NEW q \in Packages, ResumePackage(q)
      PROVE  \A p \in Packages : info'[p].status = "SUCCESS" => p \in verified' \cup doubled'
    <2>1. doubled \subseteq doubled' /\ verified' = verified
        BY <1>4 DEF ResumePackage
    <2>2. \/ info' = info
          \/ \E s \in {info[q].status, "DOWNLOADING"} :
                 info' = [info EXCEPT ![q] = [status |-> s, retryTimes |-> 0]]
        BY <1>4 DEF ResumePackage
    <2>3. \A p \in Packages : info'[p].status = "SUCCESS" => info[p].status = "SUCCESS"
        BY <1>0, <2>2 DEF InfoType
    <2> QED BY <1>a, <2>1, <2>3
<1>5. ASSUME NEW q \in Packages, NetPausePackage(q)
      PROVE  \A p \in Packages : info'[p].status = "SUCCESS" => p \in verified' \cup doubled'
    <2>1. UNCHANGED <<verified, doubled>> /\ (PausedAtOnce(q) \/ UNCHANGED info)
        BY <1>5, NetPauseWork
    <2>2. \A p \in Packages : info'[p].status = "SUCCESS" => info[p].status = "SUCCESS"
        BY <2>1 DEF PausedAtOnce
    <2> QED BY <1>a, <2>1, <2>2
<1>6. ASSUME NEW t \in ThreadIds, RunStep(t) \/ GetTaskProgress(t)
      PROVE  \A p \in Packages : info'[p].status = "SUCCESS" => p \in verified' \cup doubled'
    <2>1. UNCHANGED <<info, doubled>> /\ verified \subseteq verified'
        BY <1>6, RunWork, LookWork DEF taskSide
    <2> QED BY <1>a, <2>1
<1>7. ASSUME NEW t \in ThreadIds, UpdateTaskProgress(t)
      PROVE  \A p \in Packages : info'[p].status = "SUCCESS" => p \in verified' \cup doubled'
    <2>1. UNCHANGED <<info, doubled, verified>>
        BY <1>7, RecordWork
    <2> QED BY <1>a, <2>1
<1>8. ASSUME NEW t \in ThreadIds, UpdateDownloadProgress(t)
      PROVE  \A p \in Packages : info'[p].status = "SUCCESS" => p \in verified' \cup doubled'
    <2>1. /\ threads[t].pc = "update" /\ doubled' = doubled /\ ServiceMutexFree
          /\ DroppedReport(t) \/ RetriedReport(t) \/ RecordedReport(t)
        BY <1>8, UpdateWork DEF taskRest
    <2>2. CASE DroppedReport(t) \/ RetriedReport(t)
        BY <1>a, <2>1, <2>2 DEF DroppedReport, RetriedReport
    <2>3. CASE RecordedReport(t)
        <3> DEFINE q == threads[t].pkg
        <3>1. /\ threads[t].attached /\ info'[q].status = Recorded(t) /\ q \in Packages
              /\ \A p \in Packages \ {q} : info'[p].status = info[p].status
              /\ verified' = IF threads[t].report = "FAIL" THEN verified \ {q} ELSE verified
            BY <2>3 DEF RecordedReport, Types, PoolType, ThreadPool, ThreadRec
        <3>2. Recorded(t) = "SUCCESS" => q \in verified \cup doubled /\ verified' = verified
            <4> SUFFICES ASSUME Recorded(t) = "SUCCESS"
                         PROVE  q \in verified \cup doubled /\ verified' = verified
                OBVIOUS
            <4>1. threads[t].report = "SUCCESS"
                BY DEF Recorded
            <4>2. Succeeding(t)
                BY <2>1, <3>1, <4>1 DEF Succeeding
            <4>3. db[q] # "none"
                BY <1>0, <2>1, <3>1 DEF ServiceMutexFree
            <4>4. op.kind # "cancel"
                BY DEF CalmInv, CalmOps
            <4> QED BY <3>1, <4>1, <4>2, <4>3, <4>4 DEF VerifiedInv, ReportsAreVerified
        <3> HIDE DEF q
        <3> SUFFICES ASSUME NEW p \in Packages, info'[p].status = "SUCCESS"
                     PROVE  p \in verified' \cup doubled
            BY <2>1
        <3>3. CASE p = q
            BY <3>1, <3>2, <3>3
        <3>4. CASE p # q
            BY <1>0, <3>1, <3>4
        <3> QED BY <3>3, <3>4
    <2> QED BY <2>1, <2>2, <2>3
<1> QED BY <1>1, <1>2, <1>3, <1>4, <1>5, <1>6, <1>7, <1>8, AsideOrWork DEF WorkStep

(* Only Start and a clean-up delete rows, and Start goes on until every    *)
(* package has had its turn.                                               *)
LEMMA RowsStay ==
    ASSUME Types, CalmInv, [CalmNext]_vars, ~CleanUpStep, ~StartTask, ~Restart
    PROVE  /\ \A p \in Packages : db[p] # "none" => db'[p] # "none"
           /\ op.kind = "start" => op'.kind = "start" \/ op.todo = {}
<1>0. DbType
    BY DEF Types
<1>1. CASE AsideStep
    <2>1. db' = db
        BY <1>1, AsideWork
    <2>2. op.kind = "start" => op' = op \/ op.todo = {}
        BY <1>1 DEF AsideStep, NewVersionFound, PerformDownload, PerformResumeDownload,
            EnsureInsert, ResumeFinish, NetLostFinish, OnNetAvailable, OnNetIgnored, OnNetLost,
            TakeCallback, TimedTask, CallbackProgress, WorkerDealCallBack, NetChanges,
            MapMutexFree, vars
    <2> QED BY <2>1, <2>2
<1>2. ASSUME NEW q \in Packages, StartPackage(q) \/ ResumePackage(q)
      PROVE  op'.kind = op.kind /\ \A p \in Packages : db[p] # "none" => db'[p] # "none"
    <2>1. op'.kind = op.kind
        BY <1>2, LoopKinds
    <2>2. db' = db \/ db' = [db EXCEPT ![q] = IF @ = "none" THEN "INIT" ELSE @]
        BY <1>2 DEF StartPackage, ResumePackage
    <2> QED BY <1>0, <2>1, <2>2 DEF DbType
<1>3. CASE ResumeTask
    BY <1>3 DEF ResumeTask, MapMutexFree
<1>4. ASSUME NEW q \in Packages, NetPausePackage(q)
      PROVE  op.kind # "start" /\ \A p \in Packages : db[p] # "none" => db'[p] # "none"
    BY <1>0, <1>4, NetPauseWork DEF PausedAtOnce, DbType
<1>5. ASSUME NEW t \in ThreadIds, RunStep(t) \/ GetTaskProgress(t) \/ UpdateTaskProgress(t)
      PROVE  UNCHANGED <<op, db>>
    BY <1>5, RunWork, LookWork, RecordWork DEF taskSide
<1>6. ASSUME NEW t \in ThreadIds, UpdateDownloadProgress(t)
      PROVE  op' = op /\ \A p \in Packages : db[p] # "none" => db'[p] # "none"
    <2>1. op' = op /\ (DroppedReport(t) \/ RetriedReport(t) \/ RecordedReport(t))
        BY <1>6, UpdateWork DEF taskRest
    <2>2. CASE DroppedReport(t) \/ RetriedReport(t)
        BY <2>1, <2>2 DEF DroppedReport, RetriedReport
    <2>3. CASE RecordedReport(t)
        <3>1. Recorded(t) # "none"
            BY DEF Recorded, Types, PoolType, ThreadPool, ThreadRec, DownloadStatuses
        <3>2. db' = [db EXCEPT ![threads[t].pkg] = IF @ = "none" THEN @ ELSE Recorded(t)]
            BY <2>3 DEF RecordedReport
        <3> QED BY <1>0, <2>1, <3>1, <3>2 DEF DbType
    <2> QED BY <2>1, <2>2, <2>3
<1> QED BY <1>1, <1>2, <1>3, <1>4, <1>5, <1>6, AsideOrWork DEF WorkStep

(* Start begins with nothing on its way.                                   *)
LEMMA StartIsSilent ==
    ASSUME Types, CalmInv, StartTask
    PROVE  ~SuccessInFlight'
<1>1. \A u \in ThreadIds : ~threads'[u].attached
    BY StartWork
<1>2. queue' = <<>> /\ worker'.pc \notin {"call", "deal"}
    <2>1. IdleWorker.pc = "idle"
        BY DEF IdleWorker
    <2> QED BY <2>1 DEF StartTask
<1> QED BY <1>1, <1>2 DEF SuccessInFlight

(* So does a restart: a task it reports as not ended is no success.        *)
LEMMA RestartIsSilent ==
    ASSUME Types, CalmInv, Restart
    PROVE  ~SuccessInFlight'
<1>1. (\A u \in ThreadIds : ~threads'[u].attached) /\ worker'.pc = "idle"
    BY RestartWork DEF Restart, IdleWorker
<1> DEFINE rows == {p \in Packages : db[p] # "none"}
           f == [p \in rows |-> db[p]]
           complete == IsFinal(TaskStatus(f))
           restored == [p \in Packages |->
                          IF p \notin rows THEN "INIT"
                          ELSE IF complete THEN db[p] ELSE RecoveredStatus(db[p])]
           g == [p \in rows |-> restored[p]]
<1>2. /\ status' = TaskStatus(g)
      /\ queue' = IF rows = {} \/ complete THEN <<>> ELSE <<status'>>
    BY DEF Restart
<1>3. CASE rows = {} \/ complete
    <2>1. queue' = <<>>
        BY <1>2, <1>3
    <2> QED BY <1>1, <2>1 DEF SuccessInFlight
<1>4. CASE rows # {} /\ ~complete
    <2>1. TaskStatus(g) # "SUCCESS"
        <3> SUFFICES ASSUME TaskStatus(g) = "SUCCESS" PROVE FALSE
            OBVIOUS
        <3>1. DOMAIN g = rows /\ \A p \in rows : g[p] = RecoveredStatus(db[p])
            BY <1>4
        <3>2. \A p \in rows : g[p] = "SUCCESS"
            <4> HIDE DEF g
            <4> QED BY <3>1, SuccessIsOfAll
        <3>3. \A p \in rows : db[p] = "SUCCESS"
            <4> HIDE DEF g
            <4> QED BY <3>1, <3>2 DEF RecoveredStatus
        <3>4. DOMAIN f = rows /\ \A p \in rows : f[p] = "SUCCESS"
            BY <3>3
        <3>5. TaskStatus(f) = "SUCCESS"
            <4> HIDE DEF f
            <4> QED BY <1>4, <3>4, SuccessIsOfAll
        <3> QED BY <1>4, <3>5 DEF IsFinal
    <2> HIDE DEF g
    <2>2. queue' = <<TaskStatus(g)>>
        BY <1>2, <1>4
    <2>3. Len(queue') = 1 /\ queue'[1] = TaskStatus(g)
        BY <2>2
    <2> QED BY <1>1, <2>1, <2>3 DEF SuccessInFlight
<1> QED BY <1>3, <1>4

(* The current download, step by step.                                     *)
LEMMA StaysCurrent ==
    ASSUME "start" \notin CrashPoints, Types, Types', CalmInv, PoolInv, ClientInv, VerifiedInv,
           RowsInv, RowsInv', CurrentInv, [CalmNext]_vars
    PROVE  CurrentInv'
<1> SUFFICES ASSUME Current'
             PROVE  /\ \A p \in Packages : info'[p].status = "SUCCESS" => p \in verified' \cup doubled'
                    /\ \A p \in Packages : db'[p] # "none" \/ (op'.kind = "start" /\ p \in op'.todo)
                    /\ SuccessInFlight' => \A p \in Packages : Passed(p)'
    BY DEF CurrentInv
<1>1. CASE StartTask
    <2>1. inMap' = FALSE /\ \A p \in Packages : info'[p].status # "SUCCESS"
        BY <1>1, StartWork DEF StartTask
    <2>2. op'.kind = "start"
        BY <2>1 DEF Current
    <2> QED BY <1>1, <2>1, <2>2, StartIsSilent DEF RowsInv
<1>2. CASE Restart
    <2>1. /\ \A p \in Packages : info'[p].status = "SUCCESS" => db[p] = "SUCCESS"
          /\ \A p \in Packages : db'[p] = "none" <=> db[p] = "none"
          /\ pkgs' = {p \in Packages : db[p] # "none"} /\ (inMap' <=> pkgs' # {})
          /\ op'.kind = "none" /\ UNCHANGED <<verified, doubled>>
        BY <1>2, RestartWork DEF Restart
    <2>2. op.kind # "cancel"
        BY DEF CalmInv, CalmOps
    <2>3. \A p \in Packages : info'[p].status = "SUCCESS" => p \in verified' \cup doubled'
        BY <2>1, <2>2 DEF VerifiedInv, PersistedSuccessIsVerified
    <2>4. \A p \in Packages : db'[p] # "none"
        BY <2>1 DEF Current, RowsInv
    <2> QED BY <1>2, <2>3, <2>4, RestartIsSilent
<1>3. CASE ~StartTask /\ ~Restart
    <2>1. Current /\ ~CleanUpStep
        BY <1>3, CurrentWas
    <2>2. \A p \in Packages : info'[p].status = "SUCCESS" => p \in verified' \cup doubled'
        BY <1>3, <2>1, StaysVerified
    <2>3. \A p \in Packages : db'[p] # "none" \/ (op'.kind = "start" /\ p \in op'.todo)
        <3>1. /\ \A p \in Packages : db[p] # "none" => db'[p] # "none"
              /\ op.kind = "start" => op'.kind = "start" \/ op.todo = {}
            BY <1>3, <2>1, RowsStay
        <3>2. \A p \in Packages : db[p] # "none" \/ (op.kind = "start" /\ p \in op.todo)
            BY <2>1 DEF CurrentInv
        <3>3. CASE op'.kind = "start"
            BY <3>3 DEF RowsInv
        <3>4. CASE op'.kind # "start"
            BY <3>1, <3>2, <3>4
        <3> QED BY <3>3, <3>4
    <2>4. SuccessInFlight' => \A p \in Packages : Passed(p)'
        <3> SUFFICES ASSUME SuccessInFlight' PROVE \A p \in Packages : Passed(p)'
            OBVIOUS
        <3>1. SuccessInFlight \/ \A p \in Packages : Passed(p)
            BY <1>3, <2>1, SuccessIsFound
        <3>2. \A p \in Packages : Passed(p)
            BY <2>1, <3>1 DEF CurrentInv
        <3> QED BY <1>3, <3>2, PassedStays
    <2> QED BY <2>2, <2>3, <2>4
<1> QED BY <1>1, <1>2, <1>3

(* A clean-up that leaves the firmware task DOWNLOAD_SUCCESS deletes no    *)
(* file, and found it so or reports a task whose every package succeeded.  *)
LEMMA CleanUpSucceeds ==
    ASSUME Types, ClientInv, CleanUpStep, fw' = "DOWNLOAD_SUCCESS"
    PROVE  /\ UNCHANGED <<verified, doubled, threads, info>> /\ op'.kind = "none"
           /\ \/ fw = "DOWNLOAD_SUCCESS"
              \/ CurrentStatus = "SUCCESS" /\ Current /\ inMap
<1>0. CurrentStatus \in TaskStatuses /\ worker.status \in TaskStatuses
    BY TaskStatusType DEF Types, WorkerType, WorkerRec, CurrentStatus
<1>1. op'.kind = "none" /\ UNCHANGED <<info, doubled>>
    BY CleanUpWork
<1>2. CASE ReportFinishedDownload
    <2>1. /\ FinishRemove(CurrentStatus, UpgradeStatus(CurrentStatus), threads)
          /\ want = "none" /\ downloadTaskId /\ inMap
        BY <1>2 DEF ReportFinishedDownload, MayDownload
    <2>2. UpgradeStatus(CurrentStatus) = "DOWNLOAD_SUCCESS"
        BY <2>1 DEF FinishRemove
    <2>3. CurrentStatus = "SUCCESS"
        BY <1>0, <2>2, FinalUpgrade
    <2>4. UNCHANGED <<verified, threads>>
        BY <2>1, <2>3 DEF FinishRemove
    <2> QED BY <1>1, <2>1, <2>3, <2>4 DEF Current
<1>3. CASE ResumeRunningFails
    BY <1>3 DEF ResumeRunningFails, FinishRemove
<1>4. CASE ResumeMissingTask
    BY <1>4 DEF ResumeMissingTask, FinishRemove
<1>5. CASE WorkerRemove
    <2>1. /\ FinishRemove(worker.status, fw, threads)
          /\ fw = UpgradeStatus(worker.status)
        BY <1>5 DEF WorkerRemove, ClientInv
    <2>2. fw = "DOWNLOAD_SUCCESS"
        BY <2>1 DEF FinishRemove
    <2>3. worker.status = "SUCCESS"
        BY <1>0, <2>1, <2>2, FinalUpgrade
    <2>4. UNCHANGED <<verified, threads>>
        BY <2>1, <2>3 DEF FinishRemove
    <2> QED BY <1>1, <2>2, <2>4
<1> QED BY <1>2, <1>3, <1>4, <1>5 DEF CleanUpStep

(* A SUCCESS handed to the firmware is that of the current download.       *)
LEMMA DealSucceeds ==
    ASSUME Types, ClientInv, WorkerDealCallBack, fw' = "DOWNLOAD_SUCCESS"
    PROVE  fw = "DOWNLOAD_SUCCESS" \/ (SuccessInFlight /\ Current)
<1>0. worker.status \in TaskStatuses
    BY DEF Types, WorkerType, WorkerRec
<1>1. worker.pc = "deal" /\ (fw' = fw \/ (inMap /\ alive /\ fw' = UpgradeStatus(worker.status)))
    BY DEF WorkerDealCallBack, DealCallBack
<1>2. CASE inMap /\ alive /\ fw' = UpgradeStatus(worker.status)
    <2>1. worker.status = "SUCCESS"
        BY <1>0, <1>2, FinalUpgrade
    <2>2. downloadTaskId /\ want = "none"
        BY <1>2 DEF ClientInv
    <2> QED BY <1>1, <1>2, <2>1, <2>2 DEF SuccessInFlight, Current
<1> QED BY <1>1, <1>2

(* The firmware's success, step by step.                                   *)
LEMMA StaysSucceeded ==
    ASSUME Types, Types', CalmInv, PoolInv, ClientInv, VerifiedInv, RowsInv, CurrentInv,
           SucceededInv, [CalmNext]_vars
    PROVE  SucceededInv'
<1>0. OpType /\ InfoType /\ BusyIsUnfinished
    BY DEF Types, VerifiedInv
<1> SUFFICES ASSUME fw' = "DOWNLOAD_SUCCESS"
             PROVE  /\ Packages \subseteq verified' \cup doubled'
                    /\ \A t \in ThreadIds : Busy(t)' => threads'[t].pkg \in doubled'
                    /\ op'.kind = "resume" => \A p \in Packages : Passed(p)'
    BY DEF SucceededInv
<1> DEFINE Good == /\ Packages \subseteq verified \cup doubled
                   /\ \A t \in ThreadIds : Busy(t) => threads[t].pkg \in doubled
           Goal == /\ Packages \subseteq verified' \cup doubled'
                   /\ \A t \in ThreadIds : Busy(t)' => threads'[t].pkg \in doubled'
                   /\ op'.kind = "resume" => \A p \in Packages : Passed(p)'
<1>a. ASSUME \A p \in Packages : Passed(p), Current PROVE Good
    <2>1. \A p \in Packages : p \in verified \cup doubled
        BY <1>a DEF Passed, CurrentInv
    <2>2. \A t \in ThreadIds : threads[t].pkg \in Packages
        BY DEF Types, PoolType, ThreadPool, ThreadRec
    <2>3. \A t \in ThreadIds : Busy(t) => threads[t].pkg \in doubled
        BY <1>0, <1>a, <2>2 DEF Passed, BusyIsUnfinished
    <2> QED BY <2>1, <2>3
<1>b. ASSUME Good, GainsNone, verified \subseteq verified', doubled' = doubled,
             op'.kind = "resume" => \A p \in Packages : Passed(p)'
      PROVE  Goal
    BY <1>b DEF GainsNone, Busy
<1>c. fw = "DOWNLOAD_SUCCESS" => Good
    BY DEF SucceededInv
<1> HIDE DEF Good, Goal
<1> SUFFICES Goal
    BY DEF Goal
<1>1. CASE CleanUpStep
    <2>1. /\ UNCHANGED <<verified, doubled, threads, info>> /\ op'.kind = "none"
          /\ \/ fw = "DOWNLOAD_SUCCESS"
             \/ CurrentStatus = "SUCCESS" /\ Current
        BY <1>1, CleanUpSucceeds
    <2>2. GainsNone
        BY <2>1, SameItself, SameKeepsWork
    <2>3. CASE CurrentStatus = "SUCCESS" /\ Current
        <3>1. \A p \in Packages : info[p].status = "SUCCESS"
            BY <2>3, CurrentHasAll, SuccessIsOfAll DEF CurrentStatus, Statuses
        <3>2. Good
            BY <1>a, <2>3, <3>1 DEF Passed
        <3> QED BY <1>b, <2>1, <2>2, <3>2
    <2> QED BY <1>b, <1>c, <2>1, <2>2, <2>3
<1>2. CASE WorkerDealCallBack
    <2>1. GainsNone /\ UNCHANGED <<verified, doubled, info, op>>
        BY <1>2, AsideWork, SameKeepsWork DEF AsideStep, WorkerDealCallBack
    <2>2. CASE fw = "DOWNLOAD_SUCCESS"
        <3>1. op'.kind = "resume" => \A p \in Packages : Passed(p)'
            BY <2>1, <2>2 DEF SucceededInv, Passed
        <3> QED BY <1>b, <1>c, <2>1, <2>2, <3>1
    <2>3. CASE SuccessInFlight /\ Current
        <3>1. \A p \in Packages : Passed(p)
            BY <2>3 DEF CurrentInv
        <3>2. \A p \in Packages : Passed(p)'
            BY <2>1, <3>1 DEF Passed
        <3> QED BY <1>a, <1>b, <2>1, <2>3, <3>1, <3>2
    <2> QED BY <1>2, <2>2, <2>3, DealSucceeds
<1>3. CASE StartTask \/ ResumeTask
    BY <1>3 DEF StartTask, ResumeTask, ClientInv
<1>4. ASSUME NEW p \in Packages, StartPackage(p) PROVE Goal
    BY <1>4 DEF StartPackage, client, ClientInv
<1>5. CASE Restart
    <2>1. /\ \A t \in ThreadIds : ~threads'[t].attached
          /\ op'.kind = "none"
        BY <1>5, RestartWork
    <2>2. fw = "DOWNLOAD_SUCCESS" /\ UNCHANGED <<verified, doubled>>
        BY <1>5 DEF Restart
    <2>3. \A t \in ThreadIds : ~Busy(t)'
        BY <2>1 DEF Busy
    <2> QED BY <1>c, <2>1, <2>2, <2>3 DEF Good, Goal
<1>6. ASSUME NEW q \in Packages, ResumePackage(q) PROVE Goal
    <2>1. fw = "DOWNLOAD_SUCCESS" /\ op.kind = "resume" /\ verified' = verified
          /\ doubled \subseteq doubled'
        BY <1>6 DEF ResumePackage, client
    <2>2. Good /\ \A p \in Packages : Passed(p)
        BY <1>c, <2>1 DEF SucceededInv
    <2>3. \A p \in Packages : Passed(p)'
        <3>1. ~StartTask /\ ~Restart
            <4>1. ~StartTask
                BY <2>1 DEF StartTask, MapMutexFree
            <4>2. op'.kind = "resume"
                BY <1>6, <2>1, LoopKinds
            <4>3. NoOp.kind = "none"
                BY DEF NoOp
            <4> QED BY <4>1, <4>2, <4>3 DEF Restart
        <3> QED BY <2>2, <3>1, PassedStays
    <2>4. \A t \in ThreadIds : Busy(t)' => threads'[t].pkg \in doubled'
        <3>1. CASE UNCHANGED threads
            BY <2>1, <2>2, <3>1 DEF Busy, Good
        <3>2. CASE ~IsCompleted(info[q].status) /\ \E s : StartDownloadThread(q, s)
            <4>1. PICK t \in ThreadIds :
                     threads[t].pc = "free" /\ Fresh(threads'[t], q) /\ OthersSame(t)
                BY <3>2, FreshThread
            <4>2. q \in doubled
                BY <2>2, <3>2 DEF Passed, IsCompleted
            <4>3. \A u \in ThreadIds \ {t} : Busy(u)' => threads'[u].pkg \in doubled
                <5>1. \A u \in ThreadIds \ {t} :
                          threads'[u].pkg = threads[u].pkg /\ (Busy(u)' <=> Busy(u))
                    BY <4>1, SameWork DEF OthersSame, Same
                <5> QED BY <2>2, <5>1 DEF Good
            <4> QED BY <2>1, <4>1, <4>2, <4>3 DEF Fresh
        <3> QED BY <1>6, <3>1, <3>2 DEF ResumePackage, pool
    <2> QED BY <2>1, <2>2, <2>3, <2>4 DEF Good, Goal
<1>7. ASSUME fw = "DOWNLOAD_SUCCESS", op'.kind = "resume" => op.kind = "resume",
             ~StartTask, ~Restart, GainsNone, verified \subseteq verified', doubled' = doubled
      PROVE  Goal
    <2>1. op'.kind = "resume" => \A p \in Packages : Passed(p)
        BY <1>7 DEF SucceededInv
    <2>2. op'.kind = "resume" => \A p \in Packages : Passed(p)'
        BY <1>7, <2>1, PassedStays
    <2> QED BY <1>b, <1>c, <1>7, <2>2
<1> SUFFICES ASSUME ~StartTask, ~Restart PROVE Goal
    BY <1>3, <1>5
<1>8. CASE NewVersionFound \/ PerformDownload \/ PerformResumeDownload
    BY <1>8 DEF NewVersionFound, PerformDownload, PerformResumeDownload
<1>9. CASE ResumeFinish \/ NetLostFinish \/ OnNetLost \/ EnsureInsert
    <2>1. GainsNone /\ UNCHANGED <<verified, doubled>>
        BY <1>9, AsideWork, SameKeepsWork DEF AsideStep
    <2>2. op' = NoOp \/ \E T : op' = [NoOp EXCEPT !.kind = "net", !.todo = T]
        BY <1>9 DEF ResumeFinish, NetLostFinish, OnNetLost, EnsureInsert
    <2>3. op'.kind # "resume"
        <3>1. CASE op' = NoOp
            BY <3>1 DEF NoOp
        <3>2. CASE \E T : op' = [NoOp EXCEPT !.kind = "net", !.todo = T]
            BY <3>2 DEF NoOp
        <3> QED BY <2>2, <3>1, <3>2
    <2>4. fw' = fw
        BY <1>9 DEF ResumeFinish, NetLostFinish, OnNetLost, EnsureInsert, client
    <2> QED BY <1>7, <2>1, <2>3, <2>4
<1>10. CASE OnNetAvailable \/ OnNetIgnored \/ TakeCallback \/ TimedTask \/ CallbackProgress
           \/ NetChanges \/ UNCHANGED vars
    <2>1. GainsNone /\ UNCHANGED <<verified, doubled>>
        BY <1>10, AsideWork, SameKeepsWork DEF AsideStep
    <2>2. UNCHANGED <<fw, op>>
        BY <1>10 DEF OnNetAvailable, OnNetIgnored, TakeCallback, TimedTask, CallbackProgress,
            NetChanges, vars, client
    <2> QED BY <1>7, <2>1, <2>2
<1>11. ASSUME NEW p \in Packages, NetPausePackage(p) PROVE Goal
    <2>1. /\ GainsNone /\ op'.kind = "net" /\ UNCHANGED <<fw, verified, doubled>>
        BY <1>11, NetPauseWork, SameKeepsWork
    <2> QED BY <1>7, <2>1
<1>12. ASSUME NEW t \in ThreadIds, RunStep(t) \/ GetTaskProgress(t) PROVE Goal
    <2>1. GainsNone /\ UNCHANGED <<fw, op, doubled>> /\ verified \subseteq verified'
        BY <1>12, RunWork, RunKeepsWork, LookWork DEF taskSide
    <2> QED BY <1>7, <2>1
<1>13. ASSUME NEW t \in ThreadIds, UpdateTaskProgress(t) PROVE Goal
    <2>1. GainsNone /\ UNCHANGED <<fw, op, doubled, verified>>
        BY <1>13, RecordWork
    <2> QED BY <1>7, <2>1
<1>14. ASSUME NEW t \in ThreadIds, UpdateDownloadProgress(t) PROVE Goal
    <2>1. /\ threads[t].pc = "update" /\ UNCHANGED <<fw, op, doubled>>
          /\ DroppedReport(t) \/ RetriedReport(t) \/ RecordedReport(t)
        BY <1>14, UpdateWork DEF taskRest
    <2>2. GainsNone
        BY <2>1, UpdateKeepsWork
    <2>3. CASE DroppedReport(t) \/ RetriedReport(t)
        BY <1>7, <2>1, <2>2, <2>3 DEF DroppedReport, RetriedReport
    <2>4. CASE RecordedReport(t)
        <3>1. Good /\ Busy(t) /\ threads[t].pkg \in doubled
            BY <1>c, <2>1, <2>4, UpdateKeepsWork DEF Good
        <3>2. verified \ {threads[t].pkg} \subseteq verified'
            BY <2>4 DEF RecordedReport
        <3>3. Packages \subseteq verified' \cup doubled'
            BY <2>1, <3>1, <3>2 DEF Good
        <3>4. \A u \in ThreadIds : Busy(u)' => threads'[u].pkg \in doubled'
            BY <2>1, <2>2, <3>1 DEF Good, GainsNone, Busy
        <3>5. op'.kind = "resume" => \A p \in Packages : Passed(p)
            BY <2>1 DEF SucceededInv
        <3> QED BY <3>3, <3>4, <3>5, PassedStays DEF Goal
    <2> QED BY <2>1, <2>3, <2>4
<1> QED BY <1>1, <1>2, <1>3, <1>4, <1>6, <1>8, <1>9, <1>10, <1>11, <1>12, <1>13, <1>14
        DEF CalmNext

(* The rows, the current download and the firmware's success, until the    *)
(* first cancellation and the first overlap.                               *)
SuccessHolds == Uncancelled => RowsInv /\ (~overlapped => CurrentInv /\ SucceededInv)

(* Every step keeps it.                                                    *)
LEMMA SuccessStep ==
    ASSUME "start" \notin CrashPoints, Types, Types', EndHolds, VerifiedInv, SuccessHolds,
           [Next]_vars
    PROVE  SuccessHolds'
<1> SUFFICES ASSUME Uncancelled' PROVE RowsInv' /\ (~overlapped' => CurrentInv' /\ SucceededInv')
    BY DEF SuccessHolds
<1>1. Uncancelled /\ CalmInv /\ PoolInv /\ RowsInv
    BY StaysUncancelled DEF EndHolds, SuccessHolds
<1>2. [CalmNext]_vars
    BY <1>1, CalmSteps
<1>3. RowsInv'
    BY <1>1, <1>2, StaysInRows
<1>4. ASSUME ~overlapped' PROVE CurrentInv' /\ SucceededInv'
    <2>1. ClientInv /\ CurrentInv /\ SucceededInv
        BY <1>1, <1>2, <1>4, OverlapIsKept DEF EndHolds, SuccessHolds
    <2> QED BY <1>1, <1>2, <1>3, <2>1, StaysCurrent, StaysSucceeded
<1> QED BY <1>3, <1>4

(* It holds in the beginning.                                              *)
LEMMA InitSuccess == Init => SuccessHolds
<1> SUFFICES ASSUME Init PROVE SuccessHolds
    OBVIOUS
<1>1. op.kind = "none"
    BY DEF Init, NoOp
<1>2. RowsInv
    BY <1>1 DEF Init, RowsInv
<1>3. CurrentInv
    BY <1>1 DEF Init, CurrentInv, Current
<1>4. SucceededInv
    BY DEF Init, SucceededInv
<1> QED BY <1>2, <1>3, <1>4 DEF SuccessHolds

(* Until the first cancellation, a download the firmware counts as a       *)
(* success has every package on disk, verified: a FAIL that arrives late   *)
(* has no thread left to delete a file, and a Resume that meets the        *)
(* success starts nothing.  The exceptions are the packages on which two   *)
(* threads worked at once and a download that overlapped the clean-up of   *)
(* another.  It needs a power loss to leave Start and Cancel whole: one in *)
(* the loop of Start leaves a part of the rows, and the task restored from *)
(* them succeeds without the rest of its packages.                         *)
THEOREM SuccessIsOfEveryPackage ==
    ASSUME "start" \notin CrashPoints, "cancel" \notin CrashPoints
    PROVE  Spec => [](Uncancelled => SuccessMeansAllVerified)
<1>1. Types /\ Types' /\ EndHolds /\ VerifiedInv /\ SuccessHolds /\ [Next]_vars => SuccessHolds'
    BY SuccessStep
<1>2. Types /\ Types' /\ VerifiedInv /\ [Next]_vars => VerifiedInv'
    BY NextVerified
<1>3. SuccessHolds => (Uncancelled => SuccessMeansAllVerified)
    BY DEF SuccessHolds, SucceededInv, SuccessMeansAllVerified
<1> QED BY <1>1, <1>2, <1>3, InitSuccess, InitVerified, EndAlways, TypesHold, PTL DEF Spec

=============================================================================
